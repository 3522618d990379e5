SPECIFICATION TraceSpec
CONSTANTS
    Configs <- MCConfigs
    CallLimits <- MCCallLimits
    Repairs = 1
INVARIANTS
    SummaryExact
    SpansEnclosed
