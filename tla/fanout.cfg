SPECIFICATION FairSpec
CONSTANTS
    Tools <- PlainAndSub
    SubTools <- OnlySub
    Hanging <- OnlySub
    Unknown = "nosuch"
    MaxCalls = 3
    MaxRounds = 2
    ParallelTools = TRUE
    MaxParallel = 2
    MaxToolErrors = 1
    Approver = TRUE
INVARIANTS
    BreakerBound
PROPERTIES
    FatalEndsFanout
    CancelEndsRun
