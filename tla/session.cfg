SPECIFICATION FairSpec
CONSTANTS
    ResponsesThreading = TRUE
    Compaction = TRUE
    KeepRecent = 2
    HasOutput = TRUE
    OutputRepairs = 0
    MaxSteps = 2
    ParallelTools = TRUE
    MaxCalls = 2
    MaxTurns = 2
    MaxRestarts = 1
INVARIANTS
    ModelSeesHistory
    CallsAnswered
PROPERTIES
    ImplementsPlain
    SendReturns
