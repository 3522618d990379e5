SPECIFICATION Spec
CONSTANTS
    N = 2
    Parent <- Chain
    Dims <- Tokens
    ReqLimit <- RootLimit4
    ReqToolCalls <- NoneN
    ReqTimeout <- NoneN
    ReqDeadline <- NoneN
    MaxUse = 2
    MaxSteps = 2
    MaxPlain = 0
    ParallelTools = TRUE
    MaxParallel = 2
    MaxTime = 2
INVARIANTS
    UsageRollsUp
