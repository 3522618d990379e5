SPECIFICATION FairSpec
CONSTANTS
    N = 2
    Parent <- Siblings
    Dims <- Tokens
    ReqLimit <- RootLimit2Second1
    ReqToolCalls <- ToolLimit
    ReqTimeout <- FirstTimeout1
    ReqDeadline <- RootDeadline2Second3
    MaxUse = 2
    MaxSteps = 2
    MaxPlain = 1
    ParallelTools = TRUE
    MaxParallel = 2
    MaxTime = 3
INVARIANTS
    SpendWithinSlack
    ReservedIsSumOfGrants
    ChildWithinGrant
    DeadlineNested
PROPERTIES
    Terminates
