SPECIFICATION StoresSpec
CONSTANTS
    Namespaces <- ApartNames
    IDs = {i1, i2}
    Values = {v1, v2}
    NoRecord = none
    MaxOps = 3
    MaxStops = 2
    Agents = {a1, a2}
    short = short
    long = long
    Texts <- ShortAndLong
    Kinds = {""}
    Saliences = {0, 200}
    LineCost <- CostOfText
    HeaderCost = 1
    PreambleBudget = 4
    Limits = {0, 1}
    DefaultLimit = 2
    MaxLimit = 3
    KeepRecent = 1
    MaxToolCalls = 3
    MaxCompactions = 2
SYMMETRY Swap
INVARIANTS
    AcknowledgedSurvive
    ImportantInView
PROPERTIES
    ImplementsStore
    BlockBeforeSummary
