SPECIFICATION FairWorkflow
CONSTANTS
    Steps <- ThreeSteps
    Missing = "missing"
    Graphs <- AllGraphs
    HangingSteps <- OnlyC
    NoStep = "none"
INVARIANTS
    ValidateExact
    NeverStuck
    InputsReady
    FailureIsCause
PROPERTIES
    FailFast
