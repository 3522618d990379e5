SPECIFICATION CallsSpec
CONSTANTS
    Callers = {a, b}
    Streamers = {s}
    MaxConcurrency = 1
    Base = 2
    Cap = 3
    MaxRetries = 2
    Jitter = TRUE
    Hints <- SomeHints
    Deciders = {d1}
    RetryCounts <- SomeRetries
    FirstWait = 3
    MaxText = 2
    MaxReasoning = 2
    MaxCalls = 2
    MaxArgs = 2
    Finishes = {"tool_calls", "length", "eos"}
INVARIANTS
    SlotsExact
    WaitsBounded
    SameAsGenerate
PROPERTIES
    EveryCallReturns
    StreamEnds
