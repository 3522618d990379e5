SPECIFICATION FairSpec
CONSTANTS
    Calls = {c1, c2}
    Reader = reader
    Nobody = nobody
    Cap = 1
    Habits <- AllHabits
    Stdio = TRUE
INVARIANTS
    OwnAnswer
PROPERTIES
    CloseWakes
