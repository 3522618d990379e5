SPECIFICATION FairSpec
CONSTANTS
    MaxReqs = 4
    MaxEvents = 2
    Scripts <- Meetings
INVARIANTS
    SessionExclusive
    ClosedStaysClosed
    UpdatesGrouped
PROPERTIES
    NotBlocked
