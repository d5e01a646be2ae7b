SPECIFICATION HubSpec
CONSTANTS
    StreamIds = {s1}
    Sizes = {0, 1, 2}
    MaxCredit = 3
    MaxEvents = 4
    MaxGrants = 2
INVARIANTS
    HubInvariant
    TerminalsRetained
    InOrder
    FirstDropMarked
CHECK_DEADLOCK FALSE
