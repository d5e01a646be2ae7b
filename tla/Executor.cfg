SPECIFICATION ManagerSpec
CONSTANTS
    Jobs = {j1, j2}
    MaxLeases = 5
    MaxRevocations = 3
INVARIANTS
    ManagerInvariant
    LateResultsRejected
SYMMETRY MCSymmetry
CHECK_DEADLOCK FALSE
