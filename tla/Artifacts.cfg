SPECIFICATION ArtifactSpec
CONSTANTS
    Keys = {k1, k2}
    MaxHolders = 2
    MaxFaults = 2
INVARIANTS
    LeaseInvariant
    PublishedReadable
    HeldKept
SYMMETRY MCSymmetry
CHECK_DEADLOCK FALSE
