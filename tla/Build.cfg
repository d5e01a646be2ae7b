SPECIFICATION ManifestSpec
CONSTANTS
    Names = {n1, n2, n3}
    Commands = {c1, c2}
    Kinds = {"declared"}
    MaxGeneration = 7
    MaxTargets = 2
    Files <- MCFiles
INVARIANTS
    SearchInvariant
    CyclesExact
    NeededBuiltInOrder
    ManifestApplied
PROPERTIES
    WorkShrinks
SYMMETRY MCSymmetry
