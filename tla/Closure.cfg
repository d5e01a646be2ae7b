SPECIFICATION ClosureSpec
CONSTANTS
    Names = {"core", "lib", "app"}
    Commands = {"cc"}
    Kinds = {"declared", "discovered"}
    MaxGeneration = 6
INVARIANTS
    ResultComplete
    LoopInvariant
PROPERTIES
    SearchEnds
CHECK_DEADLOCK FALSE
