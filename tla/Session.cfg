SPECIFICATION Spec
CONSTANTS
    StreamIds = {s1, s2}
    Generations = {0, 1}
    SequenceNumbers = {0, 1}
    Tokens = {t1, t2}
    Requests = {a, b}
    Amounts = {1, 2}
    Missing = Missing
    MaxCredit = 2
    MaxStreams = 2
    MaxFrames = 6
    MaxSends = 2
INVARIANTS
    NoReplay
    OneMeaningPerToken
    NoOverCredit
    LossCloses
    SessionInvariant
SYMMETRY MCSymmetry
CHECK_DEADLOCK FALSE
