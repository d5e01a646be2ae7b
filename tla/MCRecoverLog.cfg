SPECIFICATION FairSpec
CONSTANTS
    MaxLen = 5
    Missing = Missing
    kCompactionTxnId = 1000
    Crc <- MCCrc
    Cells <- MCCells
    Logs <- MCLogs
INVARIANTS
    ReturnsCommitted
    LossesReported
    LoopInvariant
PROPERTIES
    Terminates
CHECK_DEADLOCK FALSE
