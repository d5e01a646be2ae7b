SPECIFICATION Spec
CONSTANTS
    Missing = Missing
    kCompactionTxnId = 100
    Crc <- MCCrc
    MaxTxns = 3
    MinBatch = 1
    MaxBatch = 2
    MaxCheckpoints = 1
    CheckpointStep = 0
    MaxFaults = 3
    FaultKinds = {"io"}
INVARIANTS
    StoreInvariant
    AckedDurable
PROPERTIES
    AckedAppendHeals
    ImplementsDurableState
CHECK_DEADLOCK FALSE
