SPECIFICATION Spec
CONSTANTS
    Missing = Missing
    kCompactionTxnId = 100
    Crc <- MCCrc
    MaxTxns = 3
    MinBatch = 0
    MaxBatch = 2
    MaxCheckpoints = 1
    CheckpointStep = 1
    MaxFaults = 3
    FaultKinds = {"io", "rename", "stat", "writer"}
INVARIANTS
    TransactionsAtomic
    LogInCommitOrder
CHECK_DEADLOCK FALSE
