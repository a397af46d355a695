SPECIFICATION Spec
CONSTANTS
    NumRows = 2
    VectorSize = 2
    NullRows = {}
    Null = Null
    MaxTransactions = 3
    MaxUpdates = 3
    TransactionIdStart = 10
    Faults = {}
INVARIANT ChainsReleased
PROPERTIES
    SnapshotIsolation
    ScansStable
    ReadYourWrites
CHECK_DEADLOCK FALSE
