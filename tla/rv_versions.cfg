SPECIFICATION Spec
CONSTANTS
    TransactionIdStart = 10
    NotDeletedId = 20
    VectorSize = 2
    NoTxn = NoTxn
    MaxTxns = 3
    MaxRows = 4
    MaxLocal = 2
    Values = {v1, v2, v3, v4}
    NoValue = NoValue
    FlushCount = 2
    Unique = FALSE
    LogFails = FALSE
    Scanners = {11}
    Operations = {"insert", "delete", "rollback"}
SYMMETRY ValueSymmetry
INVARIANTS
    ScanMatchesFetch
    ReloadFaithful
    CommittedRowsHaveTransaction
    ScanReturnsSnapshot
PROPERTY SnapshotIsolation
