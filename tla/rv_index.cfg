SPECIFICATION Spec
CONSTANTS
    TransactionIdStart = 10
    NotDeletedId = 20
    VectorSize = 2
    NoTxn = NoTxn
    MaxTxns = 4
    MaxRows = 2
    MaxLocal = 2
    Values = {v1, v2}
    NoValue = NoValue
    FlushCount = 9
    Unique = TRUE
    LogFails = FALSE
    Scanners = {}
    Operations = {"insert", "delete", "local_delete", "rollback"}
SYMMETRY ValueSymmetry
INVARIANTS
    UniqueKeys
    IndexMatchesTable
