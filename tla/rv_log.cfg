SPECIFICATION Spec
CONSTANTS
    TransactionIdStart = 10
    NotDeletedId = 20
    VectorSize = 2
    NoTxn = NoTxn
    MaxTxns = 3
    MaxRows = 4
    MaxLocal = 2
    Values = {v1, v2, v3, v4}
    NoValue = NoValue
    FlushCount = 9
    Unique = FALSE
    LogFails = TRUE
    Scanners = {}
    Operations = {"insert", "delete", "local_delete"}
SYMMETRY ValueSymmetry
INVARIANT ReplayFaithful
