SPECIFICATION Spec
CONSTANTS
    Clients = {c1, c2, c3}
    NoClient = NoClient
    NoTxn = NoTxn
    TransactionIdStart = 3
    MaximumQueryId = 20
    MaxQueries = 2
    Statements = {"query", "begin", "commit", "function", "force_checkpoint"}
    Drops = {"held"}
SYMMETRY ClientSymmetry
INVARIANTS
    TypeOK
    CleanupSafe
    FreedTransactionsUnused
    NothingRetainedWhenIdle
    CheckpointQuiescent
CHECK_DEADLOCK FALSE
