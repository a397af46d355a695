SPECIFICATION FairSpec
CONSTANTS
    Clients = {c1, c2}
    NoClient = NoClient
    NoTxn = NoTxn
    TransactionIdStart = 3
    MaximumQueryId = 20
    MaxQueries = 2
    Statements = {"query", "stream", "statement", "autocommit", "checkpoint"}
    Drops = {"free"}
INVARIANT ActiveTransactionOwned
PROPERTIES
    CheckpointEnds
    CallReturns
