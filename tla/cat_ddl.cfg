SPECIFICATION Spec
CONSTANTS
    Names = {a, b, c}
    MaxTransactions = 3
    MaxObjects = 5
    MaxChanges = 2
    TransactionIdStart = 10
    Faults = {}
SYMMETRY NameSymmetry
INVARIANTS
    ScanMatchesLookup
    DependenciesVisible
    DependenciesLive
    NothingRetained
PROPERTY SnapshotIsolation
CHECK_DEADLOCK FALSE
