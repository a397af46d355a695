SPECIFICATION Spec
CONSTANTS
    Tables = {t1, t2}
    Absent = Absent
    NoCommit = NoCommit
    Torn = Torn
    Unreadable = Unreadable
    MaxCommits = 3
    MaxBlocks = 11
    MaxCheckpoints = 3
    MaxCrashes = 2
    Operations = {"append", "update", "drop"}
    Faults = {"abort_header", "log_fails"}
SYMMETRY TableSymmetry
INVARIANTS
    FreeBlocksUnused
    BlocksAccounted
    CheckpointIntact
PROPERTY NothingLost
CHECK_DEADLOCK FALSE
