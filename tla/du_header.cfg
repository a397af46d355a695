SPECIFICATION Spec
CONSTANTS
    Tables = {t1, t2}
    Absent = Absent
    NoCommit = NoCommit
    Torn = Torn
    Unreadable = Unreadable
    MaxCommits = 3
    MaxBlocks = 11
    MaxCheckpoints = 3
    MaxCrashes = 2
    Operations = {"append", "update", "drop"}
    Faults = {"crash_in_header"}
SYMMETRY TableSymmetry
INVARIANT DatabaseOpens
CHECK_DEADLOCK FALSE
