SPECIFICATION FairSpec
CONSTANTS
    Threads = {t1, t2}
    Handles = {h1, h2}
    DiskBlocks = {b1}
    None = None
    Limits = {1}
    NewLimits = {}
    MaxTemporary = 2
    MaxTimestamp = 2
    Faults = {}
INVARIANT ContentKept
PROPERTY CallsEnd
CHECK_DEADLOCK FALSE
