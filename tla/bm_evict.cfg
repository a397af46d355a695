SPECIFICATION Spec
CONSTANTS
    Threads = {t1, t2}
    Handles = {h1, h2}
    DiskBlocks = {b1}
    None = None
    Limits = {2}
    NewLimits = {1, 2}
    MaxTemporary = 1
    MaxTimestamp = 2
    Faults = {}
SYMMETRY Symmetry
INVARIANTS
    MemoryAccounted
    PinnedStaysLoaded
    EvictableIsQueued
    LimitRespected
    NoCircularWait
CHECK_DEADLOCK FALSE
