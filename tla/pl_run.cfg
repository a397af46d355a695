SPECIFICATION FairSpec
CONSTANTS
    Main = Main
    Workers = {w1}
    w1 = w1
    p1 = p1
    p2 = p2
    p3 = p3
    Pipelines = {p1, p2, p3}
    Plans <- PlansThatHold
    Faults = {}
INVARIANTS
    InputComplete
    TasksAccounted
    LeavesWhenDone
PROPERTY QueryEnds
CHECK_DEADLOCK FALSE
