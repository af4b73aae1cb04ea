CONSTANTS
    t1 = t1
    t2 = t2
    t3 = t3
    Threads <- ThreeThreads
    Types = {"added", "changed"}
    MaxSubs = 2
    MaxPublishes = 3
    MaxDepth = 2
    CrossReset = FALSE
SPECIFICATION FairSpec
CHECK_DEADLOCK FALSE
INVARIANT Barrier
PROPERTY UnsubscribeReturns
