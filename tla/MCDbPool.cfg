SPECIFICATION FairSpec
CONSTANTS
    t1 = t1
    t2 = t2
    t3 = t3
    Threads <- ThreeThreads
    PoolSize = 2
    MaxAttempts = 3
    None = None
    PendingBound = 2
INVARIANTS
    TypeOK
    ConnExclusive
    NoConnLost
    NoUseAfterClose
PROPERTIES
    CallReturns
    StopCompletes
CHECK_DEADLOCK FALSE
