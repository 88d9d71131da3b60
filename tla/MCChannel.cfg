SPECIFICATION FairSpec
CONSTANTS
    Sizes <- SmallSizes
    PingSize = 1
    MaxQueueBytes = 4
    MaxBatchBytes = 2
    MaxBatchMsgs = 2
    IdleLimit = 2
    PingInterval = 2
    StatsInterval = 1
    BufferFirst = TRUE
    MaxMsgs = 3
    MaxTime = 2
INVARIANTS
    TypeOK
    OneWrite
    ByteAccounting
    NoStall
    ClosedOnce
    TimersStop
PROPERTIES
    PipeSpec
    Released
    EventuallySent
CHECK_DEADLOCK FALSE
