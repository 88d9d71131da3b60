SPECIFICATION Spec
CONSTANTS
    Sizes <- SmallSizes
    PingSize = 1
    MaxQueueBytes = 4
    MaxBatchBytes = 2
    MaxBatchMsgs = 2
    IdleLimit = 6
    PingInterval = 2
    StatsInterval = 1
    BufferFirst = FALSE
    MaxMsgs = 4
    MaxTime = 0
INVARIANTS
    NothingSwallowed
CHECK_DEADLOCK FALSE
