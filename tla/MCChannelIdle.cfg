SPECIFICATION Spec
CONSTANTS
    Sizes <- SmallSizes
    PingSize = 1
    MaxQueueBytes = 4
    MaxBatchBytes = 2
    MaxBatchMsgs = 2
    IdleLimit = 6
    PingInterval = 2
    StatsInterval = 1
    BufferFirst = TRUE
    MaxMsgs = 3
    MaxTime = 6
INVARIANTS
    TimeoutMeansSilence
CHECK_DEADLOCK FALSE
