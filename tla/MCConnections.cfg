SPECIFICATION FairSpec
CONSTANTS
    MaxChannels = 2
    QueueFrames = 2
    MaxHandled = 4
    Threading = TRUE
PROPERTIES
    ClosedRemoved
CHECK_DEADLOCK FALSE
