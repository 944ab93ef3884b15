SPECIFICATION FifoSpec
CONSTANTS
    Queue = TRUE
    Pace = TRUE
    EarlyNext = FALSE
    MaxPackets = 3
    MaxIncoming = 2
    Sizes <- MCSizes
    Room = 5
    Recvbuf = 8
    SplitHeader = FALSE
    Garbage = {0, 3}
INVARIANT OneAtATime
PROPERTIES EachIsFifo NothingStays
CHECK_DEADLOCK FALSE
