SPECIFICATION FairSpec
INVARIANT Indexed
PROPERTIES ReadLatest Answered
CHECK_DEADLOCK FALSE
CONSTANTS
    Addrs = {1, 2, 3}
    maxsize = 2
    W = 2
    MaxWrites = 3
    MaxReq = 2
    Bounds <- MCBounds
