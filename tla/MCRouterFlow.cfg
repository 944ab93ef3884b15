SPECIFICATION FairFlowSpec
CONSTANTS
    a = a
    b = b
    c = c
    Links <- MCTwo
    Transient <- MCNone
    Ignore <- MCNone
    MayFail <- MCNone
    RetryDelay <- MCRetryDelay
    MaxRetries <- MCMaxRetries
    StartTimeout = FALSE
    ErrorTwice = TRUE
    EarlyNext <- MCNone
    Unreliable <- MCTwo
    MaxPackets = 2
INVARIANT CanSend
PROPERTY EveryPacketRouted
