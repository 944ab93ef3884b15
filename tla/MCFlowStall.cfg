SPECIFICATION FairFlowSpec
CONSTANTS
    a = a
    b = b
    c = c
    Links <- MCTwo
    Transient <- MCNone
    Ignore <- MCNone
    MayFail <- MCNone
    RetryDelay <- MCRetryDelay
    MaxRetries <- MCMaxRetries
    StartTimeout = FALSE
    ErrorTwice = FALSE
    EarlyNext <- MCNone
    Unreliable <- MCA
    MaxPackets = 2
PROPERTY RoutedAfterRestart
