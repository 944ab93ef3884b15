SPECIFICATION FairSpec
CONSTANTS
    a = a
    b = b
    c = c
    Links <- MCLinks
    Transient <- MCTransient
    Ignore <- MCNone
    MayFail <- MCOne
    RetryDelay <- MCAllRetry
    MaxRetries <- MCMaxRetries
    StartTimeout = TRUE
    ErrorTwice = FALSE
INVARIANT ExitClean
PROPERTY StopCompletes
