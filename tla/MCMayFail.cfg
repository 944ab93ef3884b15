SPECIFICATION Spec
CONSTANTS
    a = a
    b = b
    c = c
    Links <- MCTwo
    Transient <- MCNone
    Ignore <- MCNone
    MayFail <- MCTwo
    RetryDelay <- MCRetryDelay
    MaxRetries <- MCMaxRetries
    StartTimeout = FALSE
    ErrorTwice = FALSE
INVARIANT GoesOnAnyway
