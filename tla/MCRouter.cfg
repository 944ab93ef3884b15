SPECIFICATION Spec
CONSTANTS
    a = a
    b = b
    c = c
    Links <- MCLinks
    Transient <- MCTransient
    Ignore <- MCNone
    MayFail <- MCNone
    RetryDelay <- MCRetryDelay
    MaxRetries <- MCMaxRetries
    StartTimeout = TRUE
    ErrorTwice = TRUE
INVARIANTS
    NoAbort
    SummaryAgrees
    DriverMatchesState
    RetryArmed
    RetriesBounded
    FailureTold
PROPERTIES
    SignalMeansAllUp
