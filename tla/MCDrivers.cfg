CONSTANTS
    Links <- MCLinks
    RetryDelay <- MCNoRetry
    MaxRetries <- MCNoRetry
    max_retries = 1
    SerialCases <- MCSerialCases
    UsbCases <- MCUsbCases
    TpCases <- MCTpCases
    Uninit = {"idle"}
    MaxPacket = 2
    MaxInd = 2
    MaxFault = 1
    MaxStops = 2
SPECIFICATION Spec
INVARIANTS DriverSends DriverReceives DriverGoesOn
CHECK_DEADLOCK FALSE
