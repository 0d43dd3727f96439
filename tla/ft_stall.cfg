CONSTANTS
    Payload <- MCPayload
    Key = 0
    HighWater = 1
    SockBuf = 1
    Hazard = {}
    MaxCalls = 1
SPECIFICATION FairSpec
PROPERTY TransferReturns
CHECK_DEADLOCK FALSE
