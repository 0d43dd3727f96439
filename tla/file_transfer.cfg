CONSTANTS
    Payload <- MCPayload
    Key = 0
    HighWater = 1
    SockBuf = 4
    Hazard = {"reset", "short"}
    MaxCalls = 3
SPECIFICATION FairSpec
INVARIANTS
    FTTypeOK
    UploadComplete
    DownloadExact
    ChannelClosed
PROPERTY TransferReturns
CHECK_DEADLOCK FALSE
