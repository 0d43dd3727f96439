CONSTANTS
    Consumer = {}
    QueueSize = 1
    MaxEvents = 0
    Caller = {c1}
    KA = KA
    None = None
    Cancellable = {c1}
    Hazard = {"drop", "half", "stall", "garbage"}
    KeepaliveOn = TRUE
    FloodRetries = 1
    MaxCalls = 1
SPECIFICATION FairSpec
PROPERTIES
    EveryCallReturns
    BackgroundEnds
CHECK_DEADLOCK FALSE
