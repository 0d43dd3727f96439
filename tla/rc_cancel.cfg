CONSTANTS
    Consumer = {}
    QueueSize = 1
    MaxEvents = 0
    Caller = {c1, c2}
    KA = KA
    None = None
    Cancellable = {c1}
    Hazard = {}
    KeepaliveOn = FALSE
    FloodRetries = 0
    MaxCalls = 1
SPECIFICATION Spec
INVARIANT ResponseMatches
CHECK_DEADLOCK FALSE
