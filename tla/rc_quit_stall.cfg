CONSTANTS
    Consumer = {}
    QueueSize = 1
    MaxEvents = 0
    Caller = {c1}
    KA = KA
    None = None
    Cancellable = {}
    Hazard = {"stall"}
    KeepaliveOn = TRUE
    FloodRetries = 0
    MaxCalls = 1
SPECIFICATION Spec
INVARIANT ConnectionReleased
CHECK_DEADLOCK FALSE
