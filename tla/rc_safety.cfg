CONSTANTS
    Consumer = {}
    QueueSize = 1
    MaxEvents = 0
    Caller = {c1, c2}
    KA = KA
    None = None
    Cancellable = {}
    Hazard = {"drop", "half", "stall", "garbage"}
    KeepaliveOn = TRUE
    FloodRetries = 1
    MaxCalls = 1
SYMMETRY Callers
SPECIFICATION Spec
INVARIANTS
    RCTypeOK
    LockInv
    OneInFlight
    ResponseMatches
    AwaitedFutureServed
CHECK_DEADLOCK FALSE
