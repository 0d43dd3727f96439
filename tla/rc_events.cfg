CONSTANTS
    Consumer = {w1}
    QueueSize = 1
    MaxEvents = 2
    Caller = {c1, c2}
    KA = KA
    None = None
    Cancellable = {}
    Hazard = {"drop", "half", "stall", "garbage"}
    KeepaliveOn = FALSE
    FloodRetries = 1
    MaxCalls = 1
SPECIFICATION Spec
INVARIANT ConnectionReleased
PROPERTIES
    EQSpec
    ClosedIsFinal
CHECK_DEADLOCK FALSE
