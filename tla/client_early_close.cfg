CONSTANTS
    RF = RF
    App = {}
    Setup <- MCSetup
    EventName = {"a", "b"}
    HandlerCount <- MCHandlerCount
    Capacity = 1
    InitialDelay = 1
    MaxDelay = 3
    BannedDelay = 7
    Usages <- MCEarly
    MaxFailures = 4
    MaxConns = 2
    MaxEvents = 1
SPECIFICATION Spec
INVARIANT ClosedMeansDisconnected
CHECK_DEADLOCK FALSE
