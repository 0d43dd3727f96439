CONSTANTS
    RF = RF
    App = {a1}
    Setup <- MCSetup
    EventName = {"a", "b"}
    HandlerCount <- MCHandlerCount
    Capacity = 1
    InitialDelay = 1
    MaxDelay = 3
    BannedDelay = 7
    Usages <- MCUsages
    MaxFailures = 4
    MaxConns = 2
    MaxEvents = 2
SPECIFICATION FairSpec
INVARIANTS
    ClientTypeOK
    NoOrphan
    Backoff
    HandlersInOrder
    SleepsOnlyWhenLost
    ReadyBeforeEvents
    ClosedStaysDisconnected
PROPERTIES
    CloseStopsLoop
    KeepsTrying
CHECK_DEADLOCK FALSE
