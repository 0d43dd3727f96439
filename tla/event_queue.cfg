CONSTANTS
    Consumer = {w1, w2, w3}
    QueueSize = 2
    MaxEvents = 5
SPECIFICATION EQFairSpec
INVARIANTS
    EQTypeOK
    QueueInv
    NoStrandedConsumer
PROPERTIES
    ImplementsStream
    ConsumersReleased
