SPECIFICATION Spec
CONSTANTS
    RXQ_SIZE = 3
    MaxFrames = 7
    MaxReads = 8
INVARIANTS
    TypeOK
    FirstLapInOrder
    DeliveredFromItsSlot
    HeldUntouchedInFirstLap
PROPERTY
    EveryFrameDelivered
CHECK_DEADLOCK FALSE
