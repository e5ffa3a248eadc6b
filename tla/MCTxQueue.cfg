SPECIFICATION Spec
CONSTANTS
    TFD_QUEUE_SIZE = 4
    Buffers = {b1, b2, b3, b4}
    None = None
INVARIANTS
    TypeOK
    BuffersAliveUntilAck
    NoLeakedBuffer
    CursorsInOrder
    FreeSlotsExact
PROPERTY
    ImplementsFifo
