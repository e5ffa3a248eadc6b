SPECIFICATION Spec
CONSTANTS
    RXQ_SIZE = 3
    MaxFrames = 7
    MaxReads = 8
INVARIANT
    OnlyNewFrames
CHECK_DEADLOCK FALSE
