SPECIFICATION Spec
CONSTANTS
    Psks = {right, wrong}
    ApPsk = right
    Anonces = {a1, a2}
    None = None
    MaxTries = 2
    MaxLost = 1
INVARIANTS
    TypeOK
    OpenMeansAgreed
    ConnectedMeansAgreed
    FramesReadBack
PROPERTY
    HandshakeCompletes
CHECK_DEADLOCK FALSE
