SPECIFICATION Spec
CONSTANTS
    Psks = {right, wrong}
    ApPsk = right
    Anonces = {a1, a2}
    None = None
    MaxTries = 2
    MaxLost = 1
INVARIANT
    RsnRepeated
CHECK_DEADLOCK FALSE
