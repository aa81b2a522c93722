CONSTANTS
    MaxPackets = 1
    MaxSent = 1
    InOrder = TRUE
    Punctual = TRUE
SPECIFICATION Spec
INVARIANT NoGhost
CHECK_DEADLOCK FALSE
