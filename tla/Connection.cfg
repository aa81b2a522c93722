CONSTANTS
    MaxPackets = 2
    MaxSent = 2
    InOrder = FALSE
    Punctual = FALSE
SPECIFICATION Spec
INVARIANTS BuffersOwned SealedInOrder
PROPERTIES SoftCloseFlushes SilentClientDropped SocketFreed ReleasedInTheEnd
CHECK_DEADLOCK FALSE
