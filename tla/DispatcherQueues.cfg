SPECIFICATION Spec
CONSTANTS
    NumThreads = 3
    Main = 1
    Pool = {2}
    NumBeats = 0
    BeatDelay = 1
    MaxTasks = 3
    Delays = {}
    Cycles = {TRUE, FALSE}
    Expiries = {0, 1}
    Lags = {0, 1}
    Groups = {"Walk", "WalkParallel", "Serial", "GenericParallel"}
    SafeCallers = {1, 2}
    MayHalt = FALSE
INVARIANTS ExactlyOnePlace SerialExclusive OvertakingStaysInBatch
