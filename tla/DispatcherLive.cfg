SPECIFICATION FairSpec
CONSTANTS
    NumThreads = 3
    Main = 1
    Pool = {2}
    NumBeats = 1
    BeatDelay = 1
    MaxTasks = 3
    Delays = {1}
    Cycles = {TRUE, FALSE}
    Expiries = {0}
    Lags = {0, 1}
    Groups = {"Serial", "GenericParallel"}
    SafeCallers = {}
    MayHalt = TRUE
INVARIANTS RefAccurate
PROPERTIES StopIsFinal EventuallyHandled ShutdownCompletes
CHECK_DEADLOCK FALSE
