CONSTANTS
    a = a
    game = game
    k1 = k1
    k2 = k2
    none = none
    w1 = w1
    w2 = w2
    w3 = w3
    Chars = {a}
    Incarnations = 1
    LastTable = 2
    Changes = {k1, k2}
    GameThread = game
    Workers = {w1, w2, w3}
    Staff = {}
    NoObject = none
    SaveAsync = TRUE
    MaxSaves = 2
    Offline = FALSE
    Market = FALSE
    MayDie = TRUE
    MayClose = FALSE
    MayFail = FALSE
    MayCrash = FALSE
SPECIFICATION LiveSpec
INVARIANTS
    RequestCovered
PROPERTIES
    RequestIsSaved
    SavesComplete
CHECK_DEADLOCK FALSE
