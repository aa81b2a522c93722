CONSTANTS
    a = a
    game = game
    k1 = k1
    k2 = k2
    none = none
    w1 = w1
    Chars = {a}
    Incarnations = 2
    LastTable = 2
    Changes = {k1, k2}
    GameThread = game
    Workers = {w1}
    Staff = {}
    NoObject = none
    SaveAsync = FALSE
    MaxSaves = 1
    Offline = FALSE
    Market = TRUE
    MayDie = TRUE
    MayClose = TRUE
    MayFail = TRUE
    MayCrash = TRUE
SPECIFICATION Spec
INVARIANTS
    TornInOrder
PROPERTIES
    NeverRollsBack
CHECK_DEADLOCK FALSE
