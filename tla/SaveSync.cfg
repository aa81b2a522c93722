CONSTANTS
    a = a
    b = b
    game = game
    k1 = k1
    k2 = k2
    none = none
    w1 = w1
    w2 = w2
    Chars = {a, b}
    Incarnations = 2
    LastTable = 2
    Changes = {k1, k2}
    GameThread = game
    Workers = {w1, w2}
    Staff = {b}
    NoObject = none
    SaveAsync = FALSE
    MaxSaves = 1
    Offline = TRUE
    Market = TRUE
    MayDie = FALSE
    MayClose = TRUE
    MayFail = FALSE
    MayCrash = FALSE
SPECIFICATION Spec
INVARIANTS
    SavedWhenAbsent
    NotTorn
CHECK_DEADLOCK FALSE
