CONSTANTS
    t1 = t1
    t2 = t2
    k1 = k1
    k2 = k2
    k3 = k3
    none = none
    v1 = v1
    v2 = v2
    Threads = {t1, t2}
    Keys = {k1, k2, k3}
    Values = {v1, v2}
    NoValue = none
    MaxSize = 2
    Removable = {}
    Savers = {t1}
    Forced = {FALSE}
    MayCrash = FALSE
    KeysOf <- EachItsOwn
SPECIFICATION Spec
PROPERTIES
    OwnKeysStable
