SPECIFICATION Spec
CONSTANTS
    r1 = r1
    r2 = r2
    w1 = w1
    w2 = w2
    k1 = k1
    k2 = k2
    Nothing = Nothing
    Readers = {r1, r2}
    Writers = {w1, w2}
    Keys = {k1, k2}
    MaxVersion = 2
    MayLoseRedis = FALSE
    Undecorated = FALSE
INVARIANTS
    ClearedByChanges
