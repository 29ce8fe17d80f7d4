SPECIFICATION Spec
CONSTANTS
    k1 = k1
    k2 = k2
    k3 = k3
    k4 = k4
    k5 = k5
    v1 = v1
    v2 = v2
    t1 = t1
    t2 = t2
    Keys = {k1, k2, k3, k4, k5}
    Values = {v1, v2}
    None = none
    Size = 2
    Hash <- TwoBuckets
    Nodes = {1, 2, 3, 4}
    Null = 0
    Threads = {t1, t2}
    Calls <- RacingCalls
INVARIANTS
    KeysUnique

