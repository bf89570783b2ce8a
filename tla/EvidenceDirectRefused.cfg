SPECIFICATION Spec
CONSTANTS
    v1 = v1
    v2 = v2
    v3 = v3
    d1 = d1
    Followers = {v1, v2, v3}
    Direct = {d1}
    Mortal = {}
    Batches = {1, 2}
    Threshold = 2
    MaxKey = 3
    MaxLen = 4
    Overlap = FALSE
INVARIANT
    EveryRunAppends
CHECK_DEADLOCK FALSE
