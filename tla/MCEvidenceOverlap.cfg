SPECIFICATION FairSpec
CONSTANTS
    v1 = v1
    v2 = v2
    v3 = v3
    d1 = d1
    Followers = {v1, v2}
    Direct = {d1}
    Mortal = {v1}
    Batches = {2}
    Threshold = 2
    MaxKey = 3
    MaxLen = 4
    Overlap = TRUE
INVARIANTS
    PointersIncrease
CHECK_DEADLOCK FALSE
