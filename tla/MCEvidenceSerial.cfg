SPECIFICATION FairSpec
CONSTANTS
    v1 = v1
    v2 = v2
    v3 = v3
    d1 = d1
    Followers = {v1, v2, v3}
    Direct = {d1}
    Mortal = {v1, v2, d1}
    Batches = {1, 2}
    Threshold = 2
    MaxKey = 3
    MaxLen = 4
    Overlap = FALSE
INVARIANTS
    TypeOK
    Recoverable
PROPERTIES
    ClosedStaysClosed
    KeepsTheLog
    EveryRunEnds
CHECK_DEADLOCK FALSE
