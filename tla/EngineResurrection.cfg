SPECIFICATION Spec
CONSTANTS
    k1 = k1
    v1 = v1
    Key = {k1}
    Value = {v1}
    TTL = {1}
    None = None
    SegmentChunks = 60
    NameDigits = 4
    TornTail = FALSE
    MaxOps = 2
    MaxTime = 3
    MaxCrashes = 1
    IoMayFail = FALSE
SYMMETRY Symmetry
INVARIANTS
    ExpiredStaysGone
CHECK_DEADLOCK FALSE
