SPECIFICATION Spec
CONSTANTS
    k1 = k1
    v1 = v1
    v2 = v2
    Key = {k1}
    Value = {v1, v2}
    TTL = {}
    None = None
    SegmentChunks = 60
    NameDigits = 4
    TornTail = TRUE
    MaxOps = 3
    MaxTime = 0
    MaxCrashes = 1
    IoMayFail = FALSE
SYMMETRY Symmetry
INVARIANTS
    AckedIsRecovered
CHECK_DEADLOCK FALSE
