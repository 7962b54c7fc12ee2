SPECIFICATION Spec
CONSTANTS
    k1 = k1
    k2 = k2
    v1 = v1
    v2 = v2
    Key = {k1, k2}
    Value = {v1, v2}
    TTL = {}
    None = None
    SegmentChunks = 4
    NameDigits = 4
    TornTail = FALSE
    MaxOps = 4
    MaxTime = 0
    MaxCrashes = 2
    IoMayFail = FALSE
SYMMETRY Symmetry
PROPERTIES
    ImplementsLoggedMap
CHECK_DEADLOCK FALSE
