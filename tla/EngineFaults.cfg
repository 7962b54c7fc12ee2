SPECIFICATION LiveSpec
CONSTANTS
    k1 = k1
    k2 = k2
    v1 = v1
    v2 = v2
    Key = {k1, k2}
    Value = {v1, v2}
    TTL = {1}
    None = None
    SegmentChunks = 6
    NameDigits = 4
    TornTail = FALSE
    MaxOps = 3
    MaxTime = 2
    MaxCrashes = 1
    IoMayFail = TRUE
INVARIANTS
    TypeOK
    AckedSurvive
    ReadsAreLastAck
    ExpiredUntilRestart
PROPERTIES
    ExpiredIsEvicted
CHECK_DEADLOCK FALSE
