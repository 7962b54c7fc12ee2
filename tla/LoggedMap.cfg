SPECIFICATION CSpec
CONSTANTS
    k1 = k1
    k2 = k2
    v1 = v1
    v2 = v2
    t1 = t1
    t2 = t2
    Key = {k1, k2}
    Value = {v1, v2}
    TTL = {1}
    None = None
    MaxOps = 3
    Thread = {t1, t2}
    Capacity = 1
SYMMETRY Symmetry
INVARIANTS
    MemoryIsLog
    CoherentUnlessRaced
PROPERTIES
    ImplementsDurableMap
CHECK_DEADLOCK FALSE
