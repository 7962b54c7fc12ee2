SPECIFICATION ProgressSpec
CONSTANTS
    n1 = n1
    n2 = n2
    n3 = n3
    k1 = k1
    v1 = v1
    First = n1
    Node = {n1, n2, n3}
    Key = {k1}
    Value = {v1}
    Command <- Commands
    None = None
    MaxTerm = 2
    MaxRestarts = 0
    MaxInFlight = 1
    MaxFlushes = 0
    ElectionsOverlap = FALSE
    RpcMayFail = TRUE
PROPERTIES
    ElectionEnds
    StaleLeaderDeposed
    LeaderIsLearned
    AnsweredIsApplied
CHECK_DEADLOCK FALSE
