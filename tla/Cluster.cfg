SPECIFICATION MCClusterSpec
CONSTANTS
    n1 = n1
    n2 = n2
    n3 = n3
    k1 = k1
    v1 = v1
    First = n1
    Node = {n1, n2, n3}
    Key = {k1}
    Value = {v1}
    Command <- ClusterCommands
    Order <- NodeOrder
    Route <- ToFollower
    None = None
    MaxTerm = 2
    MaxRestarts = 0
    MaxInFlight = 2
    MaxFlushes = 3
    MaxCallFailures = 1
    ElectionsOverlap = FALSE
    RpcMayFail = TRUE
INVARIANTS
    TypeOK
    IndexBounds
    CommittedOnMajority
    AppliedReachedCommit
    TakenOnce
    AnsweredIsTaken
    EngineFollowsLog
    WritesReachLeader
PROPERTIES
    AppliedOnce
CHECK_DEADLOCK FALSE
