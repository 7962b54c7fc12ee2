SPECIFICATION BootedSpec
CONSTANTS
    n1 = n1
    n2 = n2
    n3 = n3
    First = n1
    Node = {n1, n2, n3}
    Command = {}
    None = None
    MaxTerm = 2
    MaxRestarts = 0
    MaxInFlight = 1
    ElectionsOverlap = FALSE
    RpcMayFail = TRUE
SYMMETRY NodeSymmetry
INVARIANTS
    ElectionSafety
    LeaderHasMajority
    ElectionInv
    NotStuck
    LeaderIdWasElected
PROPERTIES
    VoteStable
CHECK_DEADLOCK FALSE
