SPECIFICATION LeaderSpec
CONSTANTS
    n1 = n1
    n2 = n2
    n3 = n3
    c1 = c1
    c2 = c2
    First = n1
    Node = {n1, n2, n3}
    Command = {c1, c2}
    None = None
    MaxTerm = 1
    MaxRestarts = 0
    MaxInFlight = 2
    ElectionsOverlap = FALSE
    RpcMayFail = FALSE
SYMMETRY LeaderCmdSymmetry
INVARIANTS
    StateMachineSafety
CHECK_DEADLOCK FALSE
