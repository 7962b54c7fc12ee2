SPECIFICATION BootedSpec
CONSTANTS
    n1 = n1
    n2 = n2
    c1 = c1
    First = n1
    Node = {n1, n2}
    Command = {c1}
    None = None
    MaxTerm = 3
    MaxRestarts = 1
    MaxInFlight = 1
    ElectionsOverlap = TRUE
    RpcMayFail = TRUE
SYMMETRY NodeSymmetry
INVARIANTS
    NotStuck
    IndexBounds
PROPERTIES
    TermMonotone
CHECK_DEADLOCK FALSE
