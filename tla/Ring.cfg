SPECIFICATION Spec
CONSTANTS
    n1 = n1
    n2 = n2
    n3 = n3
    Node = {n1, n2, n3}
    RingSize = 6
    Vnodes = 2
    None = None
    KeyError = KeyError
    MaxListed = 2
SYMMETRY Symmetry
INVARIANTS
    RoutesToMembers
    LookupIsOwner
PROPERTIES
    MinimalMovement
CHECK_DEADLOCK FALSE
