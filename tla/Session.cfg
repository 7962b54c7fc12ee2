SPECIFICATION LiveSpec
CONSTANTS
    k1 = k1
    v1 = v1
    c1 = c1
    c2 = c2
    Client = {c1, c2}
    Key = {k1}
    Value = {v1}
    None = None
    Script <- Scripts
    MaxTimeouts = 1
INVARIANTS
    ExecutedAsSent
    AnswersMatch
PROPERTIES
    Linearizable
    CommandIsServed
CHECK_DEADLOCK FALSE
