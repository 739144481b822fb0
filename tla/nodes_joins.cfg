\* Every kind of join, failures that cascade, two control actions.
CONSTANTS
    a = a
    b = b
    c = c
    d = d
    e = e
    NoNode = NoNode
    Node <- Web
    Deps <- WebDeps
    Join <- WebJoin
    MinSuccess <- WebMin
    AllowFailed <- LastAllowed
    Context <- WebContext
    OnError = "fail"
    MaxRetries = 0
    MaxGen = 3
    MaxControls = 2
    MaxFaults = 0
SPECIFICATION Spec
CHECK_DEADLOCK FALSE
INVARIANTS
    JoinRespected
