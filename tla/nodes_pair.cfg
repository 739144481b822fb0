\* Two nodes in a row, three control actions, a fault; a failure pauses.
CONSTANTS
    a = a
    b = b
    c = c
    d = d
    e = e
    NoNode = NoNode
    Node <- Pair
    Deps <- PairDeps
    Join <- PairJoin
    MinSuccess <- PairMin
    AllowFailed <- NoneAllowed
    Context <- NoContext
    OnError = "pause"
    MaxRetries = 1
    MaxGen = 3
    MaxControls = 3
    MaxFaults = 1
SPECIFICATION FairSpec
CHECK_DEADLOCK FALSE
INVARIANTS
    TypeOK
    LiveTaskLinked
    OneOutcomePerNode
    NodeNeverStranded
PROPERTIES
    ImplementsWorkflow
    WorkflowsSettle
