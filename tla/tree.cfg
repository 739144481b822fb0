\* Three flows in a chain, the last one started after work.
CONSTANTS
    r = r
    m = m
    l = l
    NoFlow = NoFlow
    Flow <- Chain
    Parent <- ChainParent
    Late <- LastWaits
    Unknown <- LastWaits
    Target <- Chain
    MaxControls = 3
    MaxFaults = 1
CHECK_DEADLOCK FALSE
SPECIFICATION FairSpec
INVARIANTS
    TypeOK
    TreeAgrees
    CancelReachesChildren
PROPERTIES
    PauseCoversTree
    TreeEnds
