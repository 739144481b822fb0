\* Two reapers over three flows: one whose progression fails, one whose
\* result is unreadable, one orphan.
CONSTANTS
    r1 = r1
    r2 = r2
    NoReaper = NoReaper
    Workflow <- Three
    Reaper <- TwoReapers
    Nodes <- KindsOfNodes
    Failing <- First1
    Unreadable <- Second
    Finalizing <- Second
    Limit = 2
    OutLimit = 2
    Bound = 1
    MaxFaults = 1
CHECK_DEADLOCK FALSE
SPECIFICATION FairSpec
INVARIANTS
    TypeOK
    OneFinalizer
    AppliedOnce
PROPERTIES
    PassesReachAll
