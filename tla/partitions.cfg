\* Two workers, a task of a finite class that backs a workflow node and a
\* task that is kept for ever; a leaf expires on the last day.
CONSTANTS
    w1 = w1
    w2 = w2
    p = p
    q = q
    Worker <- TwoWorkers
    Row <- TwoRows
    Forever <- OnlyQ
    WithOutbox <- OnlyP
    MaxDay = 2
    Keep = 1
    Horizon = 1
    OpenFrom = 1
    MaxFaults = 1
CHECK_DEADLOCK FALSE
SPECIFICATION FairSpec
INVARIANTS
    TypeOK
    WantedRowsStay
    ReadersIntact
PROPERTIES
    ExpiredGo
