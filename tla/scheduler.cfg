\* Two schedulers, a backlog of three slots, a fault.
CONSTANTS
    s1 = s1
    s2 = s2
    Absent = Absent
    NoOne = NoOne
    Scheduler <- TwoSchedulers
    Version <- TwoVersions
    MaxCatchUp = 2
    MaxScan = 1
    CheckEvery = 1
    MaxTime = 3
    MaxFaults = 1
SPECIFICATION FairSpec
INVARIANTS
    TypeOK
    NoSlotSkipped
PROPERTIES
    SlotsInOrder
    DueIsServed
