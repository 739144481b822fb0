\* A crash between the enqueue of a slot and the stored progress.
CONSTANTS
    s1 = s1
    s2 = s2
    Absent = Absent
    NoOne = NoOne
    Scheduler <- OneScheduler
    Version <- OneVersion
    MaxCatchUp = 2
    MaxScan = 2
    CheckEvery = 2
    MaxTime = 2
    MaxFaults = 1
SPECIFICATION Spec
INVARIANTS
    SlotRunsOnce
