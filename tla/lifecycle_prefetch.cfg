\* Leases, the prefetch buffer, a deadline, one fault.
CONSTANTS
    t1 = t1
    w1 = w1
    w2 = w2
    NoWorker = NoWorker
    Task <- OneTask
    Worker <- TwoWorkers
    MaxRetries = 1
    Deadlined <- OneTask
    Registered <- BothKnow
    CrashRetry <- OneTask
    Leased = TRUE
    Prefetch = TRUE
    MaxFaults = 1
SPECIFICATION FairSpec
INVARIANTS
    TypeOK
    OneRunPerClaim
    LostRetryCannotFail
PROPERTIES
    SupersededOnlyExpires
    EventuallySettled
