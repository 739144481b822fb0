\* Two faults, a deadline, the default configuration: no lease and no prefetch buffer; one worker does not know the task.
CONSTANTS
    t1 = t1
    w1 = w1
    w2 = w2
    NoWorker = NoWorker
    Task <- OneTask
    Worker <- TwoWorkers
    MaxRetries = 1
    Deadlined <- OneTask
    Registered <- OneKnows
    CrashRetry <- OneTask
    Leased = FALSE
    Prefetch = FALSE
    MaxFaults = 2
SPECIFICATION Spec
INVARIANTS
    LatestRunSettles
    AttemptLedger
PROPERTIES
    ImplementsContract
