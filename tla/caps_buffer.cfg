\* Soft cap mode: the buffer, two queues with caps, a crash.
CONSTANTS
    t1 = t1
    t2 = t2
    t3 = t3
    t4 = t4
    w1 = w1
    w2 = w2
    qa = qa
    qb = qb
    NoWorker = NoWorker
    NoCap = NoCap
    Task <- ThreeTasks
    Worker <- TwoWorkers
    GlobalKey = 0
    QueueKey <- QueueKeys
    Queue <- TwoQueues
    QueueOf <- TwoAndOne
    Serves <- ServeAll
    QueueCap <- CapOneTwo
    ClusterCap = NoCap
    Processes = 1
    PrefetchBuffer = 1
    MaxClaims = 0
    MaxBatch = 0
    Leased = TRUE
    MaxLapses = 0
    MaxFaults = 1
SPECIFICATION FairSpec
INVARIANTS
    WorkerBudgetHeld
    NoLockCycle
PROPERTIES
    BacklogDrains
