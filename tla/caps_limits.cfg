\* One cap for the cluster and one for a queue, leases that lapse, a crash.
CONSTANTS
    t1 = t1
    t2 = t2
    t3 = t3
    t4 = t4
    w1 = w1
    w2 = w2
    qa = qa
    qb = qb
    NoWorker = NoWorker
    NoCap = NoCap
    Task <- FourTasks
    Worker <- TwoWorkers
    GlobalKey = 0
    QueueKey <- QueueKeys
    Queue <- TwoQueues
    QueueOf <- TwoAndTwo
    Serves <- ServeUneven
    QueueCap <- CapSecond
    ClusterCap = 2
    Processes = 2
    PrefetchBuffer = 0
    MaxClaims = 0
    MaxBatch = 0
    Leased = TRUE
    MaxLapses = 1
    MaxFaults = 1
SPECIFICATION Spec
SYMMETRY TaskPairs
INVARIANTS
    TypeOK
    CapsHeld
