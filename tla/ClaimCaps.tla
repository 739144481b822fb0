----------------------------- MODULE ClaimCaps -----------------------------
(***************************************************************************)
(* The capacity limits of the queue: the claim pass of every worker (the   *)
(* buffered dispatch, the locks, counts and claim of horsies_claim, the    *)
(* dispatch of what was claimed), against executions that start and end,   *)
(* leases that lapse and are renewed, the reaper and crashes.              *)
(*                                                                         *)
(* The statements of a pass are separate steps: the counts are read before *)
(* the claim, under the advisory locks, and rows are dispatched after the  *)
(* locks are gone.  Every worker has one pass at a time.  Fences on        *)
(* claimed_at are represented by "live": the holder of a row's data is     *)
(* live until the row is claimed again.                                    *)
(***************************************************************************)
EXTENDS Naturals, FiniteSets

CONSTANTS
    Task,            \* plain tasks, all enqueued initially
    Worker, NoWorker,
    Queue,
    QueueOf,         \* QueueOf[t]: the queue of task t
    Serves,          \* Serves[w]: ordered_queues of worker w
    QueueCap,        \* QueueCap[q]: max_concurrency of q, NoCap without one
    ClusterCap,      \* cluster_wide_cap, or NoCap
    NoCap,
    QueueKey,        \* QueueKey[q]: advisory_key_queue(q)
    GlobalKey,       \* advisory_key_global
    Processes,       \* concurrency of every worker
    PrefetchBuffer,  \* prefetch_buffer, 0 in hard cap mode
    MaxClaims,       \* max_claim_per_worker, 0 when unset
    MaxBatch,        \* max_claim_batch, 0 when unset
    Leased,          \* claim_lease_ms is set
    MaxLapses,       \* bound on the leases that lapse under a live worker
    MaxFaults        \* bound on the other faults

Capped == {q \in Queue : QueueCap[q] # NoCap}

ASSUME CapsAssumption ==
    /\ IsFiniteSet(Task)
    /\ IsFiniteSet(Queue)
    /\ NoWorker \notin Worker
    /\ QueueOf \in [Task -> Queue]
    /\ Serves \in [Worker -> SUBSET Queue]
    /\ \A q \in Capped : QueueCap[q] \in Nat
    /\ ClusterCap # NoCap => ClusterCap \in Nat \ {0} /\ PrefetchBuffer = 0
    /\ QueueKey \in [Queue -> Nat]
    /\ GlobalKey \in Nat
    /\ Processes \in Nat \ {0}
    /\ PrefetchBuffer \in Nat
    /\ MaxClaims \in Nat
    /\ MaxBatch \in Nat
    /\ Leased \in BOOLEAN
    /\ PrefetchBuffer > 0 => Leased
    /\ MaxLapses \in Nat
    /\ MaxFaults \in Nat

VARIABLES
    row,         \* row[t]: status, owner and lease of the task
    pass,        \* pass[w]: where the claim pass of worker w is
    holds,       \* holds[w]: the advisory locks of its claim statement
    slot,        \* slot[w][i]: the execution that holds the i-th permit
    inDispatch,  \* inDispatch[w]: Worker::in_dispatch
    releasing,   \* claims handed to a spawned unclaim
    up,          \* the workers that run
    lapses, faults

vars == <<row, pass, holds, slot, inDispatch, releasing, up, lapses, faults>>

HardCap == PrefetchBuffer = 0

Keys == {QueueKey[q] : q \in Queue} \cup {GlobalKey}

Row == [status : {"PENDING", "CLAIMED", "RUNNING", "MOVED"},
        owner : Worker \cup {NoWorker}, lease : {"null", "held", "lapsed"}]

(* rows are the rows in the hands of the pass, buffered or freshly claimed, *)
(* stale those claimed again since; total and used are the budget and the  *)
(* queue counts read under the locks.                                      *)
Pass == [pc : {"idle", "gate", "lock", "take", "dispatch"},
         rows : SUBSET Task, stale : SUBSET Task,
         total : Nat, used : [Capped -> Nat]]

Execution == [t : Task, phase : {"start", "run"}, live : BOOLEAN, buffered : BOOLEAN]
Free == [phase |-> "free"]
Slots == 1 .. Processes

TypeOK ==
    /\ row \in [Task -> Row]
    /\ pass \in [Worker -> Pass]
    /\ holds \in [Worker -> SUBSET Keys]
    /\ slot \in [Worker -> [Slots -> Execution \cup {Free}]]
    /\ inDispatch \in [Worker -> SUBSET Task]
    /\ releasing \subseteq Task
    /\ up \subseteq Worker
    /\ lapses \in Nat
    /\ faults \in Nat

Resting == [pc |-> "idle", rows |-> {}, stale |-> {}, total |-> 0,
            used |-> [q \in Capped |-> 0]]

Init ==
    /\ row = [t \in Task |-> [status |-> "PENDING", owner |-> NoWorker, lease |-> "null"]]
    /\ pass = [w \in Worker |-> Resting]
    /\ holds = [w \in Worker |-> {}]
    /\ slot = [w \in Worker |-> [i \in Slots |-> Free]]
    /\ inDispatch = [w \in Worker |-> {}]
    /\ releasing = {}
    /\ up = Worker
    /\ lapses = 0
    /\ faults = 0

----------------------------------------------------------------------------
(* The counts.  A claim whose lease has lapsed takes no capacity.          *)

InFlight(t) ==
    \/ row[t].status = "RUNNING"
    \/ row[t].status = "CLAIMED" /\ row[t].lease # "lapsed"

InFlightOf(w) == {t \in Task : InFlight(t) /\ row[t].owner = w}
ClaimedBy(w) == {t \in InFlightOf(w) : row[t].status = "CLAIMED"}
RunningIn(q) == {t \in Task : QueueOf[t] = q /\ row[t].status = "RUNNING"}

\* Slip: a queue's claims are not counted in hard cap mode either.
RunningOccupancy(q) == Cardinality(RunningIn(q))

\* What counts against the cap of queue q.
Occupancy(q) ==
    IF HardCap THEN Cardinality({t \in Task : QueueOf[t] = q /\ InFlight(t)})
               ELSE Cardinality(RunningIn(q))

\* Slip: the buffered dispatch compares the cap with running and claimed.
GateOccupancyInFlight(q) == Cardinality({t \in Task : QueueOf[t] = q /\ InFlight(t)})

\* count_running_by_queue, for the buffered dispatch.
GateOccupancy(q) == Cardinality(RunningIn(q))

Left(limit, used) == IF used < limit THEN limit - used ELSE 0
Least(a, b) == IF a <= b THEN a ELSE b

\* Slip: the tasks a worker runs do not count against its concurrency.
ClaimedOnlyBudget(w) == Left(Processes + PrefetchBuffer, Cardinality(ClaimedBy(w)))

LocalAvailable(w) == Left(Processes + PrefetchBuffer, Cardinality(InFlightOf(w)))

MaxClaimed == IF MaxClaims > 0 THEN MaxClaims ELSE Processes + PrefetchBuffer

GlobalRemaining(n) ==
    IF ClusterCap = NoCap THEN n
    ELSE Least(n, Left(ClusterCap, Cardinality({t \in Task : InFlight(t)})))

Budget(w) ==
    GlobalRemaining(Least(LocalAvailable(w),
                          Left(MaxClaimed, Cardinality(ClaimedBy(w)))))

----------------------------------------------------------------------------
(* Executions and permits.                                                 *)

FreeSlots(w) == {i \in Slots : slot[w][i].phase = "free"}

\* Slip: the permit is returned with the finished execution left in it.
KeepSlot(w, i) ==
    /\ slot' = [slot EXCEPT ![w][i].phase = "free"]
    /\ inDispatch' = [inDispatch EXCEPT ![w] = @ \ {slot[w][i].t}]

End(w, i) ==
    /\ slot' = [slot EXCEPT ![w][i] = Free]
    /\ inDispatch' = [inDispatch EXCEPT ![w] = @ \ {slot[w][i].t}]

\* The rows D of the pass get a permit each.
Occupy(w, D, buffered) ==
    /\ \E f \in [D -> FreeSlots(w)] :
          /\ \A t, u \in D : f[t] = f[u] => t = u
          /\ slot' = [slot EXCEPT ![w] =
                [i \in Slots |->
                    IF \E t \in D : f[t] = i
                    THEN [t |-> CHOOSE t \in D : f[t] = i, phase |-> "start",
                          live |-> (CHOOSE t \in D : f[t] = i) \notin pass[w].stale,
                          buffered |-> buffered]
                    ELSE slot[w][i]]]
    /\ inDispatch' = [inDispatch EXCEPT ![w] = @ \cup D]

----------------------------------------------------------------------------
(* The claim pass of worker w: claim_and_dispatch_all.                     *)

Enter(w, pc, rows) == pass' = [pass EXCEPT ![w] = [Resting EXCEPT !.pc = pc, !.rows = rows]]

\* Soft cap mode with a free permit: the buffered claims are loaded first.
LoadBuffered(w) ==
    /\ w \in up
    /\ pass[w].pc = "idle"
    /\ ~HardCap
    /\ LET mine == {t \in Task : row[t].status = "CLAIMED" /\ row[t].owner = w}
       IN  \E S \in SUBSET mine :
              /\ Cardinality(S) = Least(Cardinality(mine), Cardinality(FreeSlots(w)))
              /\ Enter(w, IF S = {} THEN "lock" ELSE "gate", S)
    /\ UNCHANGED <<row, holds, slot, inDispatch, releasing, up, lapses, faults>>

\* A row of a capped queue is dispatched while the queue's running count, read
\* just before, and the rows of this loop stay below the cap.
GateAllows(w, D) ==
    /\ Cardinality(D) <= Cardinality(FreeSlots(w))
    /\ \A q \in Capped :
          LET mine == {t \in D : QueueOf[t] = q}
          IN  mine # {} => GateOccupancy(q) + Cardinality(mine) <= QueueCap[q]

DispatchBuffered(w) ==
    /\ pass[w].pc = "gate"
    /\ LET open == pass[w].rows \ inDispatch[w]
       IN  \E D \in SUBSET open :
              /\ GateAllows(w, D)
              /\ \A t \in open \ D : ~GateAllows(w, D \cup {t})
              /\ Occupy(w, D, TRUE)
    /\ Enter(w, "lock", {})
    /\ UNCHANGED <<row, holds, releasing, up, lapses, faults>>

\* Hard cap mode: no pass without a free permit.
StartPass(w) ==
    /\ w \in up
    /\ pass[w].pc = "idle"
    /\ HardCap
    /\ FreeSlots(w) # {}
    /\ Enter(w, "lock", {})
    /\ UNCHANGED <<row, holds, slot, inDispatch, releasing, up, lapses, faults>>

\* Slip: queue keys only, also under a cluster-wide cap.
QueueLockKeys(w) == {QueueKey[q] : q \in Serves[w] \cap Capped}

LockKeys(w) ==
    IF ClusterCap # NoCap THEN {GlobalKey}
    ELSE {QueueKey[q] : q \in Serves[w] \cap Capped}

Missing(w) == LockKeys(w) \ holds[w]

\* Slip: the keys are taken in any order.
AnyMissing(w) == Missing(w)

\* The keys are taken in ascending order.
NextKeys(w) == {k \in Missing(w) : \A j \in Missing(w) : k <= j}

Acquire(w) ==
    /\ pass[w].pc = "lock"
    /\ \E k \in NextKeys(w) :
          /\ \A v \in Worker : k \notin holds[v]
          /\ holds' = [holds EXCEPT ![w] = @ \cup {k}]
    /\ UNCHANGED <<row, pass, slot, inDispatch, releasing, up, lapses, faults>>

\* The counting statement, with every lock held.
Count(w) ==
    /\ pass[w].pc = "lock"
    /\ Missing(w) = {}
    /\ IF Budget(w) > 0
       THEN /\ pass' = [pass EXCEPT ![w] =
                          [Resting EXCEPT !.pc = "take", !.total = Budget(w),
                                          !.used = [q \in Capped |-> Occupancy(q)]]]
            /\ UNCHANGED holds
       ELSE Enter(w, "idle", {}) /\ holds' = [holds EXCEPT ![w] = {}]
    /\ UNCHANGED <<row, slot, inDispatch, releasing, up, lapses, faults>>

Claimable(t) ==
    \/ row[t].status = "PENDING"
    \/ row[t].status = "CLAIMED" /\ row[t].lease = "lapsed"

\* The limits of horsies_claim_candidates on a batch S.
Fits(w, S) ==
    /\ Cardinality(S) <= pass[w].total
    /\ \A q \in Queue :
          LET n == Cardinality({t \in S : QueueOf[t] = q})
          IN  /\ MaxBatch > 0 => n <= MaxBatch
              /\ q \in Capped => n <= Left(QueueCap[q], pass[w].used[q])

\* The claim, and the end of its transaction, which frees the locks.
Take(w) ==
    /\ pass[w].pc = "take"
    /\ LET open == {t \in Task : Claimable(t) /\ QueueOf[t] \in Serves[w]}
       IN  \E S \in SUBSET open :
              /\ Fits(w, S)
              /\ \A t \in open \ S : ~Fits(w, S \cup {t})
              /\ row' = [t \in Task |->
                           IF t \in S
                           THEN [status |-> "CLAIMED", owner |-> w,
                                 lease |-> IF Leased THEN "held" ELSE "null"]
                           ELSE row[t]]
              /\ pass' = [v \in Worker |->
                            IF v # w
                            THEN [pass[v] EXCEPT !.stale = @ \cup (pass[v].rows \cap S)]
                            ELSE IF S = {} THEN Resting
                            ELSE [Resting EXCEPT !.pc = "dispatch", !.rows = S]]
              /\ slot' = [v \in Worker |-> [i \in Slots |->
                            IF slot[v][i].phase # "free" /\ slot[v][i].t \in S
                            THEN [slot[v][i] EXCEPT !.live = FALSE] ELSE slot[v][i]]]
              /\ releasing' = releasing \ S
    /\ holds' = [holds EXCEPT ![w] = {}]
    /\ UNCHANGED <<inDispatch, up, lapses, faults>>

\* Without a permit a claimed row is released in hard cap mode, and stays in
\* the buffer in soft cap mode.
Dispatch(w) ==
    /\ pass[w].pc = "dispatch"
    /\ \E D \in SUBSET pass[w].rows :
          /\ Cardinality(D) = Least(Cardinality(pass[w].rows), Cardinality(FreeSlots(w)))
          /\ Occupy(w, D, FALSE)
          /\ releasing' = IF HardCap
                          THEN releasing \cup ((pass[w].rows \ D) \ pass[w].stale)
                          ELSE releasing
    /\ Enter(w, "idle", {})
    /\ UNCHANGED <<row, holds, up, lapses, faults>>

----------------------------------------------------------------------------
(* Executions.                                                             *)

Put(t, status) == row' = [row EXCEPT ![t] = [status |-> status, owner |-> NoWorker,
                                             lease |-> "null"]]

Owned(w, i, status) ==
    /\ slot[w][i].live
    /\ row[slot[w][i].t].status = status
    /\ row[slot[w][i].t].owner = w

Start(w, i) ==
    /\ slot[w][i].phase = "start"
    /\ IF Owned(w, i, "CLAIMED") /\ row[slot[w][i].t].lease # "lapsed"
       THEN /\ row' = [row EXCEPT ![slot[w][i].t].status = "RUNNING",
                                  ![slot[w][i].t].lease = "null"]
            /\ slot' = [slot EXCEPT ![w][i].phase = "run"]
            /\ UNCHANGED inDispatch
       ELSE End(w, i) /\ UNCHANGED row
    /\ UNCHANGED <<pass, holds, releasing, up, lapses, faults>>

Fault == faults < MaxFaults /\ faults' = faults + 1

\* The task is settled, or requeued for a retry.
Finish(w, i, retry) ==
    /\ slot[w][i].phase = "run"
    /\ IF Owned(w, i, "RUNNING")
       THEN Put(slot[w][i].t, IF retry THEN "PENDING" ELSE "MOVED")
       ELSE UNCHANGED row
    /\ End(w, i)
    /\ IF retry THEN Fault ELSE UNCHANGED faults
    /\ UNCHANGED <<pass, holds, releasing, up, lapses>>

\* The execution ends with its row left behind: its retries are exhausted.
Abandon(w, i) ==
    /\ slot[w][i].phase # "free"
    /\ End(w, i)
    /\ Fault
    /\ UNCHANGED <<row, pass, holds, releasing, up, lapses>>

Unclaim(t) ==
    /\ t \in releasing
    /\ releasing' = releasing \ {t}
    /\ IF row[t].status = "CLAIMED" THEN Put(t, "PENDING") ELSE UNCHANGED row
    /\ UNCHANGED <<pass, holds, slot, inDispatch, up, lapses, faults>>

----------------------------------------------------------------------------
(* Leases, the reaper, crashes.                                            *)

\* Counted while the owner lives; the claims of a dead worker just lapse.
LeaseLapses(t) ==
    /\ row[t].status = "CLAIMED"
    /\ row[t].lease = "held"
    /\ IF row[t].owner \in up THEN lapses < MaxLapses /\ lapses' = lapses + 1
                              ELSE UNCHANGED lapses
    /\ row' = [row EXCEPT ![t].lease = "lapsed"]
    /\ UNCHANGED <<pass, holds, slot, inDispatch, releasing, up, faults>>

\* The claimer heartbeat: every claim of the worker younger than the renewal
\* limit, also the claims that have lapsed.
RenewLease(w) ==
    /\ w \in up
    /\ Leased
    /\ \E S \in SUBSET {t \in Task : row[t].status = "CLAIMED" /\ row[t].owner = w} :
          /\ S # {}
          /\ row' = [t \in Task |-> IF t \in S THEN [row[t] EXCEPT !.lease = "held"]
                                               ELSE row[t]]
    /\ UNCHANGED <<pass, holds, slot, inDispatch, releasing, up, lapses, faults>>

LiveRun(t) ==
    \E w \in Worker, i \in Slots :
        slot[w][i].phase # "free" /\ slot[w][i].t = t /\ slot[w][i].live

RequeueStaleClaimed(t) ==
    /\ row[t].status = "CLAIMED"
    /\ row[t].lease # "held"
    /\ IF row[t].lease = "null" /\ LiveRun(t) THEN Fault ELSE UNCHANGED faults
    /\ Put(t, "PENDING")
    /\ UNCHANGED <<pass, holds, slot, inDispatch, releasing, up, lapses>>

\* A run without heartbeats is failed or given another try.
ReapStaleRunning(t) ==
    /\ row[t].status = "RUNNING"
    /\ IF LiveRun(t) THEN Fault ELSE UNCHANGED faults
    /\ \E status \in {"PENDING", "MOVED"} : Put(t, status)
    /\ UNCHANGED <<pass, holds, slot, inDispatch, releasing, up, lapses>>

\* The process dies: its permits, its pass and its transaction are gone.
Crash(w) ==
    /\ w \in up
    /\ up # {w}
    /\ Fault
    /\ up' = up \ {w}
    /\ pass' = [pass EXCEPT ![w] = Resting]
    /\ holds' = [holds EXCEPT ![w] = {}]
    /\ slot' = [slot EXCEPT ![w] = [i \in Slots |-> Free]]
    /\ inDispatch' = [inDispatch EXCEPT ![w] = {}]
    /\ releasing' = {t \in releasing : row[t].owner # w}
    /\ UNCHANGED <<row, lapses>>

----------------------------------------------------------------------------

PassStep(w) ==
    \/ LoadBuffered(w)
    \/ DispatchBuffered(w)
    \/ StartPass(w)
    \/ Acquire(w)
    \/ Count(w)
    \/ Take(w)
    \/ Dispatch(w)

Execute(w) == \E i \in Slots : Start(w, i) \/ Finish(w, i, FALSE)

Disturb(w) == \E i \in Slots : Finish(w, i, TRUE) \/ Abandon(w, i)

Next ==
    \/ \E w \in Worker : PassStep(w) \/ Execute(w) \/ Disturb(w) \/ RenewLease(w) \/ Crash(w)
    \/ \E t \in Task : \/ Unclaim(t)
                       \/ LeaseLapses(t)
                       \/ RequeueStaleClaimed(t)
                       \/ ReapStaleRunning(t)

Spec == Init /\ [][Next]_vars

(* Fairness: every worker that runs keeps passing, executions go on and    *)
(* end, spawned unclaims run, the reaper passes.  Waiters for an advisory  *)
(* lock are served in turn, so none waits for ever while others pass.      *)
Fairness ==
    /\ \A w \in Worker :
          /\ WF_vars(PassStep(w))
          /\ SF_vars(Acquire(w))
          /\ \A i \in Slots : WF_vars(Start(w, i) \/ Finish(w, i, FALSE))
    /\ \A t \in Task :
          /\ WF_vars(Unclaim(t))
          /\ WF_vars(LeaseLapses(t) /\ UNCHANGED lapses)
          /\ WF_vars(RequeueStaleClaimed(t) /\ UNCHANGED faults)
          /\ WF_vars(ReapStaleRunning(t) /\ UNCHANGED faults)

FairSpec == Spec /\ Fairness

----------------------------------------------------------------------------
(* Properties.                                                             *)

InFlightTasks == {t \in Task : InFlight(t)}

\* The cluster-wide cap bounds the running tasks and the claims that hold
\* their lease, although every worker counts first and claims later.  A lease
\* that lapses frees capacity, and its renewal takes that capacity back
\* unasked: the cap is exceeded by at most the number of lapses.
ClusterCapHeld == ClusterCap # NoCap => Cardinality(InFlightTasks) <= ClusterCap + lapses

\* So does max_concurrency for every capped queue, in hard cap mode, for
\* workers that serve different sets of queues.
QueueCapHeld ==
    HardCap => \A q \in Capped :
        Cardinality({t \in InFlightTasks : QueueOf[t] = q}) <= QueueCap[q] + lapses

\* Both bounds hold at once, whatever the interleaving of counting and taking
\* (horsies_claim_candidates under the advisory locks of the pass).
CapsHeld == ClusterCapHeld /\ QueueCapHeld

\* The rows a worker runs or claims fit its concurrency and its buffer, rows
\* abandoned by their executions included.
WorkerBudgetHeld ==
    \A w \in Worker : Cardinality(InFlightOf(w)) <= Processes + PrefetchBuffer + lapses

\* Of the claim passes that wait for advisory locks, one can always go on:
\* no set of workers waits for each other.
Blocked(w) == Missing(w) # {} /\ \A k \in NextKeys(w) : \E v \in Worker : k \in holds[v]
NoLockCycle ==
    LET passing == {w \in Worker : pass[w].pc \in {"lock", "take"}}
    IN  passing # {} => \E w \in passing : pass[w].pc = "take" \/ ~Blocked(w)

\* Every task leaves the queue: neither the buffered claims that wait for
\* their queue's cap, nor capacity taken by lost rows, stop the workers.
BacklogDrains == \A t \in Task : <>(row[t].status = "MOVED")

============================================================================
