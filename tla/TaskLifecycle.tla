--------------------------- MODULE TaskLifecycle ---------------------------
(***************************************************************************)
(* The life of plain tasks in the horsies_tasks table, from PENDING to     *)
(* their archival in the history, as several worker processes, their       *)
(* reaper loops and an operator change them.                               *)
(*                                                                         *)
(* Every database statement (or transaction) is one atomic step; between   *)
(* two of them a worker holds only the snapshot its dispatch was born      *)
(* from, while leases lapse, rows are re-claimed, workers crash and        *)
(* replies are lost.  The module follows one row of a claim batch: the     *)
(* batch budget is the subject of module ClaimCaps.                        *)
(*                                                                         *)
(* Time is not a number here.  The passing of a deadline, of a lease, of   *)
(* a retry delay and of the staleness thresholds are steps of their own.   *)
(* claimed_at and started_at are represented by the ordinal of the claim   *)
(* that wrote them, with 0 for NULL.                                       *)
(***************************************************************************)
EXTENDS Naturals, FiniteSets

CONSTANTS
    Task,        \* plain tasks, all enqueued initially
    Worker,      \* worker processes; a restarted process is another element
    NoWorker,    \* claimed_by_worker_id IS NULL
    MaxRetries,  \* max_retries of every task
    Deadlined,   \* the tasks with a good_until
    Registered,  \* <<w, t>>: worker w has the function of t in its registry
    CrashRetry,  \* the tasks whose auto_retry_for lists WORKER_CRASHED
    Leased,      \* claim_lease_ms is set
    Prefetch,    \* prefetch_buffer > 0
    MaxFaults    \* bound on the faults of one behaviour

ASSUME LifecycleAssumption ==
    /\ NoWorker \notin Worker
    /\ Deadlined \subseteq Task
    /\ Registered \subseteq Worker \X Task
    /\ CrashRetry \subseteq Task
    /\ Leased \in BOOLEAN
    /\ Prefetch \in BOOLEAN
    /\ Prefetch => Leased
    /\ MaxRetries \in Nat
    /\ MaxFaults \in Nat

VARIABLES
    row,         \* row[t]: the task's columns; status MOVED once archived
    past,        \* past[t]: good_until <= now()
    gen,         \* gen[t]: claims of t so far (the clock of claimed_at)
    attempts,    \* attempts[t][n]: the attempt row n, by its will_retry
    history,     \* history[t]: kind and result of the archived task
    starts,      \* starts[t]: how often user code of t was started
    disp,        \* the dispatches in flight in the worker processes
    inDispatch,  \* inDispatch[w]: Worker::in_dispatch
    state,       \* state[w]: up, draining (shutdown requested) or down
    faults       \* faults spent

vars == <<row, past, gen, attempts, history, starts, disp, inDispatch, state, faults>>

Statuses == {"PENDING", "CLAIMED", "RUNNING", "MOVED"}
RunKinds == {"COMPLETE_FUSED", "FAIL_RUNNING"}
Kinds == RunKinds \cup {"FAIL_STALE", "EXPIRE_CLAIMED", "EXPIRE_PENDING", "CANCEL_ADMIN"}

Row == [status : Statuses, worker : Worker \cup {NoWorker}, claimedAt : Nat,
        startedAt : Nat, lease : {"null", "held", "lapsed"}, old : BOOLEAN,
        retry : 0 .. MaxRetries, due : BOOLEAN,
        finalizing : {"none", "fresh", "stale"}, beat : {"fresh", "stale"}]

(* A dispatch is a spawned execution: the claimed row it was given (its    *)
(* worker, task and claim ordinal g; n tells apart two dispatches of one   *)
(* claim), the retry_count that set_running returned, the class of the     *)
(* result, and whether a requeue committed without the worker hearing it.  *)
Dispatch == [w : Worker, t : Task, g : Nat, n : {1, 2},
             pc : {"dispatched", "prestart", "unclaim", "running", "stamping",
                   "persist", "failing"},
             rc : Nat, res : {"none", "ok", "fail", "retriable"},
             unheard : BOOLEAN]

Verdict == [kind : Kinds \cup {"LIVE"}, result : Nat]

TypeOK ==
    /\ row \in [Task -> Row]
    /\ past \in [Task -> BOOLEAN]
    /\ gen \in [Task -> Nat]
    /\ attempts \in [Task -> [1 .. MaxRetries + 1 -> {"none", "retried", "final"}]]
    /\ history \in [Task -> Verdict]
    /\ starts \in [Task -> Nat]
    /\ disp \subseteq Dispatch
    /\ inDispatch \in [Worker -> SUBSET Task]
    /\ state \in [Worker -> {"up", "draining", "down"}]
    /\ faults \in Nat

Init ==
    /\ row = [t \in Task |->
                [status |-> "PENDING", worker |-> NoWorker, claimedAt |-> 0,
                 startedAt |-> 0, lease |-> "null", old |-> FALSE, retry |-> 0,
                 due |-> TRUE, finalizing |-> "none", beat |-> "fresh"]]
    /\ past = [t \in Task |-> FALSE]
    /\ gen = [t \in Task |-> 0]
    /\ attempts = [t \in Task |-> [n \in 1 .. MaxRetries + 1 |-> "none"]]
    /\ history = [t \in Task |-> [kind |-> "LIVE", result |-> 0]]
    /\ starts = [t \in Task |-> 0]
    /\ disp = {}
    /\ inDispatch = [w \in Worker |-> {}]
    /\ state = [w \in Worker |-> "up"]
    /\ faults = 0

----------------------------------------------------------------------------
(* The fences of the SQL statements, as state predicates on a dispatch.    *)

\* Slips: the claim fence without claimed_at, and without the status.
OwnsClaimByWorker(d) == row[d.t].status = "CLAIMED" /\ row[d.t].worker = d.w
OwnsClaimStarted(d) ==
    /\ row[d.t].status \in {"CLAIMED", "RUNNING"}
    /\ row[d.t].worker = d.w
    /\ row[d.t].claimedAt = d.g

\* The row is still the claim this dispatch was born from.
OwnsClaim(d) ==
    /\ row[d.t].status = "CLAIMED"
    /\ row[d.t].worker = d.w
    /\ row[d.t].claimedAt = d.g

\* Slip: the fence of the terminal writes without claimed_at.
OwnsRunByWorker(d) == row[d.t].status = "RUNNING" /\ row[d.t].worker = d.w

\* The row is the run of that claim: the fence of every terminal write.
OwnsRun(d) ==
    /\ row[d.t].status = "RUNNING"
    /\ row[d.t].worker = d.w
    /\ row[d.t].claimedAt = d.g

\* The fence of the retry: the run is recognised by its started_at.
OwnsStart(d) ==
    /\ row[d.t].status = "RUNNING"
    /\ row[d.t].worker = d.w
    /\ row[d.t].startedAt = d.g

\* Slip: a row once stamped is never judged stale.
StaleUnstampedRun(t) ==
    /\ row[t].status = "RUNNING"
    /\ row[t].finalizing = "none"
    /\ row[t].beat = "stale"

\* No runner heartbeat and no finalizing stamp within their thresholds.
StaleRun(t) ==
    /\ row[t].status = "RUNNING"
    /\ row[t].finalizing # "fresh"
    /\ row[t].beat = "stale"

----------------------------------------------------------------------------
(* Effects shared by several steps.                                        *)

Released(r) == [r EXCEPT !.status = "PENDING", !.worker = NoWorker,
                         !.claimedAt = 0, !.lease = "null", !.old = FALSE]

\* Slip: the requeue forgets to count the retry.
RescheduledUncounted(r) == [r EXCEPT !.status = "PENDING", !.due = FALSE,
                                     !.finalizing = "none", !.beat = "fresh"]

\* retry_count + 1, to be claimed again once next_retry_at is reached; beat
\* speaks of RUNNING rows only, a new run starts with a beat of its own.
Rescheduled(r) == [r EXCEPT !.status = "PENDING", !.retry = @ + 1, !.due = FALSE,
                            !.finalizing = "none", !.beat = "fresh"]

\* The move to history: the live row goes, its claim, start and retry columns
\* are archived.
Move(t, kind, result) ==
    /\ row' = [row EXCEPT ![t] =
                 [@ EXCEPT !.status = "MOVED", !.lease = "null", !.old = FALSE,
                           !.due = TRUE, !.finalizing = "none", !.beat = "fresh"]]
    /\ history' = [history EXCEPT ![t] = [kind |-> kind, result |-> result]]

\* The attempt row of the current run, written before the row changes.
SetAttempt(t, n, what) == attempts' = [attempts EXCEPT ![t][n] = what]

Fault == faults < MaxFaults /\ faults' = faults + 1

\* The spawned execution ends.  in_dispatch is read in prefetch mode only.
End(d) ==
    /\ disp' = disp \ {d}
    /\ inDispatch' = IF Prefetch THEN [inDispatch EXCEPT ![d.w] = @ \ {d.t}]
                                 ELSE inDispatch

Goto(d, e) == disp' = (disp \ {d}) \cup {e} /\ UNCHANGED inDispatch

----------------------------------------------------------------------------
(* Claiming and dispatching.                                               *)

Claimable(t) ==
    /\ \/ row[t].status = "PENDING"
       \/ row[t].status = "CLAIMED" /\ row[t].lease = "lapsed"
    /\ row[t].due
    /\ ~past[t]

Spawn(w, t, g, pc) ==
    LET taken == {d.n : d \in {e \in disp : e.t = t /\ e.g = g}}
    IN  \E n \in {1, 2} \ taken :
        /\ n = 1 \/ 1 \in taken
        /\ disp' = disp \cup {[w |-> w, t |-> t, g |-> g, n |-> n, pc |-> pc,
                               rc |-> 0, res |-> "none", unheard |-> FALSE]}
        /\ inDispatch' = IF Prefetch /\ <<w, t>> \in Registered
                         THEN [inDispatch EXCEPT ![w] = @ \cup {t}]
                         ELSE inDispatch

\* horsies_claim takes the row, then dispatch_task finds a permit ("run"),
\* finds none ("full"), or the reply of the claim never arrives ("lost").
\* Without a permit the row stays CLAIMED in prefetch mode, and is released
\* by an execution of its own otherwise.
Claim(w, t, then) ==
    /\ state[w] = "up"
    /\ Claimable(t)
    /\ gen' = [gen EXCEPT ![t] = @ + 1]
    /\ row' = [row EXCEPT ![t] =
                 [@ EXCEPT !.status = "CLAIMED", !.worker = w,
                           !.claimedAt = gen[t] + 1, !.old = FALSE,
                           !.lease = IF Leased THEN "held" ELSE "null",
                           !.finalizing = "none"]]
    /\ \/ then = "run" /\ Spawn(w, t, gen[t] + 1, "dispatched") /\ UNCHANGED faults
       \/ then = "full" /\ ~Prefetch /\ Spawn(w, t, gen[t] + 1, "unclaim") /\ Fault
       \/ then = "full" /\ Prefetch /\ UNCHANGED <<disp, inDispatch>> /\ Fault
       \/ then = "lost" /\ UNCHANGED <<disp, inDispatch>> /\ Fault
    /\ UNCHANGED <<past, attempts, history, starts, state>>

\* Prefetch mode: a CLAIMED row of this worker found in the table again,
\* whether or not its lease still holds.
DispatchBuffered(w, t) ==
    /\ state[w] = "up"
    /\ Prefetch
    /\ row[t].status = "CLAIMED"
    /\ row[t].worker = w
    /\ t \notin inDispatch[w]
    /\ Spawn(w, t, row[t].claimedAt, "dispatched")
    /\ UNCHANGED <<row, past, gen, attempts, history, starts, state, faults>>

----------------------------------------------------------------------------
(* One dispatch: ownership confirmation, user code, finalization.          *)

CanStart(d) ==
    /\ OwnsClaim(d)
    /\ row[d.t].lease # "lapsed"
    /\ ~past[d.t]

\* set_running applies; when its reply is lost the worker tries to unclaim.
SetRunning(d, heard) ==
    /\ d.pc = "dispatched"
    /\ CanStart(d)
    /\ row' = [row EXCEPT ![d.t] =
                 [@ EXCEPT !.status = "RUNNING", !.startedAt = d.g,
                           !.lease = "null", !.old = FALSE, !.beat = "fresh"]]
    /\ \/ /\ heard
          /\ Goto(d, [d EXCEPT !.pc = "running", !.rc = row[d.t].retry])
          /\ starts' = [starts EXCEPT ![d.t] = @ + 1]
          /\ UNCHANGED faults
       \/ /\ ~heard
          /\ Goto(d, [d EXCEPT !.pc = "unclaim"])
          /\ Fault
          /\ UNCHANGED starts
    /\ UNCHANGED <<past, gen, attempts, history, state>>

\* set_running matches no row, or fails without an effect.
NotStarted(d, error) ==
    /\ d.pc = "dispatched"
    /\ \/ ~error /\ ~CanStart(d) /\ Goto(d, [d EXCEPT !.pc = "prestart"])
                 /\ UNCHANGED faults
       \/ error /\ Goto(d, [d EXCEPT !.pc = "unclaim"]) /\ Fault
    /\ UNCHANGED <<row, past, gen, attempts, history, starts, state>>

\* The pre-start expiry is fenced on the worker, not on the claim.
ExpireBeforeStart(d, applied) ==
    /\ d.pc = "prestart"
    /\ \/ applied /\ UNCHANGED faults
       \/ ~applied /\ Fault
    /\ IF applied /\ row[d.t].status = "CLAIMED" /\ row[d.t].worker = d.w /\ past[d.t]
       THEN Move(d.t, "EXPIRE_CLAIMED", 0)
       ELSE UNCHANGED <<row, history>>
    /\ End(d)
    /\ UNCHANGED <<past, gen, attempts, starts, state>>

Unclaim(d, applied) ==
    /\ d.pc = "unclaim"
    /\ \/ applied /\ UNCHANGED faults
       \/ ~applied /\ Fault
    /\ row' = IF applied /\ OwnsClaim(d)
              THEN [row EXCEPT ![d.t] = Released(@)] ELSE row
    /\ End(d)
    /\ UNCHANGED <<past, gen, attempts, history, starts, state>>

\* User code ends, panics or times out.  A task its worker does not know
\* fails at once, without a heartbeat and without the finalizing stamp.
Finish(d) ==
    /\ d.pc = "running"
    /\ \E r \in {"ok", "fail", "retriable"} :
          /\ r = "ok" => <<d.w, d.t>> \in Registered
          /\ Goto(d, [d EXCEPT !.res = r,
                               !.pc = IF <<d.w, d.t>> \in Registered THEN "stamping"
                                                                      ELSE "persist"])
    /\ UNCHANGED <<row, past, gen, attempts, history, starts, state, faults>>

Stamp(d, applied) ==
    /\ d.pc = "stamping"
    /\ \/ applied /\ UNCHANGED faults
       \/ ~applied /\ Fault
    /\ row' = IF applied /\ OwnsRun(d)
              THEN [row EXCEPT ![d.t].finalizing = "fresh"] ELSE row
    /\ Goto(d, [d EXCEPT !.pc = "persist"])
    /\ UNCHANGED <<past, gen, attempts, history, starts, state>>

\* A transaction committed: the worker hears it and ends, or goes on as e.
Answer(d, e, heard) ==
    \/ heard /\ End(d) /\ UNCHANGED faults
    \/ ~heard /\ Goto(d, e) /\ Fault

Complete(d, heard) ==
    /\ d.pc = "persist"
    /\ d.res = "ok"
    /\ OwnsRun(d)
    /\ SetAttempt(d.t, row[d.t].retry + 1, "final")
    /\ Move(d.t, "COMPLETE_FUSED", d.g)
    /\ Answer(d, d, heard)
    /\ UNCHANGED <<past, gen, starts, state>>

WantsRetry(d) ==
    /\ d.res = "retriable"
    /\ d.rc < MaxRetries
    /\ ~past[d.t]

\* Requeue and attempt in one transaction; the claim columns stay behind.
\* A repeat after a lost reply finds no RUNNING row and falls through.
Requeue(d, heard) ==
    /\ d.pc = "persist"
    /\ WantsRetry(d)
    /\ OwnsStart(d)
    /\ row' = [row EXCEPT ![d.t] = Rescheduled(@)]
    /\ SetAttempt(d.t, d.rc + 1, "retried")
    /\ Answer(d, [d EXCEPT !.unheard = TRUE], heard)
    /\ UNCHANGED <<past, gen, history, starts, state>>

\* No retry: not wanted, the row is lost, or the delay outlasts good_until.
FallThrough(d) ==
    /\ d.pc = "persist"
    /\ d.res # "ok"
    /\ WantsRetry(d) => ~OwnsStart(d) \/ d.t \in Deadlined
    /\ Goto(d, [d EXCEPT !.pc = "failing"])
    /\ UNCHANGED <<row, past, gen, attempts, history, starts, state, faults>>

FailLocked(d, heard) ==
    /\ d.pc = "failing"
    /\ OwnsRun(d)
    /\ SetAttempt(d.t, row[d.t].retry + 1, "final")
    /\ Move(d.t, "FAIL_RUNNING", d.g)
    /\ Answer(d, d, heard)
    /\ UNCHANGED <<past, gen, starts, state>>

\* The fenced read matches nothing: no error is retryable, the row is left.
FinalizeMiss(d) ==
    /\ d.pc = "failing" \/ (d.pc = "persist" /\ d.res = "ok")
    /\ ~OwnsRun(d)
    /\ End(d)
    /\ UNCHANGED <<row, past, gen, attempts, history, starts, state, faults>>

\* A finalizing transaction fails: phase 1 is tried again from its start, a
\* failed requeue turns into a failure, or the retries are exhausted and the
\* row is left to the reaper.
PhaseError(d) ==
    /\ d.pc \in {"persist", "failing"}
    /\ Fault
    /\ \/ d.pc = "failing" /\ Goto(d, [d EXCEPT !.pc = "persist"])
       \/ d.pc = "persist" /\ WantsRetry(d) /\ Goto(d, [d EXCEPT !.pc = "failing"])
       \/ End(d)
    /\ UNCHANGED <<row, past, gen, attempts, history, starts, state>>

\* The heartbeat row names the task, not the claim.
RunnerBeat(d) ==
    /\ d.pc = "running"
    /\ <<d.w, d.t>> \in Registered
    /\ row[d.t].status = "RUNNING"
    /\ row' = [row EXCEPT ![d.t].beat = "fresh"]
    /\ UNCHANGED <<past, gen, attempts, history, starts, disp, inDispatch, state, faults>>

----------------------------------------------------------------------------
(* Leases, the reaper, the operator.                                       *)

ReaperUp == \E w \in Worker : state[w] = "up"

Pending(t) == \E d \in disp : d.t = t /\ OwnsClaim(d)

\* The claimer heartbeat renews every claim of its worker that is not too
\* old, also one that has lapsed already.
RenewLease(w) ==
    /\ state[w] = "up"
    /\ Leased
    /\ row' = [t \in Task |->
                 IF row[t].status = "CLAIMED" /\ row[t].worker = w /\ ~row[t].old
                 THEN [row[t] EXCEPT !.lease = "held"] ELSE row[t]]
    /\ UNCHANGED <<past, gen, attempts, history, starts, disp, inDispatch, state, faults>>

\* Losing a lease under a dispatch that is about to start counts as a fault.
LeaseLapses(t) ==
    /\ row[t].status = "CLAIMED"
    /\ row[t].lease = "held"
    /\ row' = [row EXCEPT ![t].lease = "lapsed"]
    /\ IF Pending(t) THEN Fault ELSE UNCHANGED faults
    /\ UNCHANGED <<past, gen, attempts, history, starts, disp, inDispatch, state>>

\* claimed_at passes max_claim_renew_age_ms, or the reaper's threshold for
\* a claim without a lease.
ClaimAges(t) ==
    /\ row[t].status = "CLAIMED"
    /\ ~row[t].old
    /\ row' = [row EXCEPT ![t].old = TRUE]
    /\ IF Pending(t) /\ row[t].lease = "null" THEN Fault ELSE UNCHANGED faults
    /\ UNCHANGED <<past, gen, attempts, history, starts, disp, inDispatch, state>>

RequeueStaleClaimed(t) ==
    /\ ReaperUp
    /\ row[t].status = "CLAIMED"
    /\ row[t].lease = "lapsed" \/ (row[t].lease = "null" /\ row[t].old)
    /\ row' = [row EXCEPT ![t] = Released(@)]
    /\ UNCHANGED <<past, gen, attempts, history, starts, disp, inDispatch, state, faults>>

BeatGoesStale(t) ==
    /\ row[t].status = "RUNNING"
    /\ row[t].beat = "fresh"
    /\ row' = [row EXCEPT ![t].beat = "stale"]
    /\ IF \E d \in disp : d.t = t /\ d.pc = "running" THEN Fault ELSE UNCHANGED faults
    /\ UNCHANGED <<past, gen, attempts, history, starts, disp, inDispatch, state>>

StampGoesStale(t) ==
    /\ row[t].status = "RUNNING"
    /\ row[t].finalizing = "fresh"
    /\ row' = [row EXCEPT ![t].finalizing = "stale"]
    /\ UNCHANGED <<past, gen, attempts, history, starts, disp, inDispatch, state, faults>>

\* Slip: one retry too many.
CrashRetryOneMore(t) == t \in CrashRetry /\ row[t].retry <= MaxRetries /\ ~past[t]

CrashRetryAllowed(t) == t \in CrashRetry /\ row[t].retry < MaxRetries /\ ~past[t]

ReapRetry(t) ==
    /\ ReaperUp
    /\ StaleRun(t)
    /\ CrashRetryAllowed(t)
    /\ row' = [row EXCEPT ![t] = Released(Rescheduled(@))]
    /\ SetAttempt(t, row[t].retry + 1, "retried")
    /\ UNCHANGED <<past, gen, history, starts, disp, inDispatch, state, faults>>

\* No retry left, or its delay would outlast good_until.
ReapFail(t) ==
    /\ ReaperUp
    /\ StaleRun(t)
    /\ CrashRetryAllowed(t) => t \in Deadlined
    /\ SetAttempt(t, row[t].retry + 1, "final")
    /\ Move(t, "FAIL_STALE", 0)
    /\ UNCHANGED <<past, gen, starts, disp, inDispatch, state, faults>>

BackoffOver(t) ==
    /\ row[t].status = "PENDING"
    /\ ~row[t].due
    /\ row' = [row EXCEPT ![t].due = TRUE]
    /\ UNCHANGED <<past, gen, attempts, history, starts, disp, inDispatch, state, faults>>

DeadlinePasses(t) ==
    /\ t \in Deadlined
    /\ ~past[t]
    /\ past' = [past EXCEPT ![t] = TRUE]
    /\ UNCHANGED <<row, gen, attempts, history, starts, disp, inDispatch, state, faults>>

\* Slip: the deadline also expires running tasks.
ExpireLive(t) ==
    /\ ReaperUp
    /\ row[t].status \in {"PENDING", "RUNNING"}
    /\ past[t]
    /\ Move(t, "EXPIRE_PENDING", 0)
    /\ UNCHANGED <<past, gen, attempts, starts, disp, inDispatch, state, faults>>

ExpirePending(t) ==
    /\ ReaperUp
    /\ row[t].status = "PENDING"
    /\ past[t]
    /\ Move(t, "EXPIRE_PENDING", 0)
    /\ UNCHANGED <<past, gen, attempts, starts, disp, inDispatch, state, faults>>

\* The operator chooses the permitted source statuses, RUNNING among them.
AdminCancel(t) ==
    /\ row[t].status # "MOVED"
    /\ Move(t, "CANCEL_ADMIN", 0)
    /\ UNCHANGED <<past, gen, attempts, starts, disp, inDispatch, state, faults>>

----------------------------------------------------------------------------
(* Worker processes; the deployment keeps one of them serving.             *)

OthersUp(w) == \E v \in Worker \ {w} : state[v] = "up"

\* Shutdown: the cancelled token stops claiming, renewals and the reaper.
Drain(w) ==
    /\ state[w] = "up"
    /\ OthersUp(w)
    /\ state' = [state EXCEPT ![w] = "draining"]
    /\ UNCHANGED <<row, past, gen, attempts, history, starts, disp, inDispatch, faults>>

\* The process goes, after a shutdown or by a crash, and its dispatches too.
Exit(w) ==
    /\ state[w] # "down"
    /\ OthersUp(w)
    /\ IF state[w] = "up" THEN Fault ELSE UNCHANGED faults
    /\ state' = [state EXCEPT ![w] = "down"]
    /\ disp' = {d \in disp : d.w # w}
    /\ inDispatch' = [inDispatch EXCEPT ![w] = {}]
    /\ UNCHANGED <<row, past, gen, attempts, history, starts>>

----------------------------------------------------------------------------

DispatchStep(d) ==
    \/ \E heard \in BOOLEAN :
          \/ SetRunning(d, heard)
          \/ NotStarted(d, heard)
          \/ ExpireBeforeStart(d, heard)
          \/ Unclaim(d, heard)
          \/ Stamp(d, heard)
          \/ Complete(d, heard)
          \/ Requeue(d, heard)
          \/ FailLocked(d, heard)
    \/ Finish(d)
    \/ FallThrough(d)
    \/ FinalizeMiss(d)
    \/ PhaseError(d)

Time(t) ==
    \/ LeaseLapses(t)
    \/ ClaimAges(t)
    \/ BeatGoesStale(t)
    \/ StampGoesStale(t)
    \/ BackoffOver(t)
    \/ DeadlinePasses(t)

Reaper(t) ==
    \/ RequeueStaleClaimed(t)
    \/ ReapRetry(t)
    \/ ReapFail(t)
    \/ ExpirePending(t)

WorkerStep(w) ==
    \/ \E t \in Task : \/ \E then \in {"run", "full", "lost"} : Claim(w, t, then)
                       \/ DispatchBuffered(w, t)
    \/ RenewLease(w)
    \/ Drain(w)
    \/ Exit(w)

\* Every task is settled: the one state in which nothing may be left to do.
Idle == (\A t \in Task : row[t].status = "MOVED") /\ UNCHANGED vars

Next ==
    \/ Idle
    \/ \E w \in Worker : WorkerStep(w)
    \/ \E d \in disp : DispatchStep(d) \/ RunnerBeat(d)
    \/ \E t \in Task : Reaper(t) \/ Time(t) \/ AdminCancel(t)

Spec == Init /\ [][Next]_vars

(* Fairness: the claim loop, the spawned executions and the reaper pass    *)
(* run again and again, user code ends, and clocks advance.  No step that  *)
(* is a fault is ever forced.                                              *)
Serves(t) ==
    /\ WF_vars(\E w \in Worker : Claim(w, t, "run"))
    /\ WF_vars(\E w \in Worker : DispatchBuffered(w, t))
    /\ WF_vars(RequeueStaleClaimed(t))
    /\ WF_vars(ReapRetry(t) \/ ReapFail(t))
    /\ WF_vars(ExpirePending(t))

Elapses(t) ==
    /\ WF_vars(LeaseLapses(t) /\ UNCHANGED faults)
    /\ WF_vars(ClaimAges(t) /\ UNCHANGED faults)
    /\ WF_vars(BeatGoesStale(t) /\ UNCHANGED faults)
    /\ WF_vars(StampGoesStale(t))
    /\ WF_vars(BackoffOver(t))

Fairness ==
    /\ \A t \in Task : Serves(t) /\ Elapses(t)
    /\ \A w \in Worker, t \in Task :
          WF_vars(\E d \in disp : d.w = w /\ d.t = t /\ DispatchStep(d) /\ UNCHANGED faults)

FairSpec == Spec /\ Fairness

----------------------------------------------------------------------------
(* Properties.                                                             *)

\* The dispatches whose set_running was answered: user code may have run.
Ran(d) == d.pc \in {"running", "stamping", "persist", "failing"}

\* No claim is executed twice: when the same worker dispatches one claim
\* again (its in_dispatch entry was removed by an older dispatch of the same
\* task), set_running lets at most one of the two run user code.
OneRunPerClaim ==
    \A d, e \in disp : d.t = e.t /\ d.g = e.g /\ Ran(d) /\ Ran(e) => d = e

\* A result in the history is that of the latest run of the task: no run
\* that lost its row to a reaper, a retry or a new claim, not even one of the
\* same worker, ever settles the task.
LatestRunSettles ==
    \A t \in Task : history[t].kind \in RunKinds => history[t].result = row[t].startedAt

\* The attempt rows are the exact account of the retries: one "will retry"
\* row per counted retry, and a final row if and only if a run was settled.
AttemptLedger ==
    \A t \in Task : \A n \in 1 .. MaxRetries + 1 :
        /\ attempts[t][n] = "retried" <=> n <= row[t].retry
        /\ attempts[t][n] = "final" <=>
              /\ n = row[t].retry + 1
              /\ history[t].kind \in RunKinds \cup {"FAIL_STALE"}

\* User code starts at most once per counted attempt, so at most
\* max_retries + 1 times, whatever workers crash, leases lapse and replies
\* are lost.
StartsBounded ==
    \A t \in Task :
        starts[t] <= row[t].retry + (IF row[t].status \in {"RUNNING", "MOVED"} THEN 1 ELSE 0)

\* A retry that committed while its reply was lost falls through to the
\* terminal failure, whose fence must then never match: otherwise the same
\* outcome would both be retried and fail the task.
LostRetryCannotFail == \A d \in disp : d.unheard => ~OwnsRun(d)

\* d no longer speaks for the row: it was claimed again, released or moved.
Superseded(d) ==
    \/ row[d.t].status = "MOVED"
    \/ row[d.t].claimedAt # d.g

\* A dispatch that lost its claim changes nothing when it ends or moves on,
\* except that it may expire a claim of its own worker past the deadline
\* (expire_claimed_task_before_start).
SupersededOnlyExpires ==
    [][\A d \in disp \ disp' : Superseded(d) =>
          \/ row'[d.t] = row[d.t]
          \/ past[d.t] /\ history'[d.t].kind = "EXPIRE_CLAIMED"]_vars

\* Every task reaches the history: a crashed worker, a lost reply, a lapsed
\* lease or an abandoned finalization is always picked up by another actor.
EventuallySettled == \A t \in Task : <>(row[t].status = "MOVED")

----------------------------------------------------------------------------
(* The abstract specification.                                             *)

Phase(t) ==
    CASE row[t].status \in {"PENDING", "CLAIMED"} -> "waiting"
      [] row[t].status = "RUNNING" -> "running"
      [] row[t].status = "MOVED" -> "settled"

OutcomeOf ==
    [LIVE |-> "none", COMPLETE_FUSED |-> "completed", FAIL_RUNNING |-> "failed",
     FAIL_STALE |-> "crashed", EXPIRE_CLAIMED |-> "expired",
     EXPIRE_PENDING |-> "expired", CANCEL_ADMIN |-> "cancelled"]

Contract == INSTANCE TaskContract WITH
    phase <- [t \in Task |-> Phase(t)],
    retries <- [t \in Task |-> row[t].retry],
    run <- [t \in Task |-> row[t].startedAt],
    outcome <- [t \in Task |-> [kind |-> OutcomeOf[history[t].kind],
                                by |-> history[t].result]]

\* Every step of the workers, the reapers and the operator is a step of the
\* contract or leaves it as it is: runs one at a time and in order, retries
\* within the budget, one settlement, reported by the current run only.
ImplementsContract == Contract!Spec

============================================================================
