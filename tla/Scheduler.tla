----------------------------- MODULE Scheduler -----------------------------
(***************************************************************************)
(* One schedule served by several scheduler processes                      *)
(* (worker/scheduler/service.rs, state.rs).  Schedules do not share state, *)
(* so one is enough.  Time is counted in slots: slot k falls due when the  *)
(* clock reaches k, and the slot after k is k + 1.                         *)
(*                                                                         *)
(* A process reads, enqueues and stores progress in separate statements on *)
(* one connection while the advisory lock of the schedule is held by an    *)
(* idle transaction on another.  A slot's task id is derived from the slot *)
(* and the insert does nothing when a live row has that id; the history of *)
(* tasks that ended is not looked at.                                      *)
(***************************************************************************)
EXTENDS Integers, FiniteSets

CONSTANTS
    Scheduler,      \* processes
    Version,        \* versions of the configuration, 1 is deployed first
    MaxCatchUp,     \* max_catch_up_runs, documented from 1 (schedule-config.md:60)
    MaxScan,        \* MAX_SKIP_SCAN_PER_TICK
    CheckEvery,     \* ticks between two existence checks
    MaxTime,        \* bound: the clock stops there
    MaxFaults,      \* bound: crashes, lost locks, failed statements, deletes
    Absent, NoOne

ASSUME SchedulerAssumption ==
    /\ {MaxCatchUp, MaxScan, CheckEvery, MaxTime} \subseteq Nat \ {0}
    /\ MaxFaults \in Nat
    /\ 1 \in Version
    /\ Version \subseteq Nat \ {0}
    /\ NoOne \notin Scheduler
    /\ Absent \notin [next : 1..(MaxTime + 1), hash : Version]

Time == 0..MaxTime
Slot == 1..MaxTime
Row == [next : 1..(MaxTime + 1), hash : Version]
Pcs == {"down", "init", "idle", "heal", "lock", "read", "fresh",
        "enqueue", "verify", "store", "release"}

VARIABLES
    clock,
    catchUp,    \* catch_up_missed of the schedule
    row,        \* the row of horsies_schedule_state, or Absent
    lock,       \* holder of the schedule's advisory lock, or NoOne
    sch,        \* per process: its position and what it read
    live,       \* slots with a row in horsies_tasks, and who enqueued them
    runs,       \* executions of a slot, counted up to two
    first,      \* ghost: the first slot promised since the last reset
    steady,     \* ghost: no write but those that follow a fire
    faults

vars == <<clock, catchUp, row, lock, sch, live, runs, first, steady, faults>>
tables == <<live, runs>>

Max2(m, n) == IF m > n THEN m ELSE n
Min2(m, n) == IF m < n THEN m ELSE n

\* `now' is the time the tick began, `left' the ticks to the next existence
\* check, `seen' the row read under the lock, `at' the first slot not yet
\* handled and `upto' the last to enqueue.
Process == [pc : Pcs, ver : Version, now : Time, left : 0..CheckEvery,
            seen : Row \cup {Absent}, at : 1..(MaxTime + 1), upto : Time]

\* Between two ticks a process keeps only its configuration and countdown.
Waiting(pc, ver, left) ==
    [pc |-> pc, ver |-> ver, now |-> 0, left |-> left, seen |-> Absent,
     at |-> 1, upto |-> 0]

\* A task that ended is in the history; an enqueued slot is live or there.
History == {k \in Slot : runs[k] > 0}
Fired == History \cup {k \in Slot : live[k] # 0}

TypeOK ==
    /\ clock \in Time /\ catchUp \in BOOLEAN
    /\ row \in Row \cup {Absent}
    /\ lock \in Scheduler \cup {NoOne}
    /\ sch \in [Scheduler -> Process]
    /\ live \in [Slot -> Version \cup {0}]
    /\ runs \in [Slot -> 0..2]
    /\ first \in 0..(MaxTime + 1) /\ steady \in BOOLEAN
    /\ faults \in 0..MaxFaults

Init ==
    /\ clock = 0 /\ catchUp \in BOOLEAN
    /\ row \in {Absent, [next |-> 1, hash |-> 1]}
    /\ lock = NoOne
    /\ sch = [s \in Scheduler |-> Waiting("down", 1, 0)]
    /\ live = [k \in Slot |-> 0] /\ runs = [k \in Slot |-> 0]
    /\ first = 1 /\ steady = TRUE /\ faults = 0

----------------------------------------------------------------------------
(* Helpers.                                                                *)

At(s, pc) == sch[s].pc = pc
Goto(s, pc) == sch' = [sch EXCEPT ![s].pc = pc]
Rest(s) == sch' = [sch EXCEPT ![s] = Waiting("idle", @.ver, @.left)]

\* next_run_at from the time of the tick: strictly in the future of it.
Fresh(s) == [next |-> sch[s].now + 1, hash |-> sch[s].ver]

\* A write of a fresh row restarts the promise from its next slot.
Reset(s) ==
    /\ row' = Fresh(s)
    /\ first' = Max2(first, sch[s].now + 1)
    /\ steady' = FALSE

\* calculate_missed_runs: consecutive slots from the stored one, capped.
LastMissed(next, now) == Min2(now, next + MaxCatchUp - 1)

\* Slip: the scan does not stop at the present.
ScannedDue(next, now) == next + MaxScan

\* advance_to_latest_due_slot: the latest slot the scan reaches.
LatestDue(next, now) == Min2(now, next + MaxScan)

\* The scan found the latest slot, and was not stopped by its cap.
ScanReaches(next, now) == LatestDue(next, now) = now

----------------------------------------------------------------------------
(* Start-up: initialize_schedules, outside of any lock.                    *)

\* A process starts, possibly with a newer configuration.  It reads the row
\* and keeps it when the hash is the one of its own configuration.
Start(s) ==
    /\ At(s, "down")
    /\ \E v \in Version :
        /\ v = sch[s].ver \/ (v = sch[s].ver + 1 /\ faults < MaxFaults)
        /\ faults' = IF v = sch[s].ver THEN faults ELSE faults + 1
        /\ sch' = [sch EXCEPT ![s] =
             IF row # Absent /\ row.hash = v
               THEN Waiting("idle", v, 0)
               ELSE [Waiting("init", v, 0) EXCEPT !.now = clock]]
    /\ UNCHANGED <<clock, catchUp, row, lock, tables, first, steady>>

\* The upsert of a new or changed schedule.
Initialize(s) ==
    /\ At(s, "init") /\ Reset(s) /\ Rest(s)
    /\ UNCHANGED <<clock, catchUp, lock, tables, faults>>

----------------------------------------------------------------------------
(* One tick: check_and_enqueue.                                            *)

\* The query of the schedules due at the time of the tick.
Due(s, now, left) ==
    sch' = [sch EXCEPT ![s] =
      IF row # Absent /\ row.next <= now
        THEN [@ EXCEPT !.pc = "lock", !.now = now, !.left = left]
        ELSE Waiting("idle", @.ver, left)]

\* The tick takes the time once.  When the countdown is over it reads which
\* rows exist; a healthy check starts the countdown again.
Tick(s) ==
    /\ At(s, "idle")
    /\ LET check == sch[s].left = 0
           left == (IF check THEN CheckEvery ELSE sch[s].left) - 1 IN
       IF check /\ row = Absent
         THEN sch' = [sch EXCEPT ![s] =
                        [@ EXCEPT !.pc = "heal", !.now = clock, !.left = left]]
         ELSE Due(s, clock, left)
    /\ UNCHANGED <<clock, catchUp, row, lock, tables, first, steady, faults>>

\* insert_state_if_absent: the row of a faster process stands.
Heal(s) ==
    /\ At(s, "heal")
    /\ \/ row = Absent /\ Reset(s) /\ Rest(s)
       \/ row # Absent /\ Due(s, sch[s].now, sch[s].left)
          /\ UNCHANGED <<row, first, steady>>
    /\ UNCHANGED <<clock, catchUp, lock, tables, faults>>

\* The insert fails, any number of times: unhealthy, so the next tick checks
\* again.
HealFails(s) ==
    /\ At(s, "heal")
    /\ Due(s, sch[s].now, 0)
    /\ UNCHANGED <<clock, catchUp, row, lock, tables, first, steady, faults>>

\* Slip: the lock is not exclusive.
LockShared == TRUE

LockFree == lock = NoOne

\* try_acquire_schedule_lock: a busy lock skips the schedule for this tick.
TryLock(s) ==
    /\ At(s, "lock")
    /\ IF LockFree
         THEN lock' = s /\ Goto(s, "read")
         ELSE UNCHANGED lock /\ Rest(s)
    /\ UNCHANGED <<clock, catchUp, row, tables, first, steady, faults>>

----------------------------------------------------------------------------
(* process_schedule, under the lock.                                       *)

\* The row is read again: it may be gone, or served by another process.
Unserved(s) == row.next <= sch[s].now

ReadState(s) ==
    /\ At(s, "read")
    /\ LET next == row.next  now == sch[s].now IN
       sch' = [sch EXCEPT ![s] =
         IF row = Absent THEN [@ EXCEPT !.pc = "fresh"]
         ELSE IF ~Unserved(s) THEN [@ EXCEPT !.pc = "release"]
         ELSE IF catchUp
           THEN [@ EXCEPT !.pc = "enqueue", !.seen = row, !.at = next,
                          !.upto = LastMissed(next, now)]
         ELSE IF ScanReaches(next, now)
           THEN [@ EXCEPT !.pc = "enqueue", !.seen = row,
                          !.at = LatestDue(next, now),
                          !.upto = LatestDue(next, now)]
           ELSE [@ EXCEPT !.pc = "store", !.seen = row,
                          !.at = LatestDue(next, now) + 1]]
    /\ UNCHANGED <<clock, catchUp, row, lock, tables, first, steady, faults>>

\* The row disappeared: written anew, not inserted if absent.
Recreate(s) ==
    /\ At(s, "fresh") /\ Reset(s) /\ Goto(s, "release")
    /\ UNCHANGED <<clock, catchUp, lock, tables, faults>>

\* The slot is handled: the next of the batch, or the end of it.
Handled(s) ==
    sch' = [sch EXCEPT ![s] =
      [@ EXCEPT !.at = sch[s].at + 1,
                !.pc = IF sch[s].at < sch[s].upto THEN "enqueue" ELSE "store"]]

\* Slip: the slot that failed counts as handled.
GiveUpSlot(s) == IF catchUp THEN Handled(s) ELSE Goto(s, "release")

\* Slip: an error leaves the schedule without releasing its lock.
GiveUpLocked(s) == Rest(s)

\* An enqueue fails: a catch-up stores the slots before it, if there are any.
GiveUp(s) ==
    Goto(s, IF catchUp /\ sch[s].at > sch[s].seen.next THEN "store" ELSE "release")

Insert(k, v) == live' = [live EXCEPT ![k] = v]

Enqueue(s) ==
    /\ At(s, "enqueue")
    /\ LET k == sch[s].at IN
       IF live[k] = 0
         THEN Insert(k, sch[s].ver) /\ Handled(s)
         ELSE Goto(s, "verify") /\ UNCHANGED live
    /\ UNCHANGED <<clock, catchUp, row, lock, runs, first, steady, faults>>

\* A conflict on the id: the row is read to compare the payloads.  It may
\* differ (PayloadMismatch) or be gone by now (Unverifiable).
Verify(s) ==
    /\ At(s, "verify")
    /\ IF live[sch[s].at] = sch[s].ver THEN Handled(s) ELSE GiveUp(s)
    /\ UNCHANGED <<clock, catchUp, row, lock, tables, first, steady, faults>>

\* The statement fails, before or after its commit.
EnqueueFails(s) ==
    /\ At(s, "enqueue") /\ faults < MaxFaults /\ faults' = faults + 1
    /\ LET k == sch[s].at IN
       \/ UNCHANGED live
       \/ live[k] = 0 /\ Insert(k, sch[s].ver)
    /\ GiveUp(s)
    /\ UNCHANGED <<clock, catchUp, row, lock, runs, first, steady>>

\* Progress is stored with the hash of the row that was read.
Store(s) ==
    /\ At(s, "store") /\ Goto(s, "release")
    /\ row' = [next |-> sch[s].at, hash |-> sch[s].seen.hash]
    /\ UNCHANGED <<clock, catchUp, lock, tables, first, steady, faults>>

StoreFails(s) ==
    /\ At(s, "store") /\ faults < MaxFaults /\ faults' = faults + 1
    /\ Goto(s, "release")
    /\ UNCHANGED <<clock, catchUp, row, lock, tables, first, steady>>

Unlock(s) == lock' = IF lock = s THEN NoOne ELSE lock

Release(s) ==
    /\ At(s, "release") /\ Unlock(s) /\ Rest(s)
    /\ UNCHANGED <<clock, catchUp, row, tables, first, steady, faults>>

----------------------------------------------------------------------------
(* Surroundings.                                                           *)

\* The connection of the lock breaks; the process goes on without noticing.
LoseLock ==
    /\ lock # NoOne /\ lock' = NoOne
    /\ faults < MaxFaults /\ faults' = faults + 1
    /\ UNCHANGED <<clock, catchUp, row, sch, tables, first, steady>>

Crash(s) ==
    /\ ~At(s, "down") /\ Unlock(s)
    /\ sch' = [sch EXCEPT ![s] = Waiting("down", @.ver, 0)]
    /\ faults < MaxFaults /\ faults' = faults + 1
    /\ UNCHANGED <<clock, catchUp, row, tables, first, steady>>

\* The row is deleted from outside.
DeleteRow ==
    /\ row # Absent /\ row' = Absent
    /\ faults < MaxFaults /\ faults' = faults + 1
    /\ UNCHANGED <<clock, catchUp, lock, sch, tables, first, steady>>

\* A worker runs a task of the schedule.  The move to history refuses an id
\* the history has already, so such a row stays.
Run(k) ==
    /\ live[k] # 0 /\ runs[k] < 2
    /\ runs' = [runs EXCEPT ![k] = @ + 1]
    /\ live' = IF k \in History THEN live ELSE [live EXCEPT ![k] = 0]
    /\ UNCHANGED <<clock, catchUp, row, lock, sch, first, steady, faults>>

Advance ==
    /\ clock < MaxTime /\ clock' = clock + 1
    /\ UNCHANGED <<catchUp, row, lock, sch, tables, first, steady, faults>>

Serve(s) ==
    \/ Start(s) \/ Initialize(s) \/ Tick(s) \/ Heal(s) \/ TryLock(s)
    \/ ReadState(s) \/ Recreate(s) \/ Enqueue(s) \/ Verify(s) \/ Store(s)
    \/ Release(s)

Fault(s) == HealFails(s) \/ EnqueueFails(s) \/ StoreFails(s) \/ Crash(s)

Next ==
    \/ \E s \in Scheduler : Serve(s) \/ Fault(s)
    \/ LoseLock \/ DeleteRow \/ Advance
    \/ \E k \in Slot : Run(k)

Spec == Init /\ [][Next]_vars

\* Processes are restarted and their loops tick; an insert that is repeated
\* succeeds at some time; tasks are run; time passes.
FairSpec ==
    /\ Spec
    /\ \A s \in Scheduler : WF_vars(Serve(s)) /\ SF_vars(Heal(s))
    /\ WF_vars(Advance)
    /\ \A k \in Slot : WF_vars(Run(k))

----------------------------------------------------------------------------
(* Properties.                                                             *)

\* With catch_up_missed no slot is lost: whatever crashes, loses its lock,
\* fails or is read stale, the stored next slot never passes a slot that was
\* promised and not enqueued (process_schedule with its partial progress).
NoSlotSkipped ==
    catchUp /\ row # Absent => \A k \in first..(row.next - 1) : k \in Fired

Inserted(k) == live[k] = 0 /\ live'[k] # 0

\* Without a fault, and from a row that exists, the lock and the
\* second read make the schedulers enqueue slots in ascending order, so each
\* once, though each of them saw the row due (check_and_enqueue).
SlotsInOrder ==
    [][\A k \in Slot :
         Inserted(k) /\ faults = 0 /\ steady => \A j \in Fired : j < k]_vars

\* A schedule that is due, or whose row was lost, is always served in the
\* end: a process does not stop at a conflict, a skipped lock or a scan cap.
DueIsServed ==
    (row = Absent \/ row.next <= clock) ~> (row # Absent /\ row.next > clock)

\* What the documentation says: a slot is not executed twice when a scheduler
\* restarts (scheduler-overview.md:213, service.rs:91).
SlotRunsOnce == \A k \in Slot : runs[k] <= 1
=============================================================================
