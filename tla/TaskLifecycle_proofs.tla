----------------------- MODULE TaskLifecycle_proofs -----------------------
(***************************************************************************)
(* The safety properties of TaskLifecycle, and that it implements          *)
(* TaskContract, for any number of tasks and workers, any retry budget and *)
(* any number of faults.                                                   *)
(*                                                                         *)
(* The argument: claim ordinals grow, and a start copies the ordinal of    *)
(* its claim (ClockAt); so a dispatch that passed set_running holds an     *)
(* ordinal no newer than the row's last start (BornAt), and the fences on  *)
(* claimed_at and started_at can match at most one dispatch, that of the   *)
(* latest run.                                                             *)
(***************************************************************************)
EXTENDS TaskLifecycle, TLAPS

\* The ordinals of claim and start: a CLAIMED row's claim is newer than its
\* last start, a RUNNING row was started from its claim.
ClockAt(t) ==
    /\ row[t].claimedAt <= gen[t]
    /\ row[t].startedAt <= gen[t]
    /\ row[t].status = "CLAIMED" => row[t].startedAt < row[t].claimedAt
    /\ row[t].status = "RUNNING" => row[t].startedAt = row[t].claimedAt
    /\ past[t] => t \in Deadlined

\* A row is gone exactly when the history has a verdict, of the latest run.
SettledAt(t) ==
    /\ row[t].status = "MOVED" <=> history[t].kind # "LIVE"
    /\ history[t].kind = "LIVE" => history[t].result = 0
    /\ history[t].kind \in RunKinds => history[t].result = row[t].startedAt

\* AttemptLedger, of one task.
LedgerAt(t) ==
    \A n \in 1 .. MaxRetries + 1 :
        /\ attempts[t][n] = "retried" <=> n <= row[t].retry
        /\ attempts[t][n] = "final" <=>
              /\ n = row[t].retry + 1
              /\ history[t].kind \in RunKinds \cup {"FAIL_STALE"}

\* StartsBounded, of one task.
StartsAt(t) ==
    starts[t] <= row[t].retry + (IF row[t].status \in {"RUNNING", "MOVED"} THEN 1 ELSE 0)

\* The invariant of one task.
TaskInv(t) == ClockAt(t) /\ SettledAt(t) /\ LedgerAt(t) /\ StartsAt(t)

\* The invariant of one dispatch: a claim that ran is no newer than the last
\* start, and the dispatch of the current run knows its retry_count.
BornAt(d) ==
    /\ d.g <= gen[d.t]
    /\ Ran(d) => d.g <= row[d.t].startedAt
    /\ Ran(d) /\ row[d.t].status = "RUNNING" /\ row[d.t].startedAt = d.g
          => row[d.t].retry = d.rc
    /\ d.unheard => Ran(d)
    /\ d.unheard /\ row[d.t].startedAt = d.g => row[d.t].status # "RUNNING"

\* The inductive invariant.
IInv ==
    /\ TypeOK
    /\ \A t \in Task : TaskInv(t)
    /\ \A d \in disp : BornAt(d)
    /\ OneRunPerClaim

\* What every step does to a task: clocks do not go back, and a row is RUNNING
\* after it without a new start only if it was before.
Advance(t) ==
    /\ gen[t] <= gen'[t]
    /\ row[t].startedAt <= row'[t].startedAt
    /\ row'[t].status = "RUNNING" /\ row'[t].startedAt = row[t].startedAt
          => row[t].status = "RUNNING" /\ row'[t].retry = row[t].retry

\* The fenced columns of a task, and its accounts, stay.
Kept(t) ==
    /\ row'[t].status = row[t].status
    /\ row'[t].claimedAt = row[t].claimedAt
    /\ row'[t].startedAt = row[t].startedAt
    /\ row'[t].retry = row[t].retry
    /\ gen'[t] = gen[t]
    /\ attempts'[t] = attempts[t]
    /\ history'[t] = history[t]
    /\ starts'[t] = starts[t]
    /\ past'[t] => t \in Deadlined

\* A task whose fenced columns stay keeps its invariant.
LEMMA KeptTask ==
    ASSUME TypeOK, NEW t \in Task, TaskInv(t), Kept(t)
    PROVE  TaskInv(t)' /\ Advance(t)
<1>1. row[t] \in Row /\ gen[t] \in Nat BY DEF TypeOK
<1>2. ClockAt(t)' BY DEF TaskInv, ClockAt, Kept
<1>3. SettledAt(t)' BY DEF TaskInv, SettledAt, Kept
<1>4. LedgerAt(t)' BY DEF TaskInv, LedgerAt, Kept
<1>5. StartsAt(t)' BY DEF TaskInv, StartsAt, Kept
<1>6. Advance(t) BY <1>1 DEF Advance, Kept, Row
<1> QED BY <1>2, <1>3, <1>4, <1>5, <1>6 DEF TaskInv

\* What is known of a dispatch survives any step that advances its task.
LEMMA OldDispatch ==
    ASSUME TypeOK, TypeOK', NEW d \in disp, BornAt(d), Advance(d.t)
    PROVE  BornAt(d)'
<1>1. d \in Dispatch BY DEF TypeOK
<1>2. row[d.t] \in Row /\ row'[d.t] \in Row /\ gen[d.t] \in Nat /\ gen'[d.t] \in Nat
  BY <1>1 DEF TypeOK, Dispatch
<1> QED BY <1>1, <1>2 DEF BornAt, Advance, Row, Dispatch, Ran

\* Dispatches that end, or stay, keep the dispatch part of the invariant.
LEMMA DispatchShrinks ==
    ASSUME IInv, TypeOK', \A t \in Task : Advance(t), disp' \subseteq disp
    PROVE  (\A d \in disp : BornAt(d))' /\ OneRunPerClaim'
<1>1. \A d \in disp : d.t \in Task BY DEF IInv, TypeOK, Dispatch
<1>2. \A d \in disp : BornAt(d)' BY <1>1, OldDispatch DEF IInv
<1>3. OneRunPerClaim' BY DEF IInv, OneRunPerClaim, Ran
<1> QED BY <1>2, <1>3

\* So does one dispatch that goes on as another record e of the same claim,
\* provided it starts no second run of the claim.
LEMMA DispatchMoves ==
    ASSUME IInv, TypeOK', \A t \in Task : Advance(t), NEW d \in disp, NEW e \in Dispatch,
           disp' \subseteq (disp \ {d}) \cup {e},
           e.t = d.t, e.g = d.g, BornAt(e)',
           Ran(e) => Ran(d) \/ \A f \in disp : f.t = d.t /\ f.g = d.g => ~Ran(f)
    PROVE  (\A f \in disp : BornAt(f))' /\ OneRunPerClaim'
<1>1. \A f \in disp : f.t \in Task BY DEF IInv, TypeOK, Dispatch
<1>2. \A f \in disp : BornAt(f)' BY <1>1, OldDispatch DEF IInv
<1>3. (\A f \in disp : BornAt(f))' BY <1>2
<1>4. OneRunPerClaim'
  <2> SUFFICES ASSUME NEW f \in disp', NEW h \in disp', f.t = h.t, f.g = h.g, Ran(f), Ran(h)
               PROVE  f = h
    BY DEF OneRunPerClaim, Ran
  <2>1. CASE f = e /\ h # e BY <2>1 DEF IInv, OneRunPerClaim
  <2>2. CASE h = e /\ f # e BY <2>2 DEF IInv, OneRunPerClaim
  <2>3. CASE f # e /\ h # e BY <2>3 DEF IInv, OneRunPerClaim
  <2> QED BY <2>1, <2>2, <2>3
<1> QED BY <1>3, <1>4

\* So does a new dispatch, which has not run.
LEMMA DispatchSpawns ==
    ASSUME IInv, TypeOK', \A t \in Task : Advance(t), NEW e \in Dispatch,
           disp' \subseteq disp \cup {e}, BornAt(e)', ~Ran(e)
    PROVE  (\A f \in disp : BornAt(f))' /\ OneRunPerClaim'
<1>1. \A f \in disp : f.t \in Task BY DEF IInv, TypeOK, Dispatch
<1>2. \A f \in disp : BornAt(f)' BY <1>1, OldDispatch DEF IInv
<1>3. (\A f \in disp : BornAt(f))' BY <1>2
<1>4. OneRunPerClaim' BY DEF IInv, OneRunPerClaim, Ran
<1> QED BY <1>3, <1>4

\* The move to the history keeps the types of the rows and of the history.
LEMMA MoveType ==
    ASSUME TypeOK, NEW t \in Task, NEW kind \in Kinds, NEW result \in Nat,
           Move(t, kind, result)
    PROVE  row' \in [Task -> Row] /\ history' \in [Task -> Verdict]
<1>1. row[t] \in Row BY DEF TypeOK
<1>2. row' \in [Task -> Row] BY <1>1 DEF Move, TypeOK, Row, Statuses
<1>3. history' \in [Task -> Verdict] BY DEF Move, TypeOK, Verdict
<1> QED BY <1>2, <1>3

\* The move of one task to the history leaves every other task alone.
LEMMA MoveOthers ==
    ASSUME IInv, NEW t \in Task, NEW kind, NEW result, Move(t, kind, result),
           NEW u \in Task \ {t}, attempts'[u] = attempts[u],
           UNCHANGED <<gen, starts, past>>
    PROVE  TaskInv(u)' /\ Advance(u)
<1>1. row'[u] = row[u] /\ history'[u] = history[u] BY DEF Move, IInv, TypeOK
<1>2. Kept(u) BY <1>1 DEF Kept, IInv, TaskInv, ClockAt
<1> QED BY <1>2, KeptTask DEF IInv

\* A settlement without a run (expiry, cancellation) keeps the task invariant.
LEMMA MoveUnrun ==
    ASSUME IInv, NEW t \in Task, NEW kind \in Kinds \ (RunKinds \cup {"FAIL_STALE"}),
           row[t].status # "MOVED", Move(t, kind, 0),
           UNCHANGED <<gen, starts, past, attempts>>
    PROVE  \A u \in Task : TaskInv(u)' /\ Advance(u)
<1> SUFFICES ASSUME NEW u \in Task PROVE TaskInv(u)' /\ Advance(u)
  OBVIOUS
<1>1. CASE u # t BY <1>1, MoveOthers
<1>2. CASE u = t
  <2>1. row[t] \in Row /\ history[t] \in Verdict /\ TaskInv(t) BY DEF IInv, TypeOK
  <2>2. /\ row'[t].status = "MOVED"
        /\ row'[t].claimedAt = row[t].claimedAt
        /\ row'[t].startedAt = row[t].startedAt
        /\ row'[t].retry = row[t].retry
        /\ history'[t] = [kind |-> kind, result |-> 0]
    BY <2>1 DEF Move, IInv, TypeOK, Row
  <2>3. ClockAt(t)' BY <2>1, <2>2 DEF TaskInv, ClockAt
  <2>4. SettledAt(t)' BY <2>1, <2>2 DEF TaskInv, SettledAt, Kinds, RunKinds
  <2>5. LedgerAt(t)' BY <2>1, <2>2 DEF TaskInv, SettledAt, LedgerAt, RunKinds
  <2>6. StartsAt(t)'
    BY <2>1, <2>2 DEF TaskInv, StartsAt, IInv, TypeOK, Row
  <2>7. Advance(t) BY <2>1, <2>2 DEF Advance, Row, IInv, TypeOK
  <2> QED BY <1>2, <2>3, <2>4, <2>5, <2>6, <2>7 DEF TaskInv
<1> QED BY <1>1, <1>2

\* The settlement of a RUNNING row with its final attempt keeps it too: this is
\* complete_fused, fail_locked and fail_stale.
LEMMA MoveRun ==
    ASSUME IInv, NEW t \in Task, NEW kind \in RunKinds \cup {"FAIL_STALE"},
           NEW result \in Nat, kind \in RunKinds => result = row[t].startedAt,
           row[t].status = "RUNNING", Move(t, kind, result),
           SetAttempt(t, row[t].retry + 1, "final"),
           UNCHANGED <<gen, starts, past>>
    PROVE  \A u \in Task : TaskInv(u)' /\ Advance(u)
<1> SUFFICES ASSUME NEW u \in Task PROVE TaskInv(u)' /\ Advance(u)
  OBVIOUS
<1>1. CASE u # t
  <2>1. attempts'[u] = attempts[u] BY <1>1 DEF SetAttempt, IInv, TypeOK
  <2> QED BY <1>1, <2>1, MoveOthers
<1>2. CASE u = t
  <2>1. row[t] \in Row /\ history[t] \in Verdict /\ TaskInv(t) BY DEF IInv, TypeOK
  <2>2. /\ row'[t].status = "MOVED"
        /\ row'[t].claimedAt = row[t].claimedAt
        /\ row'[t].startedAt = row[t].startedAt
        /\ row'[t].retry = row[t].retry
        /\ history'[t] = [kind |-> kind, result |-> result]
    BY <2>1 DEF Move, IInv, TypeOK, Row
  <2>3. ClockAt(t)' BY <2>1, <2>2 DEF TaskInv, ClockAt
  <2>4. SettledAt(t)' BY <2>1, <2>2 DEF TaskInv, SettledAt, RunKinds
  <2>5. LedgerAt(t)'
    <3>1. history[t].kind = "LIVE" BY <2>1 DEF TaskInv, SettledAt
    <3>2. \A n \in 1 .. MaxRetries + 1 :
             attempts'[t][n] = IF n = row[t].retry + 1 THEN "final" ELSE attempts[t][n]
      BY <2>1, LifecycleAssumption DEF SetAttempt, IInv, TypeOK, Row
    <3>3. row[t].retry \in Nat BY <2>1, LifecycleAssumption DEF Row
    <3> QED BY <2>1, <2>2, <3>1, <3>2, <3>3, LifecycleAssumption DEF TaskInv, LedgerAt, RunKinds
  <2>6. StartsAt(t)' BY <2>1, <2>2 DEF TaskInv, StartsAt, IInv, TypeOK, Row
  <2>7. Advance(t) BY <2>1, <2>2 DEF Advance, Row, IInv, TypeOK
  <2> QED BY <1>2, <2>3, <2>4, <2>5, <2>6, <2>7 DEF TaskInv
<1> QED BY <1>1, <1>2

\* Writing an attempt row keeps the type of the attempts.
LEMMA AttemptType ==
    ASSUME TypeOK, NEW t, NEW n, NEW what \in {"none", "retried", "final"},
           SetAttempt(t, n, what)
    PROVE  attempts' \in [Task -> [1 .. MaxRetries + 1 -> {"none", "retried", "final"}]]
BY DEF SetAttempt, TypeOK

\* Of the steps that leave every task's status, claim, start and retry alone.
LEMMA AllKept ==
    ASSUME IInv, \A t \in Task : Kept(t)
    PROVE  \A t \in Task : TaskInv(t)' /\ Advance(t)
BY KeptTask DEF IInv

\* A step that leaves the tables alone keeps every task.
LEMMA UnchangedKept ==
    ASSUME IInv, UNCHANGED <<row, past, gen, attempts, history, starts>>
    PROVE  \A t \in Task : Kept(t)
BY DEF Kept, IInv, TaskInv, ClockAt

\* Of a step of dispatch d that leaves the tasks alone and goes on as e.
LEMMA QuietMove ==
    ASSUME IInv, NEW d \in disp, NEW e \in Dispatch, Goto(d, e),
           e.t = d.t, e.g = d.g, e.rc = d.rc, e.unheard = d.unheard, Ran(e) <=> Ran(d),
           row' \in [Task -> Row], \A t \in Task : Kept(t), faults' \in Nat,
           UNCHANGED <<past, gen, attempts, history, starts, state>>
    PROVE  IInv'
<1>1. TypeOK' BY DEF IInv, TypeOK, Goto
<1>2. \A t \in Task : TaskInv(t)' /\ Advance(t) BY AllKept
<1>3. BornAt(d)' BY <1>1, <1>2, OldDispatch DEF IInv, TypeOK, Dispatch
<1>4. BornAt(e)' BY <1>3 DEF BornAt, Ran
<1>5. (\A f \in disp : BornAt(f))' /\ OneRunPerClaim'
  BY <1>1, <1>2, <1>4, DispatchMoves DEF Goto
<1> QED BY <1>1, <1>2, <1>5 DEF IInv

\* The end of a dispatch keeps the types of disp and in_dispatch.
LEMMA EndType ==
    ASSUME TypeOK, NEW d \in disp, End(d)
    PROVE  disp' \subseteq Dispatch /\ disp' \subseteq disp
           /\ inDispatch' \in [Worker -> SUBSET Task]
<1>1. d \in Dispatch BY DEF TypeOK
<1> QED BY <1>1 DEF End, TypeOK, Dispatch

\* A spawned execution is a dispatch that has not run.
LEMMA SpawnType ==
    ASSUME TypeOK, NEW w \in Worker, NEW t \in Task, NEW g \in Nat,
           NEW pc \in {"dispatched", "unclaim"}, Spawn(w, t, g, pc)
    PROVE  /\ inDispatch' \in [Worker -> SUBSET Task]
           /\ \E e \in Dispatch : /\ disp' \subseteq disp \cup {e}
                                  /\ e.t = t /\ e.g = g /\ ~Ran(e) /\ ~e.unheard
<1>1. PICK n \in {1, 2} :
         /\ disp' = disp \cup {[w |-> w, t |-> t, g |-> g, n |-> n, pc |-> pc,
                               rc |-> 0, res |-> "none", unheard |-> FALSE]}
         /\ inDispatch' = IF Prefetch /\ <<w, t>> \in Registered
                         THEN [inDispatch EXCEPT ![w] = @ \cup {t}]
                         ELSE inDispatch
  BY DEF Spawn
<1>2. PICK e : e = [w |-> w, t |-> t, g |-> g, n |-> n, pc |-> pc,
                    rc |-> 0, res |-> "none", unheard |-> FALSE]
  OBVIOUS
<1>3. e \in Dispatch BY <1>2 DEF Dispatch
<1>4. ~Ran(e) /\ e.t = t /\ e.g = g /\ ~e.unheard BY <1>2 DEF Ran
<1>5. inDispatch' \in [Worker -> SUBSET Task] BY <1>1 DEF TypeOK
<1> QED BY <1>1, <1>2, <1>3, <1>4, <1>5

\* horsies_claim and the spawn after it preserve the invariant.
LEMMA ClaimInv ==
    ASSUME IInv, NEW w \in Worker, NEW t \in Task, NEW then \in {"run", "full", "lost"},
           Claim(w, t, then)
    PROVE  IInv'
<1>1. row[t] \in Row /\ gen[t] \in Nat /\ TaskInv(t) BY DEF IInv, TypeOK
<1>2. row' \in [Task -> Row]
  <2> DEFINE r == [row[t] EXCEPT !.status = "CLAIMED", !.worker = w,
                                 !.claimedAt = gen[t] + 1, !.old = FALSE,
                                 !.lease = IF Leased THEN "held" ELSE "null",
                                 !.finalizing = "none"]
  <2>1. gen[t] + 1 \in Nat BY <1>1
  <2>2. (IF Leased THEN "held" ELSE "null") \in {"null", "held", "lapsed"} OBVIOUS
  <2>3. r \in Row BY <1>1, <2>1, <2>2 DEF Row, Statuses
  <2>4. row' = [row EXCEPT ![t] = r] BY DEF Claim
  <2> QED BY <2>3, <2>4 DEF IInv, TypeOK
<1>3. gen' \in [Task -> Nat] /\ faults' \in Nat
  BY DEF Claim, Fault, IInv, TypeOK
<1>4. \/ Spawn(w, t, gen[t] + 1, "dispatched")
      \/ Spawn(w, t, gen[t] + 1, "unclaim")
      \/ UNCHANGED <<disp, inDispatch>>
  BY DEF Claim
<1>5. \A u \in Task : TaskInv(u)' /\ Advance(u)
  <2> SUFFICES ASSUME NEW u \in Task PROVE TaskInv(u)' /\ Advance(u)
    OBVIOUS
  <2>1. CASE u # t
    <3>1. Kept(u) BY <2>1 DEF Kept, Claim, IInv, TypeOK, TaskInv, ClockAt
    <3> QED BY <3>1, KeptTask DEF IInv
  <2>2. CASE u = t
    <3>1. /\ row'[t].status = "CLAIMED" /\ row'[t].claimedAt = gen[t] + 1
          /\ row'[t].startedAt = row[t].startedAt /\ row'[t].retry = row[t].retry
          /\ gen'[t] = gen[t] + 1
      BY <1>1 DEF Claim, IInv, TypeOK, Row
    <3>2. row[t].status \in {"PENDING", "CLAIMED"} BY DEF Claim, Claimable
    <3>3. UNCHANGED <<past, attempts, history, starts>> BY DEF Claim
    <3>4. ClockAt(t)' BY <1>1, <3>1, <3>3 DEF TaskInv, ClockAt, Row
    <3>5. SettledAt(t)' BY <1>1, <3>1, <3>2, <3>3 DEF TaskInv, SettledAt
    <3>6. LedgerAt(t)' BY <1>1, <3>1, <3>3 DEF TaskInv, LedgerAt
    <3>7. StartsAt(t)' BY <1>1, <3>1, <3>2, <3>3 DEF TaskInv, StartsAt
    <3>8. Advance(t) BY <1>1, <3>1 DEF Advance, Row
    <3> QED BY <2>2, <3>4, <3>5, <3>6, <3>7, <3>8 DEF TaskInv
  <2> QED BY <2>1, <2>2
<1>6. CASE UNCHANGED <<disp, inDispatch>>
  <2>1. TypeOK' BY <1>2, <1>3, <1>6 DEF Claim, IInv, TypeOK
  <2> QED BY <1>5, <1>6, <2>1, DispatchShrinks DEF IInv
<1>7. ASSUME NEW pc \in {"dispatched", "unclaim"}, Spawn(w, t, gen[t] + 1, pc)
      PROVE  IInv'
  <2>1. PICK e \in Dispatch :
           disp' \subseteq disp \cup {e} /\ e.t = t /\ e.g = gen[t] + 1 /\ ~Ran(e) /\ ~e.unheard
    <3> DEFINE g == gen[t] + 1
    <3>1. g \in Nat BY <1>1
    <3>2. Spawn(w, t, g, pc) BY <1>7
    <3> HIDE DEF g
    <3>3. \E e \in Dispatch : disp' \subseteq disp \cup {e} /\ e.t = t /\ e.g = g /\ ~Ran(e) /\ ~e.unheard
      BY <3>1, <3>2, SpawnType DEF IInv
    <3> QED BY <3>3 DEF g
  <2>2. inDispatch' \in [Worker -> SUBSET Task]
    BY <1>7 DEF Spawn, IInv, TypeOK
  <2>3. TypeOK' BY <1>2, <1>3, <2>1, <2>2 DEF Claim, IInv, TypeOK
  <2>4. gen'[t] = gen[t] + 1 BY DEF Claim, IInv, TypeOK
  <2>5. BornAt(e)' BY <1>1, <2>1, <2>4 DEF BornAt, Ran
  <2> QED BY <1>5, <2>1, <2>3, <2>5, DispatchSpawns DEF IInv
<1> QED BY <1>4, <1>6, <1>7

\* So does the redispatch of a buffered claim.
LEMMA DispatchBufferedInv ==
    ASSUME IInv, NEW w \in Worker, NEW t \in Task, DispatchBuffered(w, t)
    PROVE  IInv'
<1>1. row[t] \in Row /\ gen[t] \in Nat /\ TaskInv(t) BY DEF IInv, TypeOK
<1>2. PICK g \in Nat : g = row[t].claimedAt BY <1>1 DEF Row
<1>3. Spawn(w, t, g, "dispatched") BY <1>2 DEF DispatchBuffered
<1>4. PICK e \in Dispatch :
         disp' \subseteq disp \cup {e} /\ e.t = t /\ e.g = g /\ ~Ran(e) /\ ~e.unheard
  BY <1>3, SpawnType DEF IInv
<1>5. inDispatch' \in [Worker -> SUBSET Task] BY <1>3, SpawnType DEF IInv
<1>6. TypeOK' BY <1>4, <1>5 DEF DispatchBuffered, IInv, TypeOK
<1>7. \A u \in Task : TaskInv(u)' /\ Advance(u)
  BY UnchangedKept, AllKept DEF DispatchBuffered
<1>8. BornAt(e)' BY <1>1, <1>2, <1>4 DEF BornAt, Ran, TaskInv, ClockAt, DispatchBuffered
<1> QED BY <1>4, <1>6, <1>7, <1>8, DispatchSpawns DEF IInv

\* So does set_running: the claim's ordinal is larger than every started_at of
\* the task, so no other dispatch of the claim has run.
LEMMA SetRunningInv ==
    ASSUME IInv, NEW d \in disp, NEW heard \in BOOLEAN, SetRunning(d, heard)
    PROVE  IInv'
<1>1. d \in Dispatch /\ d.t \in Task BY DEF IInv, TypeOK, Dispatch
<1>2. /\ row[d.t] \in Row /\ gen[d.t] \in Nat /\ starts[d.t] \in Nat
      /\ TaskInv(d.t) /\ BornAt(d)
  BY <1>1 DEF IInv, TypeOK
<1>3. row' \in [Task -> Row] BY <1>1, <1>2 DEF SetRunning, IInv, TypeOK, Row, Dispatch, Statuses
<1>4. starts' \in [Task -> Nat] /\ faults' \in Nat
  <2>1. starts' \in [Task -> Nat] BY <1>1, <1>2 DEF SetRunning, IInv, TypeOK
  <2>2. faults' \in Nat BY DEF SetRunning, Fault, IInv, TypeOK
  <2> QED BY <2>1, <2>2
<1>5. /\ row'[d.t].status = "RUNNING" /\ row'[d.t].startedAt = d.g
      /\ row'[d.t].claimedAt = row[d.t].claimedAt /\ row'[d.t].retry = row[d.t].retry
  BY <1>1, <1>2 DEF SetRunning, IInv, TypeOK, Row
<1>6. row[d.t].status = "CLAIMED" /\ row[d.t].claimedAt = d.g
  BY DEF SetRunning, CanStart, OwnsClaim
<1>7. UNCHANGED <<past, gen, attempts, history>> BY DEF SetRunning
<1>8. row[d.t].startedAt < d.g BY <1>2, <1>6 DEF TaskInv, ClockAt
<1>9. starts'[d.t] <= starts[d.t] + 1 BY <1>1, <1>2 DEF SetRunning, IInv, TypeOK
<1>10. \A u \in Task : TaskInv(u)' /\ Advance(u)
  <2> SUFFICES ASSUME NEW u \in Task PROVE TaskInv(u)' /\ Advance(u)
    OBVIOUS
  <2>1. CASE u # d.t
    <3>1. Kept(u) BY <1>1, <2>1 DEF Kept, SetRunning, IInv, TypeOK, TaskInv, ClockAt
    <3> QED BY <3>1, KeptTask DEF IInv
  <2>2. CASE u = d.t
    <3>1. ClockAt(d.t)' BY <1>1, <1>2, <1>5, <1>6, <1>7 DEF TaskInv, ClockAt, BornAt
    <3>2. SettledAt(d.t)'
      <4>1. history[d.t].kind = "LIVE" BY <1>2, <1>6 DEF TaskInv, SettledAt
      <4> QED BY <1>2, <1>5, <1>7, <4>1 DEF TaskInv, SettledAt, RunKinds
    <3>3. LedgerAt(d.t)' BY <1>2, <1>5, <1>7 DEF TaskInv, LedgerAt
    <3>4. StartsAt(d.t)'
      <4>1. starts[d.t] <= row[d.t].retry BY <1>2, <1>6, LifecycleAssumption DEF TaskInv, StartsAt, Row
      <4>2. starts'[d.t] \in Nat /\ row[d.t].retry \in Nat BY <1>1, <1>2, <1>4, LifecycleAssumption DEF Row
      <4> QED BY <1>2, <1>5, <1>9, <4>1, <4>2 DEF StartsAt
    <3>5. Advance(d.t) BY <1>1, <1>2, <1>5, <1>7, <1>8 DEF Advance, Row, Dispatch
    <3> QED BY <2>2, <3>1, <3>2, <3>3, <3>4, <3>5 DEF TaskInv
  <2> QED BY <2>1, <2>2
<1>11. CASE heard = TRUE
  <2>1. PICK e : e = [d EXCEPT !.pc = "running", !.rc = row[d.t].retry] OBVIOUS
  <2>2. Goto(d, e) BY <1>11, <2>1 DEF SetRunning
  <2>3. e \in Dispatch
    <3>1. row[d.t].retry \in Nat BY <1>2, LifecycleAssumption DEF Row
    <3> QED BY <1>1, <2>1, <3>1 DEF Dispatch
  <2>4. e.t = d.t /\ e.g = d.g /\ e.rc = row[d.t].retry /\ e.unheard = d.unheard
    BY <1>1, <2>1 DEF Dispatch
  <2>5. ~d.unheard BY <1>2 DEF SetRunning, BornAt, Ran
  <2>6. BornAt(e)'
    BY <1>1, <1>2, <1>5, <1>7, <2>4, <2>5, <2>3 DEF BornAt, Dispatch, Row
  <2>7. \A f \in disp : f.t = d.t /\ f.g = d.g => ~Ran(f)
    <3> SUFFICES ASSUME NEW f \in disp, f.t = d.t, f.g = d.g, Ran(f) PROVE FALSE
      OBVIOUS
    <3>1. BornAt(f) BY DEF IInv
    <3> QED BY <1>1, <1>2, <1>8, <3>1 DEF BornAt, Dispatch, Row
  <2>8. TypeOK' BY <1>3, <1>4, <2>2, <2>3 DEF SetRunning, Goto, IInv, TypeOK
  <2> QED BY <1>10, <2>2, <2>3, <2>4, <2>6, <2>7, <2>8, DispatchMoves DEF IInv, Goto
<1>12. CASE heard = FALSE
  <2>1. PICK e : e = [d EXCEPT !.pc = "unclaim"] OBVIOUS
  <2>2. Goto(d, e) BY <1>12, <2>1 DEF SetRunning
  <2>3. e \in Dispatch BY <1>1, <2>1 DEF Dispatch
  <2>4. e.t = d.t /\ e.g = d.g /\ e.unheard = d.unheard /\ ~Ran(e)
    BY <1>1, <2>1 DEF Dispatch, Ran
  <2>5. ~d.unheard BY <1>2 DEF SetRunning, BornAt, Ran
  <2>6. BornAt(e)' BY <1>2, <1>7, <2>4, <2>5 DEF BornAt, Ran
  <2>7. TypeOK' BY <1>3, <1>4, <2>2, <2>3 DEF SetRunning, Goto, IInv, TypeOK
  <2> QED BY <1>10, <2>2, <2>3, <2>4, <2>6, <2>7, DispatchMoves DEF IInv, Goto
<1> QED BY <1>11, <1>12

\* So does a step that keeps every task and starts no dispatch.
LEMMA QuietShrink ==
    ASSUME IInv, disp' \subseteq disp, inDispatch' \in [Worker -> SUBSET Task],
           row' \in [Task -> Row], past' \in [Task -> BOOLEAN],
           \A t \in Task : Kept(t), faults' \in Nat,
           state' \in [Worker -> {"up", "draining", "down"}],
           UNCHANGED <<gen, attempts, history, starts>>
    PROVE  IInv'
<1>1. TypeOK' BY DEF IInv, TypeOK
<1>2. \A t \in Task : TaskInv(t)' /\ Advance(t) BY AllKept
<1> QED BY <1>1, <1>2, DispatchShrinks DEF IInv

\* A row replaced by one with the same fenced columns keeps every task.
LEMMA RowKept ==
    ASSUME IInv, NEW t \in Task, NEW r \in Row, row' = [row EXCEPT ![t] = r],
           r.status = row[t].status, r.claimedAt = row[t].claimedAt,
           r.startedAt = row[t].startedAt, r.retry = row[t].retry,
           UNCHANGED <<past, gen, attempts, history, starts>>
    PROVE  row' \in [Task -> Row] /\ \A u \in Task : Kept(u)
<1>1. row' \in [Task -> Row] BY DEF IInv, TypeOK
<1>2. \A u \in Task : row'[u] = IF u = t THEN r ELSE row[u] BY DEF IInv, TypeOK
<1>3. \A u \in Task : Kept(u) BY <1>2 DEF Kept, IInv, TaskInv, ClockAt
<1> QED BY <1>1, <1>3

\* The release of a CLAIMED row (unclaim, stale claim) keeps the task invariant.
LEMMA ReleaseTask ==
    ASSUME IInv, NEW t \in Task, row[t].status = "CLAIMED",
           row' = [row EXCEPT ![t] = Released(@)],
           UNCHANGED <<past, gen, attempts, history, starts>>
    PROVE  row' \in [Task -> Row] /\ \A u \in Task : TaskInv(u)' /\ Advance(u)
<1>1. row[t] \in Row /\ TaskInv(t) /\ gen[t] \in Nat BY DEF IInv, TypeOK
<1>2. row' \in [Task -> Row] BY <1>1 DEF Released, IInv, TypeOK, Row, Statuses
<1>3. ASSUME NEW u \in Task, u # t PROVE TaskInv(u)' /\ Advance(u)
  <2>1. Kept(u) BY <1>3 DEF Kept, IInv, TypeOK, TaskInv, ClockAt
  <2> QED BY <2>1, KeptTask DEF IInv
<1>4. /\ row'[t].status = "PENDING" /\ row'[t].claimedAt = 0
      /\ row'[t].startedAt = row[t].startedAt /\ row'[t].retry = row[t].retry
  BY <1>1 DEF Released, IInv, TypeOK, Row
<1>5. ClockAt(t)' BY <1>1, <1>4 DEF TaskInv, ClockAt
<1>6. SettledAt(t)' BY <1>1, <1>4 DEF TaskInv, SettledAt
<1>7. LedgerAt(t)' BY <1>1, <1>4 DEF TaskInv, LedgerAt
<1>8. StartsAt(t)' BY <1>1, <1>4 DEF TaskInv, StartsAt
<1>9. Advance(t) BY <1>1, <1>4 DEF Advance, Row
<1> QED BY <1>2, <1>3, <1>5, <1>6, <1>7, <1>8, <1>9 DEF TaskInv

\* Of the two ways a run is given another try.
LEMMA RetryTask ==
    ASSUME IInv, NEW t \in Task, row[t].status = "RUNNING", row[t].retry < MaxRetries,
           \/ row' = [row EXCEPT ![t] = Rescheduled(@)]
           \/ row' = [row EXCEPT ![t] = Released(Rescheduled(@))],
           SetAttempt(t, row[t].retry + 1, "retried"),
           UNCHANGED <<past, gen, history, starts>>
    PROVE  row' \in [Task -> Row] /\ \A u \in Task : TaskInv(u)' /\ Advance(u)
<1>1. row[t] \in Row /\ TaskInv(t) /\ gen[t] \in Nat BY DEF IInv, TypeOK
<1>2. row[t].retry + 1 \in 0 .. MaxRetries /\ row[t].retry \in Nat
  BY <1>1, LifecycleAssumption DEF Row
<1>3. Rescheduled(row[t]) \in Row BY <1>1, <1>2 DEF Rescheduled, Row, Statuses
<1>4. Released(Rescheduled(row[t])) \in Row BY <1>3 DEF Released, Row, Statuses
<1>5. row' \in [Task -> Row] BY <1>3, <1>4 DEF IInv, TypeOK
<1>6. ASSUME NEW u \in Task, u # t PROVE TaskInv(u)' /\ Advance(u)
  <2>1. Kept(u) BY <1>6 DEF Kept, SetAttempt, IInv, TypeOK, TaskInv, ClockAt
  <2> QED BY <2>1, KeptTask DEF IInv
<1>7. row'[t] \in {Rescheduled(row[t]), Released(Rescheduled(row[t]))} BY DEF IInv, TypeOK
<1>8. /\ row'[t].status = "PENDING" /\ row'[t].claimedAt \in {0, row[t].claimedAt}
      /\ row'[t].startedAt = row[t].startedAt /\ row'[t].retry = row[t].retry + 1
  BY <1>1, <1>7 DEF Rescheduled, Released, Row
<1>9. ClockAt(t)' BY <1>1, <1>8 DEF TaskInv, ClockAt
<1>10. SettledAt(t)' BY <1>1, <1>8 DEF TaskInv, SettledAt
<1>11. LedgerAt(t)'
  <2>1. history[t].kind = "LIVE" BY <1>1 DEF TaskInv, SettledAt
  <2>2. \A n \in 1 .. MaxRetries + 1 :
           attempts'[t][n] = IF n = row[t].retry + 1 THEN "retried" ELSE attempts[t][n]
    BY <1>2, LifecycleAssumption DEF SetAttempt, IInv, TypeOK
  <2> QED BY <1>1, <1>2, <1>8, <2>1, <2>2, LifecycleAssumption DEF TaskInv, LedgerAt, RunKinds
<1>12. StartsAt(t)' BY <1>1, <1>2, <1>8 DEF TaskInv, StartsAt
<1>13. Advance(t) BY <1>1, <1>8 DEF Advance, Row
<1> QED BY <1>5, <1>6, <1>9, <1>10, <1>11, <1>12, <1>13 DEF TaskInv

\* A set_running that matches nothing, or fails, preserves the invariant.
LEMMA NotStartedInv ==
    ASSUME IInv, NEW d \in disp, NEW error \in BOOLEAN, NotStarted(d, error)
    PROVE  IInv'
<1>1. d \in Dispatch BY DEF IInv, TypeOK
<1>2. PICK pc \in {"prestart", "unclaim"} : Goto(d, [d EXCEPT !.pc = pc])
  BY DEF NotStarted
<1>3. PICK e : e = [d EXCEPT !.pc = pc] OBVIOUS
<1>4. e \in Dispatch /\ e.t = d.t /\ e.g = d.g /\ e.rc = d.rc /\ e.unheard = d.unheard
      /\ (Ran(e) <=> Ran(d))
  BY <1>1, <1>2, <1>3 DEF Dispatch, Ran, NotStarted
<1>5. faults' \in Nat BY DEF NotStarted, Fault, IInv, TypeOK
<1>6. UNCHANGED <<row, past, gen, attempts, history, starts, state>> BY DEF NotStarted
<1>7. row' \in [Task -> Row] /\ \A t \in Task : Kept(t)
  BY <1>6, UnchangedKept DEF IInv, TypeOK
<1>8. Goto(d, e) BY <1>2, <1>3
<1> QED BY <1>4, <1>5, <1>6, <1>7, <1>8, QuietMove

\* So does the pre-start expiry, although its fence names the worker only.
LEMMA ExpireBeforeStartInv ==
    ASSUME IInv, NEW d \in disp, NEW applied \in BOOLEAN, ExpireBeforeStart(d, applied)
    PROVE  IInv'
<1>1. d \in Dispatch /\ d.t \in Task BY DEF IInv, TypeOK, Dispatch
<1>2. faults' \in Nat BY DEF ExpireBeforeStart, Fault, IInv, TypeOK
<1>3. /\ disp' \subseteq disp /\ inDispatch' \in [Worker -> SUBSET Task]
      /\ disp' \subseteq Dispatch
  BY EndType DEF IInv, ExpireBeforeStart
<1>4. CASE UNCHANGED <<row, history>>
  <2>1. UNCHANGED <<row, past, gen, attempts, history, starts, state>>
    BY <1>4 DEF ExpireBeforeStart
  <2>2. \A t \in Task : Kept(t) BY <2>1, UnchangedKept
  <2> QED BY <1>2, <1>3, <2>1, <2>2, QuietShrink DEF IInv, TypeOK
<1>5. CASE row[d.t].status = "CLAIMED" /\ Move(d.t, "EXPIRE_CLAIMED", 0)
  <2>1. UNCHANGED <<gen, starts, past, attempts, state>> BY DEF ExpireBeforeStart
  <2>2. \A u \in Task : TaskInv(u)' /\ Advance(u)
    BY <1>1, <1>5, <2>1, MoveUnrun DEF Kinds, RunKinds
  <2>3. row' \in [Task -> Row] /\ history' \in [Task -> Verdict]
    BY <1>1, <1>5, MoveType DEF IInv, Kinds
  <2>4. TypeOK' BY <1>2, <1>3, <2>1, <2>3 DEF IInv, TypeOK
  <2> QED BY <1>3, <2>2, <2>4, DispatchShrinks DEF IInv
<1> QED BY <1>4, <1>5 DEF ExpireBeforeStart

\* So does the unclaim.
LEMMA UnclaimInv ==
    ASSUME IInv, NEW d \in disp, NEW applied \in BOOLEAN, Unclaim(d, applied)
    PROVE  IInv'
<1>1. d \in Dispatch /\ d.t \in Task BY DEF IInv, TypeOK, Dispatch
<1>2. faults' \in Nat BY DEF Unclaim, Fault, IInv, TypeOK
<1>3. /\ disp' \subseteq disp /\ inDispatch' \in [Worker -> SUBSET Task]
      /\ disp' \subseteq Dispatch
  BY EndType DEF IInv, Unclaim
<1>4. UNCHANGED <<past, gen, attempts, history, starts, state>> BY DEF Unclaim
<1>5. CASE UNCHANGED row
  <2>1. \A t \in Task : Kept(t) BY <1>4, <1>5, UnchangedKept
  <2> QED BY <1>2, <1>3, <1>4, <1>5, <2>1, QuietShrink DEF IInv, TypeOK
<1>6. CASE row[d.t].status = "CLAIMED" /\ row' = [row EXCEPT ![d.t] = Released(@)]
  <2>1. row' \in [Task -> Row] /\ \A u \in Task : TaskInv(u)' /\ Advance(u)
    BY <1>1, <1>4, <1>6, ReleaseTask
  <2>2. TypeOK' BY <1>2, <1>3, <1>4, <2>1 DEF IInv, TypeOK
  <2> QED BY <1>3, <2>1, <2>2, DispatchShrinks DEF IInv
<1> QED BY <1>5, <1>6 DEF Unclaim, OwnsClaim

\* So does the end of the user code.
LEMMA FinishInv ==
    ASSUME IInv, NEW d \in disp, Finish(d)
    PROVE  IInv'
<1>1. d \in Dispatch BY DEF IInv, TypeOK
<1>2. PICK r \in {"ok", "fail", "retriable"}, pc \in {"stamping", "persist"} :
         Goto(d, [d EXCEPT !.res = r, !.pc = pc])
  BY DEF Finish
<1>3. PICK e : e = [d EXCEPT !.res = r, !.pc = pc] OBVIOUS
<1>4. e \in Dispatch /\ e.t = d.t /\ e.g = d.g /\ e.rc = d.rc /\ e.unheard = d.unheard
      /\ (Ran(e) <=> Ran(d))
  BY <1>1, <1>2, <1>3 DEF Dispatch, Ran, Finish
<1>5. UNCHANGED <<row, past, gen, attempts, history, starts, state, faults>> BY DEF Finish
<1>6. row' \in [Task -> Row] /\ faults' \in Nat /\ \A t \in Task : Kept(t)
  BY <1>5, UnchangedKept DEF IInv, TypeOK
<1>7. Goto(d, e) BY <1>2, <1>3
<1> QED BY <1>4, <1>5, <1>6, <1>7, QuietMove

\* So does the finalizing stamp.
LEMMA StampInv ==
    ASSUME IInv, NEW d \in disp, NEW applied \in BOOLEAN, Stamp(d, applied)
    PROVE  IInv'
<1>1. d \in Dispatch /\ d.t \in Task BY DEF IInv, TypeOK, Dispatch
<1>2. PICK e : e = [d EXCEPT !.pc = "persist"] OBVIOUS
<1>3. e \in Dispatch /\ e.t = d.t /\ e.g = d.g /\ e.rc = d.rc /\ e.unheard = d.unheard
      /\ (Ran(e) <=> Ran(d))
  BY <1>1, <1>2 DEF Dispatch, Ran, Stamp
<1>4. faults' \in Nat BY DEF Stamp, Fault, IInv, TypeOK
<1>5. UNCHANGED <<past, gen, attempts, history, starts, state>> BY DEF Stamp
<1>6. row' \in [Task -> Row] /\ \A t \in Task : Kept(t)
  <2>1. CASE UNCHANGED row BY <1>5, <2>1, UnchangedKept DEF IInv, TypeOK
  <2>2. CASE row' = [row EXCEPT ![d.t].finalizing = "fresh"]
    <3>1. row[d.t] \in Row BY <1>1 DEF IInv, TypeOK
    <3>2. PICK r : r = [row[d.t] EXCEPT !.finalizing = "fresh"] OBVIOUS
    <3>3. /\ r \in Row /\ r.status = row[d.t].status /\ r.claimedAt = row[d.t].claimedAt
          /\ r.startedAt = row[d.t].startedAt /\ r.retry = row[d.t].retry
      BY <3>1, <3>2 DEF Row
    <3> QED BY <1>1, <1>5, <2>2, <3>2, <3>3, RowKept
  <2> QED BY <2>1, <2>2 DEF Stamp
<1>7. Goto(d, e) BY <1>2 DEF Stamp
<1> QED BY <1>3, <1>4, <1>5, <1>6, <1>7, QuietMove

\* Of both terminal writes of a run, whether or not their reply arrives.
LEMMA SettleInv ==
    ASSUME IInv, NEW d \in disp, NEW heard \in BOOLEAN, NEW kind \in RunKinds, OwnsRun(d),
           SetAttempt(d.t, row[d.t].retry + 1, "final"), Move(d.t, kind, d.g),
           Answer(d, d, heard), UNCHANGED <<past, gen, starts, state>>
    PROVE  IInv'
<1>1. d \in Dispatch /\ d.t \in Task BY DEF IInv, TypeOK, Dispatch
<1>2. /\ disp' \subseteq disp /\ inDispatch' \in [Worker -> SUBSET Task]
      /\ faults' \in Nat
  <2>1. CASE End(d) /\ UNCHANGED faults BY <2>1, EndType DEF IInv, TypeOK
  <2>2. CASE Goto(d, d) /\ Fault BY <2>2 DEF Goto, Fault, IInv, TypeOK
  <2> QED BY <2>1, <2>2 DEF Answer
<1>3. row[d.t].startedAt = d.g BY <1>1 DEF IInv, TaskInv, ClockAt, OwnsRun
<1>4. d.g \in Nat BY <1>1 DEF Dispatch
<1>5. \A u \in Task : TaskInv(u)' /\ Advance(u)
  BY <1>1, <1>3, <1>4, MoveRun DEF OwnsRun
<1>6. row' \in [Task -> Row] /\ history' \in [Task -> Verdict]
  BY <1>1, <1>4, MoveType DEF IInv, Kinds
<1>7. attempts' \in [Task -> [1 .. MaxRetries + 1 -> {"none", "retried", "final"}]]
  BY <1>1, AttemptType DEF IInv
<1>8. TypeOK' BY <1>2, <1>6, <1>7 DEF IInv, TypeOK
<1> QED BY <1>2, <1>5, <1>8, DispatchShrinks DEF IInv

\* complete_fused preserves the invariant.
LEMMA CompleteInv ==
    ASSUME IInv, NEW d \in disp, NEW heard \in BOOLEAN, Complete(d, heard)
    PROVE  IInv'
BY SettleInv DEF Complete, RunKinds

\* fail_locked preserves the invariant.
LEMMA FailLockedInv ==
    ASSUME IInv, NEW d \in disp, NEW heard \in BOOLEAN, FailLocked(d, heard)
    PROVE  IInv'
BY SettleInv DEF FailLocked, RunKinds

\* The retry transaction preserves the invariant, heard or not.
LEMMA RequeueInv ==
    ASSUME IInv, NEW d \in disp, NEW heard \in BOOLEAN, Requeue(d, heard)
    PROVE  IInv'
<1>1. d \in Dispatch /\ d.t \in Task BY DEF IInv, TypeOK, Dispatch
<1>2. BornAt(d) /\ Ran(d) BY DEF IInv, Requeue, Ran
<1>3. row[d.t].status = "RUNNING" /\ row[d.t].retry = d.rc /\ d.rc < MaxRetries
  BY <1>2 DEF BornAt, Requeue, OwnsStart, WantsRetry
<1>4. row' \in [Task -> Row] /\ \A u \in Task : TaskInv(u)' /\ Advance(u)
  BY <1>1, <1>3, RetryTask DEF Requeue
<1>5. attempts' \in [Task -> [1 .. MaxRetries + 1 -> {"none", "retried", "final"}]]
  BY <1>1, AttemptType DEF IInv, Requeue
<1>6. UNCHANGED <<past, gen, history, starts, state>> BY DEF Requeue
<1>7. CASE End(d) /\ UNCHANGED faults
  <2>1. TypeOK' BY <1>4, <1>5, <1>6, <1>7, EndType DEF IInv, TypeOK
  <2> QED BY <1>4, <1>7, <2>1, EndType, DispatchShrinks DEF IInv
<1>8. CASE Goto(d, [d EXCEPT !.unheard = TRUE]) /\ Fault
  <2>1. PICK e : e = [d EXCEPT !.unheard = TRUE] OBVIOUS
  <2>2. Goto(d, e) BY <1>8, <2>1
  <2>3. /\ e \in Dispatch /\ e.t = d.t /\ e.g = d.g /\ e.rc = d.rc
        /\ e.pc = d.pc
    BY <1>1, <2>1 DEF Dispatch
  <2>4. TypeOK'
    <3>1. faults' \in Nat BY <1>8 DEF Fault, IInv, TypeOK
    <3>2. disp' \subseteq Dispatch /\ inDispatch' = inDispatch
      BY <2>2, <2>3 DEF Goto, IInv, TypeOK
    <3>3. row' \in [Task -> Row] BY <1>4
    <3> QED BY <1>5, <1>6, <3>1, <3>2, <3>3 DEF IInv, TypeOK
  <2>5. row'[d.t].status = "PENDING" /\ row'[d.t].startedAt = row[d.t].startedAt
    <3>1. row[d.t] \in Row BY <1>1 DEF IInv, TypeOK
    <3> QED BY <1>1, <3>1 DEF Requeue, Rescheduled, IInv, TypeOK, Row
  <2>6. BornAt(e)' BY <1>2, <1>6, <2>3, <2>5 DEF BornAt, Ran
  <2>7. Ran(e) => Ran(d) BY <2>3 DEF Ran
  <2> QED BY <1>4, <2>2, <2>3, <2>4, <2>6, <2>7, DispatchMoves DEF IInv, Goto
<1> QED BY <1>7, <1>8 DEF Requeue, Answer

\* Of a dispatch that goes on with another pc, the row being left alone.
LEMMA PcMove ==
    ASSUME IInv, NEW d \in disp, Ran(d),
           NEW pc \in {"persist", "failing"}, Goto(d, [d EXCEPT !.pc = pc]), faults' \in Nat,
           UNCHANGED <<row, past, gen, attempts, history, starts, state>>
    PROVE  IInv'
<1>1. d \in Dispatch BY DEF IInv, TypeOK
<1>2. PICK e : e = [d EXCEPT !.pc = pc] OBVIOUS
<1>3. e \in Dispatch /\ e.t = d.t /\ e.g = d.g /\ e.rc = d.rc /\ e.unheard = d.unheard
      /\ (Ran(e) <=> Ran(d))
  BY <1>1, <1>2 DEF Dispatch, Ran
<1>4. row' \in [Task -> Row] /\ \A t \in Task : Kept(t)
  BY UnchangedKept DEF IInv, TypeOK
<1>5. Goto(d, e) BY <1>2
<1> QED BY <1>3, <1>4, <1>5, QuietMove

\* Of a dispatch that ends, the row being left alone.
LEMMA QuietEnd ==
    ASSUME IInv, NEW d \in disp, End(d), faults' \in Nat,
           UNCHANGED <<row, past, gen, attempts, history, starts, state>>
    PROVE  IInv'
<1>1. /\ disp' \subseteq disp /\ inDispatch' \in [Worker -> SUBSET Task]
  BY EndType DEF IInv
<1>2. \A t \in Task : Kept(t) BY UnchangedKept
<1> QED BY <1>1, <1>2, QuietShrink DEF IInv, TypeOK

\* The fall from the retry to the failure preserves the invariant.
LEMMA FallThroughInv ==
    ASSUME IInv, NEW d \in disp, FallThrough(d)
    PROVE  IInv'
<1>1. Ran(d) /\ faults' \in Nat BY DEF FallThrough, Ran, IInv, TypeOK
<1> QED BY <1>1, PcMove DEF FallThrough

\* So does a finalization whose fenced read matches nothing.
LEMMA FinalizeMissInv ==
    ASSUME IInv, NEW d \in disp, FinalizeMiss(d)
    PROVE  IInv'
<1>1. faults' \in Nat BY DEF FinalizeMiss, IInv, TypeOK
<1> QED BY <1>1, QuietEnd DEF FinalizeMiss

\* So does a finalizing transaction that fails.
LEMMA PhaseErrorInv ==
    ASSUME IInv, NEW d \in disp, PhaseError(d)
    PROVE  IInv'
<1>1. Ran(d) /\ faults' \in Nat BY DEF PhaseError, Fault, Ran, IInv, TypeOK
<1>2. UNCHANGED <<row, past, gen, attempts, history, starts, state>> BY DEF PhaseError
<1>3. CASE End(d) BY <1>1, <1>2, <1>3, QuietEnd
<1>4. ASSUME NEW pc \in {"persist", "failing"}, Goto(d, [d EXCEPT !.pc = pc])
      PROVE  IInv'
  BY <1>1, <1>2, <1>4, PcMove
<1> QED BY <1>3, <1>4 DEF PhaseError

\* Of a step of time, of a heartbeat or of a lease on one row.
LEMMA QuietRow ==
    ASSUME IInv, NEW t \in Task, NEW r \in Row, row' = [row EXCEPT ![t] = r],
           r.status = row[t].status, r.claimedAt = row[t].claimedAt,
           r.startedAt = row[t].startedAt, r.retry = row[t].retry, faults' \in Nat,
           UNCHANGED <<past, gen, attempts, history, starts, disp, inDispatch, state>>
    PROVE  IInv'
<1>1. row' \in [Task -> Row] /\ \A u \in Task : Kept(u) BY RowKept
<1> QED BY <1>1, QuietShrink DEF IInv, TypeOK

\* A runner heartbeat preserves the invariant.
LEMMA RunnerBeatInv ==
    ASSUME IInv, NEW d \in disp, RunnerBeat(d)
    PROVE  IInv'
<1>1. d.t \in Task /\ row[d.t] \in Row BY DEF IInv, TypeOK, Dispatch
<1>2. PICK r : r = [row[d.t] EXCEPT !.beat = "fresh"] OBVIOUS
<1>3. /\ r \in Row /\ r.status = row[d.t].status /\ r.claimedAt = row[d.t].claimedAt
      /\ r.startedAt = row[d.t].startedAt /\ r.retry = row[d.t].retry
  BY <1>1, <1>2 DEF Row
<1>4. row' = [row EXCEPT ![d.t] = r] BY <1>2 DEF RunnerBeat
<1>5. faults' \in Nat BY DEF RunnerBeat, IInv, TypeOK
<1> QED BY <1>1, <1>3, <1>4, <1>5, QuietRow DEF RunnerBeat

\* The renewal of a worker's leases preserves the invariant.
LEMMA RenewLeaseInv ==
    ASSUME IInv, NEW w \in Worker, RenewLease(w)
    PROVE  IInv'
<1>1. \A t \in Task : row[t] \in Row BY DEF IInv, TypeOK
<1>2. \A t \in Task : row'[t] = row[t] \/ row'[t] = [row[t] EXCEPT !.lease = "held"]
  BY DEF RenewLease
<1>3. \A t \in Task : /\ row'[t] \in Row
                      /\ row'[t].status = row[t].status
                      /\ row'[t].claimedAt = row[t].claimedAt
                      /\ row'[t].startedAt = row[t].startedAt
                      /\ row'[t].retry = row[t].retry
  <2> TAKE t \in Task
  <2>1. row[t] \in Row BY <1>1
  <2>2. CASE row'[t] = row[t] BY <2>1, <2>2
  <2>3. CASE row'[t] = [row[t] EXCEPT !.lease = "held"] BY <2>1, <2>3 DEF Row
  <2> QED BY <1>2, <2>2, <2>3
<1>4. row' \in [Task -> Row]
  <2>1. row' = [t \in Task |-> row'[t]] BY DEF RenewLease
  <2> QED BY <1>3, <2>1
<1>5. \A t \in Task : Kept(t) BY <1>3 DEF Kept, RenewLease, IInv, TaskInv, ClockAt
<1> QED BY <1>4, <1>5, QuietShrink DEF RenewLease, IInv, TypeOK

\* The passing of time preserves the invariant.
LEMMA TimeInv ==
    ASSUME IInv, NEW t \in Task, Time(t)
    PROVE  IInv'
<1>1. row[t] \in Row BY DEF IInv, TypeOK
<1>2. CASE LeaseLapses(t)
  <2>1. PICK r : r = [row[t] EXCEPT !.lease = "lapsed"] OBVIOUS
  <2>2. /\ r \in Row /\ r.status = row[t].status /\ r.claimedAt = row[t].claimedAt
        /\ r.startedAt = row[t].startedAt /\ r.retry = row[t].retry
    BY <1>1, <2>1 DEF Row
  <2>3. row' = [row EXCEPT ![t] = r] /\ faults' \in Nat
    BY <1>2, <2>1 DEF LeaseLapses, Fault, IInv, TypeOK
  <2> QED BY <1>2, <2>2, <2>3, QuietRow DEF LeaseLapses
<1>3. CASE ClaimAges(t)
  <2>1. PICK r : r = [row[t] EXCEPT !.old = TRUE] OBVIOUS
  <2>2. /\ r \in Row /\ r.status = row[t].status /\ r.claimedAt = row[t].claimedAt
        /\ r.startedAt = row[t].startedAt /\ r.retry = row[t].retry
    BY <1>1, <2>1 DEF Row
  <2>3. row' = [row EXCEPT ![t] = r] /\ faults' \in Nat
    BY <1>3, <2>1 DEF ClaimAges, Fault, IInv, TypeOK
  <2> QED BY <1>3, <2>2, <2>3, QuietRow DEF ClaimAges
<1>4. CASE BeatGoesStale(t)
  <2>1. PICK r : r = [row[t] EXCEPT !.beat = "stale"] OBVIOUS
  <2>2. /\ r \in Row /\ r.status = row[t].status /\ r.claimedAt = row[t].claimedAt
        /\ r.startedAt = row[t].startedAt /\ r.retry = row[t].retry
    BY <1>1, <2>1 DEF Row
  <2>3. row' = [row EXCEPT ![t] = r] /\ faults' \in Nat
    BY <1>4, <2>1 DEF BeatGoesStale, Fault, IInv, TypeOK
  <2> QED BY <1>4, <2>2, <2>3, QuietRow DEF BeatGoesStale
<1>5. CASE StampGoesStale(t)
  <2>1. PICK r : r = [row[t] EXCEPT !.finalizing = "stale"] OBVIOUS
  <2>2. /\ r \in Row /\ r.status = row[t].status /\ r.claimedAt = row[t].claimedAt
        /\ r.startedAt = row[t].startedAt /\ r.retry = row[t].retry
    BY <1>1, <2>1 DEF Row
  <2>3. row' = [row EXCEPT ![t] = r] /\ faults' \in Nat
    BY <1>5, <2>1 DEF StampGoesStale, IInv, TypeOK
  <2> QED BY <1>5, <2>2, <2>3, QuietRow DEF StampGoesStale
<1>6. CASE BackoffOver(t)
  <2>1. PICK r : r = [row[t] EXCEPT !.due = TRUE] OBVIOUS
  <2>2. /\ r \in Row /\ r.status = row[t].status /\ r.claimedAt = row[t].claimedAt
        /\ r.startedAt = row[t].startedAt /\ r.retry = row[t].retry
    BY <1>1, <2>1 DEF Row
  <2>3. row' = [row EXCEPT ![t] = r] /\ faults' \in Nat
    BY <1>6, <2>1 DEF BackoffOver, IInv, TypeOK
  <2> QED BY <1>6, <2>2, <2>3, QuietRow DEF BackoffOver
<1>7. CASE DeadlinePasses(t)
  <2>1. \A u \in Task : Kept(u)
    BY <1>7 DEF DeadlinePasses, Kept, IInv, TypeOK, TaskInv, ClockAt
  <2>2. past' \in [Task -> BOOLEAN] BY <1>7 DEF DeadlinePasses, IInv, TypeOK
  <2> QED BY <1>7, <2>1, <2>2, QuietShrink DEF DeadlinePasses, IInv, TypeOK
<1> QED BY <1>2, <1>3, <1>4, <1>5, <1>6, <1>7 DEF Time

\* Every part of a reaper pass preserves the invariant.
LEMMA ReaperInv ==
    ASSUME IInv, NEW t \in Task, Reaper(t)
    PROVE  IInv'
<1>1. CASE RequeueStaleClaimed(t)
  <2>1. row' \in [Task -> Row] /\ \A u \in Task : TaskInv(u)' /\ Advance(u)
    BY <1>1, ReleaseTask DEF RequeueStaleClaimed
  <2>2. TypeOK' BY <1>1, <2>1 DEF RequeueStaleClaimed, IInv, TypeOK
  <2> QED BY <1>1, <2>1, <2>2, DispatchShrinks DEF RequeueStaleClaimed, IInv
<1>2. CASE ReapRetry(t)
  <2>1. row' \in [Task -> Row] /\ \A u \in Task : TaskInv(u)' /\ Advance(u)
    BY <1>2, RetryTask DEF ReapRetry, StaleRun, CrashRetryAllowed
  <2>2. attempts' \in [Task -> [1 .. MaxRetries + 1 -> {"none", "retried", "final"}]]
    BY <1>2, AttemptType DEF IInv, ReapRetry
  <2>3. TypeOK' BY <1>2, <2>1, <2>2 DEF ReapRetry, IInv, TypeOK
  <2> QED BY <1>2, <2>1, <2>3, DispatchShrinks DEF ReapRetry, IInv
<1>3. CASE ReapFail(t)
  <2>1. \A u \in Task : TaskInv(u)' /\ Advance(u)
    BY <1>3, MoveRun DEF ReapFail, StaleRun, RunKinds
  <2>2. row' \in [Task -> Row] /\ history' \in [Task -> Verdict]
    BY <1>3, MoveType DEF ReapFail, IInv, Kinds
  <2>3. attempts' \in [Task -> [1 .. MaxRetries + 1 -> {"none", "retried", "final"}]]
    BY <1>3, AttemptType DEF IInv, ReapFail
  <2>4. TypeOK' BY <1>3, <2>2, <2>3 DEF ReapFail, IInv, TypeOK
  <2> QED BY <1>3, <2>1, <2>4, DispatchShrinks DEF ReapFail, IInv
<1>4. CASE ExpirePending(t)
  <2>1. \A u \in Task : TaskInv(u)' /\ Advance(u)
    BY <1>4, MoveUnrun DEF ExpirePending, Kinds, RunKinds
  <2>2. row' \in [Task -> Row] /\ history' \in [Task -> Verdict]
    BY <1>4, MoveType DEF ExpirePending, IInv, Kinds
  <2>3. TypeOK' BY <1>4, <2>2 DEF ExpirePending, IInv, TypeOK
  <2> QED BY <1>4, <2>1, <2>3, DispatchShrinks DEF ExpirePending, IInv
<1> QED BY <1>1, <1>2, <1>3, <1>4 DEF Reaper

\* The operator's cancellation preserves the invariant.
LEMMA AdminCancelInv ==
    ASSUME IInv, NEW t \in Task, AdminCancel(t)
    PROVE  IInv'
<1>1. \A u \in Task : TaskInv(u)' /\ Advance(u)
  BY MoveUnrun DEF AdminCancel, Kinds, RunKinds
<1>2. row' \in [Task -> Row] /\ history' \in [Task -> Verdict]
  BY MoveType DEF AdminCancel, IInv, Kinds
<1>3. TypeOK' BY <1>2 DEF AdminCancel, IInv, TypeOK
<1> QED BY <1>1, <1>3, DispatchShrinks DEF AdminCancel, IInv

\* Every step of a worker's main loop preserves the invariant.
LEMMA WorkerInv ==
    ASSUME IInv, NEW w \in Worker, WorkerStep(w)
    PROVE  IInv'
<1>1. ASSUME Drain(w) \/ Exit(w) PROVE IInv'
  <2>1. UNCHANGED <<row, past, gen, attempts, history, starts>> BY <1>1 DEF Drain, Exit
  <2>2. \A t \in Task : Kept(t) BY <2>1, UnchangedKept
  <2>3. /\ disp' \subseteq disp /\ faults' \in Nat
        /\ state' \in [Worker -> {"up", "draining", "down"}]
        /\ inDispatch' \in [Worker -> SUBSET Task]
    <3>1. CASE Drain(w) BY <3>1 DEF Drain, IInv, TypeOK
    <3>2. CASE Exit(w)
      <4>1. disp' \subseteq disp BY <3>2 DEF Exit
      <4>2. faults' \in Nat BY <3>2 DEF Exit, Fault, IInv, TypeOK
      <4>3. state' \in [Worker -> {"up", "draining", "down"}] BY <3>2 DEF Exit, IInv, TypeOK
      <4>4. inDispatch' \in [Worker -> SUBSET Task] BY <3>2 DEF Exit, IInv, TypeOK
      <4> QED BY <4>1, <4>2, <4>3, <4>4
    <3> QED BY <1>1, <3>1, <3>2
  <2> QED BY <2>1, <2>2, <2>3, QuietShrink DEF IInv, TypeOK
<1> QED BY <1>1, ClaimInv, DispatchBufferedInv, RenewLeaseInv DEF WorkerStep

\* Every step of a spawned execution preserves the invariant.
LEMMA DispatchInv ==
    ASSUME IInv, NEW d \in disp, DispatchStep(d) \/ RunnerBeat(d)
    PROVE  IInv'
BY SetRunningInv, NotStartedInv, ExpireBeforeStartInv, UnclaimInv, StampInv, CompleteInv,
   RequeueInv, FailLockedInv, FinishInv, FallThroughInv, FinalizeMissInv, PhaseErrorInv,
   RunnerBeatInv
   DEF DispatchStep

\* The invariant holds initially.
LEMMA InitInv == Init => IInv
<1> SUFFICES ASSUME Init PROVE IInv
  OBVIOUS
<1> USE LifecycleAssumption
<1>1. TypeOK BY DEF Init, TypeOK, Row, Statuses, Verdict, Kinds, RunKinds
<1>2. \A t \in Task : TaskInv(t)
  BY DEF Init, TaskInv, ClockAt, SettledAt, LedgerAt, StartsAt, RunKinds
<1>3. \A d \in disp : BornAt(d) BY DEF Init
<1>4. OneRunPerClaim BY DEF Init, OneRunPerClaim
<1> QED BY <1>1, <1>2, <1>3, <1>4 DEF IInv

\* Every step preserves the invariant.
LEMMA NextInv == IInv /\ [Next]_vars => IInv'
<1> SUFFICES ASSUME IInv, [Next]_vars PROVE IInv'
  OBVIOUS
<1>1. CASE UNCHANGED vars
  BY <1>1 DEF vars, IInv, TypeOK, TaskInv, ClockAt, SettledAt, LedgerAt, StartsAt, BornAt,
              OneRunPerClaim, Ran
<1>2. CASE Next
  <2>1. CASE Idle BY <1>1, <2>1 DEF Idle
  <2> QED BY <1>2, <2>1, WorkerInv, DispatchInv, ReaperInv, TimeInv, AdminCancelInv DEF Next
<1> QED BY <1>1, <1>2

\* The invariant holds in every reachable state of the lifecycle.
THEOREM Inductive == Spec => []IInv
BY InitInv, NextInv, PTL DEF Spec

\* Every reachable state of rows, dispatches and workers is well typed.
THEOREM TypeCorrect == Spec => []TypeOK
<1>1. IInv => TypeOK BY DEF IInv
<1> QED BY <1>1, Inductive, PTL

\* No claim is executed twice, whatever the number of workers and of
\* dispatches of one claim.
THEOREM OneRun == Spec => []OneRunPerClaim
<1>1. IInv => OneRunPerClaim BY DEF IInv
<1> QED BY <1>1, Inductive, PTL

\* The archived result is that of the latest run, for any number of workers,
\* tasks, retries and faults: the fence on claimed_at is sufficient.
THEOREM LatestRun == Spec => []LatestRunSettles
<1>1. IInv => LatestRunSettles BY DEF IInv, TaskInv, SettledAt, LatestRunSettles
<1> QED BY <1>1, Inductive, PTL

\* The attempt rows account exactly for the retries and the settled runs.
THEOREM Ledger == Spec => []AttemptLedger
<1>1. IInv => AttemptLedger BY DEF IInv, TaskInv, LedgerAt, AttemptLedger
<1> QED BY <1>1, Inductive, PTL

\* User code starts at most once per counted attempt.
THEOREM Starts == Spec => []StartsBounded
<1>1. IInv => StartsBounded BY DEF IInv, TaskInv, StartsAt, StartsBounded
<1> QED BY <1>1, Inductive, PTL

\* A retry whose reply was lost is never also reported as a failure.
THEOREM LostRetry == Spec => []LostRetryCannotFail
<1>1. IInv => LostRetryCannotFail
  <2> SUFFICES ASSUME IInv, NEW d \in disp, d.unheard, OwnsRun(d) PROVE FALSE
    BY DEF LostRetryCannotFail
  <2>1. d.t \in Task BY DEF IInv, TypeOK, Dispatch
  <2> QED BY <2>1 DEF IInv, BornAt, TaskInv, ClockAt, OwnsRun
<1> QED BY <1>1, Inductive, PTL

-----------------------------------------------------------------------------
(* Dispatches that lost their claim.                                       *)

\* SupersededOnlyExpires, of one dispatch.
EndsQuietly(d) ==
    Superseded(d) => \/ row'[d.t] = row[d.t]
                     \/ past[d.t] /\ history'[d.t].kind = "EXPIRE_CLAIMED"

\* Each write of a dispatch is fenced on its claim, but for the expiry; the
\* retry is fenced on the start, which is that of the claim while it runs.
LEMMA DispatchQuiet ==
    ASSUME IInv, NEW d \in disp, DispatchStep(d)
    PROVE  disp \ disp' \subseteq {d} /\ EndsQuietly(d)
<1>1. d \in Dispatch /\ d.t \in Task BY DEF IInv, TypeOK, Dispatch
<1>2. disp \ disp' \subseteq {d}
  BY DEF DispatchStep, SetRunning, NotStarted, ExpireBeforeStart, Unclaim, Stamp, Complete,
         Requeue, FailLocked, Finish, FallThrough, FinalizeMiss, PhaseError, Answer, End, Goto
<1>3. ASSUME row' = row PROVE EndsQuietly(d) BY <1>3 DEF EndsQuietly
<1>4. ASSUME OwnsClaim(d) \/ OwnsRun(d) PROVE EndsQuietly(d)
  BY <1>4 DEF EndsQuietly, Superseded, OwnsClaim, OwnsRun
<1>5. ASSUME NEW heard \in BOOLEAN,
             \/ SetRunning(d, heard) \/ Complete(d, heard) \/ FailLocked(d, heard)
      PROVE  EndsQuietly(d)
  BY <1>4, <1>5 DEF SetRunning, CanStart, Complete, FailLocked
<1>6. ASSUME NEW heard \in BOOLEAN, Unclaim(d, heard) \/ Stamp(d, heard)
      PROVE  EndsQuietly(d)
  BY <1>3, <1>4, <1>6 DEF Unclaim, Stamp
<1>7. ASSUME NEW heard \in BOOLEAN, Requeue(d, heard) PROVE EndsQuietly(d)
  <2>1. OwnsStart(d) BY <1>7 DEF Requeue
  <2>2. ClockAt(d.t) BY <1>1 DEF IInv, TaskInv
  <2>3. OwnsRun(d) BY <2>1, <2>2 DEF OwnsStart, OwnsRun, ClockAt
  <2> QED BY <1>4, <2>3
<1>8. ASSUME NEW applied \in BOOLEAN, ExpireBeforeStart(d, applied) PROVE EndsQuietly(d)
  <2>1. CASE row' = row BY <1>3, <2>1
  <2>2. CASE row' # row
    <3>1. past[d.t] /\ Move(d.t, "EXPIRE_CLAIMED", 0)
      BY <1>8, <2>2 DEF ExpireBeforeStart
    <3>2. history'[d.t].kind = "EXPIRE_CLAIMED"
      BY <1>1, <3>1 DEF Move, IInv, TypeOK
    <3> QED BY <3>1, <3>2 DEF EndsQuietly
  <2> QED BY <2>1, <2>2
<1>9. ASSUME NEW error \in BOOLEAN,
             \/ NotStarted(d, error) \/ Finish(d) \/ FallThrough(d) \/ FinalizeMiss(d)
             \/ PhaseError(d)
      PROVE  EndsQuietly(d)
  BY <1>3, <1>9 DEF NotStarted, Finish, FallThrough, FinalizeMiss, PhaseError
<1> QED BY <1>2, <1>5, <1>6, <1>7, <1>8, <1>9 DEF DispatchStep

\* Whoever else ends a dispatch leaves the rows alone.
LEMMA OthersQuiet ==
    ASSUME IInv, \/ \E w \in Worker : WorkerStep(w)
                 \/ \E d \in disp : RunnerBeat(d)
                 \/ \E t \in Task : Reaper(t) \/ Time(t) \/ AdminCancel(t)
                 \/ Idle
    PROVE  disp \subseteq disp' \/ row' = row
<1>1. ASSUME NEW w \in Worker, WorkerStep(w) PROVE disp \subseteq disp' \/ row' = row
  <2>1. ASSUME NEW t \in Task, NEW then, Claim(w, t, then) PROVE disp \subseteq disp'
    BY <2>1 DEF Claim, Spawn
  <2>2. ASSUME NEW t \in Task, DispatchBuffered(w, t) PROVE disp \subseteq disp'
    BY <2>2 DEF DispatchBuffered, Spawn
  <2>3. CASE RenewLease(w) \/ Drain(w) \/ Exit(w) BY <2>3 DEF RenewLease, Drain, Exit
  <2> QED BY <1>1, <2>1, <2>2, <2>3 DEF WorkerStep
<1>2. CASE \E d \in disp : RunnerBeat(d) BY <1>2 DEF RunnerBeat
<1>3. ASSUME NEW t \in Task, Reaper(t) \/ Time(t) \/ AdminCancel(t) PROVE disp' = disp
  BY <1>3 DEF Reaper, RequeueStaleClaimed, ReapRetry, ReapFail, ExpirePending, Time,
         LeaseLapses, ClaimAges, BeatGoesStale, StampGoesStale, BackoffOver, DeadlinePasses,
         AdminCancel
<1>4. CASE Idle BY <1>4 DEF Idle, vars
<1> QED BY <1>1, <1>2, <1>3, <1>4

\* A dispatch that lost its claim changes nothing when it ends or moves on, but
\* that it may expire a claim of its own worker past the deadline.
THEOREM SupersededQuiet == Spec => SupersededOnlyExpires
<1>1. IInv /\ [Next]_vars =>
        [\A d \in disp \ disp' : Superseded(d) =>
            \/ row'[d.t] = row[d.t]
            \/ past[d.t] /\ history'[d.t].kind = "EXPIRE_CLAIMED"]_vars
  <2> SUFFICES ASSUME IInv, Next, NEW d \in disp \ disp' PROVE EndsQuietly(d)
    BY DEF EndsQuietly
  <2>1. CASE \E e \in disp : DispatchStep(e) BY <2>1, DispatchQuiet
  <2>2. CASE ~\E e \in disp : DispatchStep(e)
    <3>1. disp \subseteq disp' \/ row' = row BY <2>2, OthersQuiet DEF Next
    <3> QED BY <3>1 DEF EndsQuietly
  <2> QED BY <2>1, <2>2
<1> QED BY <1>1, Inductive, PTL DEF SupersededOnlyExpires, Spec

-----------------------------------------------------------------------------
(* The refinement.  Every step changes what the contract sees of one task  *)
(* at most (Same for all the others).  The inductive invariant gives what  *)
(* the fences alone do not say: a start is newer than the last one, the    *)
(* result a run reports is its own, and a retry is within the budget.      *)

\* What the contract sees of a task stays.
Same(t) ==
    /\ Phase(t)' = Phase(t)
    /\ row'[t].retry = row[t].retry
    /\ row'[t].startedAt = row[t].startedAt
    /\ history'[t] = history[t]

\* A step that leaves what the contract sees of every task is a stutter.
LEMMA Stutter ==
    ASSUME \A t \in Task : Same(t)
    PROVE  UNCHANGED Contract!cvars
<1>1. [t \in Task |-> Phase(t)]' = [t \in Task |-> Phase(t)] BY DEF Same
<1>2. [t \in Task |-> row[t].retry]' = [t \in Task |-> row[t].retry] BY DEF Same
<1>3. [t \in Task |-> row[t].startedAt]' = [t \in Task |-> row[t].startedAt] BY DEF Same
<1>4. [t \in Task |-> [kind |-> OutcomeOf[history[t].kind], by |-> history[t].result]]'
      = [t \in Task |-> [kind |-> OutcomeOf[history[t].kind], by |-> history[t].result]]
  BY DEF Same
<1> QED BY <1>1, <1>2, <1>3, <1>4 DEF Contract!cvars

\* The start of a newer run is the contract's Begin.
LEMMA BeginStep ==
    ASSUME NEW t \in Task, \A u \in Task \ {t} : Same(u),
           Phase(t) = "waiting", Phase(t)' = "running",
           row'[t].startedAt > row[t].startedAt,
           row'[t].retry = row[t].retry, history'[t] = history[t]
    PROVE  Contract!Begin(t)
<1>1. [u \in Task |-> Phase(u)]' = [[u \in Task |-> Phase(u)] EXCEPT ![t] = "running"]
  BY DEF Same
<1>2. [u \in Task |-> row[u].retry]' = [u \in Task |-> row[u].retry] BY DEF Same
<1>3. [u \in Task |-> row[u].startedAt]'
      = [[u \in Task |-> row[u].startedAt] EXCEPT ![t] = row'[t].startedAt]
  BY DEF Same
<1>4. [u \in Task |-> [kind |-> OutcomeOf[history[u].kind], by |-> history[u].result]]'
      = [u \in Task |-> [kind |-> OutcomeOf[history[u].kind], by |-> history[u].result]]
  BY DEF Same
<1> QED BY <1>1, <1>2, <1>3, <1>4 DEF Contract!Begin

\* A counted retry within the budget is the contract's TryAgain.
LEMMA TryAgainStep ==
    ASSUME NEW t \in Task, \A u \in Task \ {t} : Same(u),
           Phase(t) = "running", Phase(t)' = "waiting",
           row[t].retry < MaxRetries, row'[t].retry = row[t].retry + 1,
           row'[t].startedAt = row[t].startedAt, history'[t] = history[t]
    PROVE  Contract!TryAgain(t)
<1>1. [u \in Task |-> Phase(u)]' = [[u \in Task |-> Phase(u)] EXCEPT ![t] = "waiting"]
  BY DEF Same
<1>2. [u \in Task |-> row[u].retry]' = [[u \in Task |-> row[u].retry] EXCEPT ![t] = @ + 1]
  BY DEF Same
<1>3. [u \in Task |-> row[u].startedAt]' = [u \in Task |-> row[u].startedAt] BY DEF Same
<1>4. [u \in Task |-> [kind |-> OutcomeOf[history[u].kind], by |-> history[u].result]]'
      = [u \in Task |-> [kind |-> OutcomeOf[history[u].kind], by |-> history[u].result]]
  BY DEF Same
<1> QED BY <1>1, <1>2, <1>3, <1>4 DEF Contract!TryAgain

\* A move of an unmoved row to the history is a settlement.
LEMMA SettleStep ==
    ASSUME IInv, NEW t \in Task, NEW kind \in Kinds, NEW result, Move(t, kind, result)
    PROVE  Contract!Settle(t, OutcomeOf[kind], result)
<1>1. row[t] \in Row BY DEF IInv, TypeOK
<1>2. row' = [row EXCEPT ![t] = row'[t]] /\ row'[t].status = "MOVED"
      /\ row'[t].retry = row[t].retry /\ row'[t].startedAt = row[t].startedAt
  BY <1>1 DEF Move, IInv, TypeOK, Row
<1>3. history' = [history EXCEPT ![t] = [kind |-> kind, result |-> result]] BY DEF Move
<1>4. \A u \in Task \ {t} : row'[u] = row[u] /\ history'[u] = history[u]
  BY <1>2, <1>3 DEF IInv, TypeOK
<1>5. \A u \in Task \ {t} : Phase(u)' = Phase(u) BY <1>4 DEF Phase
<1>6. Phase(t)' = "settled" BY <1>2 DEF Phase
<1>7. [u \in Task |-> Phase(u)]' = [[u \in Task |-> Phase(u)] EXCEPT ![t] = "settled"]
  BY <1>5, <1>6
<1>8. [u \in Task |-> row[u].retry]' = [u \in Task |-> row[u].retry] BY <1>2, <1>4
<1>9. [u \in Task |-> row[u].startedAt]' = [u \in Task |-> row[u].startedAt] BY <1>2, <1>4
<1>10. history'[t].kind = kind /\ history'[t].result = result
  BY <1>3 DEF IInv, TypeOK
<1>11. [u \in Task |-> [kind |-> OutcomeOf[history[u].kind], by |-> history[u].result]]'
      = [[u \in Task |-> [kind |-> OutcomeOf[history[u].kind], by |-> history[u].result]]
           EXCEPT ![t] = [kind |-> OutcomeOf[kind], by |-> result]]
  BY <1>4, <1>10
<1> QED BY <1>7, <1>8, <1>9, <1>11 DEF Contract!Settle

\* A row rewritten within its phase, with its retry and start: a stutter.
LEMMA RowStutter ==
    ASSUME IInv, NEW t \in Task, NEW r, row' = [row EXCEPT ![t] = r],
           \/ r.status = row[t].status
           \/ {r.status, row[t].status} \subseteq {"PENDING", "CLAIMED"},
           r.retry = row[t].retry, r.startedAt = row[t].startedAt,
           UNCHANGED history
    PROVE  UNCHANGED Contract!cvars
<1>1. row'[t] = r /\ \A u \in Task \ {t} : row'[u] = row[u] BY DEF IInv, TypeOK
<1>2. \A u \in Task \ {t} : Same(u) BY <1>1 DEF Same, Phase
<1>3. CASE r.status = row[t].status
  <2>1. Phase(t)' = Phase(t) BY <1>1, <1>3 DEF Phase
  <2> QED BY <1>1, <1>2, <2>1, Stutter DEF Same
<1>4. CASE {r.status, row[t].status} \subseteq {"PENDING", "CLAIMED"}
  <2>1. Phase(t)' = "waiting" /\ Phase(t) = "waiting" BY <1>1, <1>4 DEF Phase
  <2> QED BY <1>1, <1>2, <2>1, Stutter DEF Same
<1> QED BY <1>3, <1>4

\* Of a step that leaves the tables of tasks alone.
LEMMA TableStutter ==
    ASSUME UNCHANGED <<row, history>>
    PROVE  UNCHANGED Contract!cvars
<1>1. \A t \in Task : Same(t) BY DEF Same, Phase
<1> QED BY <1>1, Stutter

\* The release of a claimed row: a stutter.
LEMMA ReleaseStutter ==
    ASSUME IInv, NEW t \in Task, row[t].status = "CLAIMED",
           row' = [row EXCEPT ![t] = Released(@)], UNCHANGED history
    PROVE  UNCHANGED Contract!cvars
<1>1. row[t] \in Row BY DEF IInv, TypeOK
<1>2. PICK r : r = Released(row[t]) OBVIOUS
<1>3. r.status = "PENDING" /\ r.retry = row[t].retry /\ r.startedAt = row[t].startedAt
  BY <1>1, <1>2 DEF Released, Row
<1>4. row' = [row EXCEPT ![t] = r] BY <1>2
<1> QED BY <1>3, <1>4, RowStutter

\* The requeue of a RUNNING row by its worker or by a reaper.
LEMMA RetryRefines ==
    ASSUME IInv, NEW t \in Task, row[t].status = "RUNNING", row[t].retry < MaxRetries,
           \/ row' = [row EXCEPT ![t] = Rescheduled(@)]
           \/ row' = [row EXCEPT ![t] = Released(Rescheduled(@))],
           UNCHANGED history
    PROVE  Contract!TryAgain(t)
<1>1. row[t] \in Row BY DEF IInv, TypeOK
<1>2. row'[t] \in {Rescheduled(row[t]), Released(Rescheduled(row[t]))} BY DEF IInv, TypeOK
<1>3. /\ row'[t].status = "PENDING" /\ row'[t].startedAt = row[t].startedAt
      /\ row'[t].retry = row[t].retry + 1
  BY <1>1, <1>2 DEF Rescheduled, Released, Row
<1>4. \A u \in Task \ {t} : row'[u] = row[u] BY DEF IInv, TypeOK
<1>5. \A u \in Task \ {t} : Same(u) BY <1>4 DEF Same, Phase
<1>6. Phase(t) = "running" /\ Phase(t)' = "waiting" BY <1>3 DEF Phase
<1> QED BY <1>3, <1>5, <1>6, TryAgainStep

\* A claim, fresh or of a lapsed one, leaves the task waiting.
LEMMA ClaimRefines ==
    ASSUME IInv, NEW w \in Worker, NEW t \in Task, NEW then, Claim(w, t, then)
    PROVE  UNCHANGED Contract!cvars
<1>1. row[t] \in Row BY DEF IInv, TypeOK
<1>2. PICK r : r = [row[t] EXCEPT !.status = "CLAIMED", !.worker = w,
                                  !.claimedAt = gen[t] + 1, !.old = FALSE,
                                  !.lease = IF Leased THEN "held" ELSE "null",
                                  !.finalizing = "none"]
  OBVIOUS
<1>3. r.status = "CLAIMED" /\ r.retry = row[t].retry /\ r.startedAt = row[t].startedAt
  BY <1>1, <1>2 DEF Row
<1>4. row' = [row EXCEPT ![t] = r] /\ UNCHANGED history BY <1>2 DEF Claim
<1>5. row[t].status \in {"PENDING", "CLAIMED"} BY DEF Claim, Claimable
<1> QED BY <1>3, <1>4, <1>5, RowStutter

\* set_running is the contract's Begin: the claim is newer than the last start.
LEMMA SetRunningRefines ==
    ASSUME IInv, NEW d \in disp, NEW heard, SetRunning(d, heard)
    PROVE  Contract!Begin(d.t)
<1>1. d.t \in Task /\ d.g \in Nat /\ row[d.t] \in Row BY DEF IInv, TypeOK, Dispatch
<1>2. row[d.t].status = "CLAIMED" /\ row[d.t].claimedAt = d.g
  BY DEF SetRunning, CanStart, OwnsClaim
<1>3. row[d.t].startedAt < d.g /\ row[d.t].startedAt \in Nat
  BY <1>1, <1>2 DEF IInv, TaskInv, ClockAt, Row
<1>4. /\ row'[d.t].status = "RUNNING" /\ row'[d.t].startedAt = d.g
      /\ row'[d.t].retry = row[d.t].retry
  BY <1>1 DEF SetRunning, IInv, TypeOK, Row
<1>5. history' = history /\ \A u \in Task \ {d.t} : row'[u] = row[u]
  BY <1>1 DEF SetRunning, IInv, TypeOK
<1>6. \A u \in Task \ {d.t} : Same(u) BY <1>5 DEF Same, Phase
<1>7. Phase(d.t) = "waiting" /\ Phase(d.t)' = "running" BY <1>2, <1>4 DEF Phase
<1>8. row'[d.t].startedAt > row[d.t].startedAt BY <1>1, <1>3, <1>4
<1> QED BY <1>1, <1>4, <1>5, <1>6, <1>7, <1>8, BeginStep

\* The terminal writes of a run report that run, which is the current one.
LEMMA ReportRefines ==
    ASSUME IInv, NEW d \in disp, NEW heard, Complete(d, heard) \/ FailLocked(d, heard)
    PROVE  \E kind \in {"completed", "failed"} : Contract!Report(d.t, kind)
<1>1. d.t \in Task BY DEF IInv, TypeOK, Dispatch
<1>2. row[d.t].status = "RUNNING" /\ row[d.t].claimedAt = d.g
  BY DEF Complete, FailLocked, OwnsRun
<1>3. row[d.t].startedAt = d.g BY <1>1, <1>2 DEF IInv, TaskInv, ClockAt
<1>4. [t \in Task |-> Phase(t)][d.t] = "running" BY <1>1, <1>2 DEF Phase
<1>5. [t \in Task |-> row[t].startedAt][d.t] = d.g BY <1>1, <1>3
<1>6. CASE Complete(d, heard)
  <2>1. Move(d.t, "COMPLETE_FUSED", d.g) BY <1>6 DEF Complete
  <2>2. Contract!Settle(d.t, OutcomeOf["COMPLETE_FUSED"], d.g)
    BY <1>1, <2>1, SettleStep DEF Kinds, RunKinds
  <2>3. OutcomeOf["COMPLETE_FUSED"] = "completed" BY DEF OutcomeOf
  <2> QED BY <1>4, <1>5, <2>2, <2>3 DEF Contract!Report, Contract!Settle
<1>7. CASE FailLocked(d, heard)
  <2>1. Move(d.t, "FAIL_RUNNING", d.g) BY <1>7 DEF FailLocked
  <2>2. Contract!Settle(d.t, OutcomeOf["FAIL_RUNNING"], d.g)
    BY <1>1, <2>1, SettleStep DEF Kinds, RunKinds
  <2>3. OutcomeOf["FAIL_RUNNING"] = "failed" BY DEF OutcomeOf
  <2> QED BY <1>4, <1>5, <2>2, <2>3 DEF Contract!Report, Contract!Settle
<1> QED BY <1>6, <1>7

\* The expiry of a waiting row, before its start or by a reaper.
LEMMA ExpiryRefines ==
    ASSUME IInv, NEW t \in Task, NEW kind \in {"EXPIRE_CLAIMED", "EXPIRE_PENDING"},
           row[t].status \in {"PENDING", "CLAIMED"}, past[t], Move(t, kind, 0)
    PROVE  Contract!Expire(t)
<1>1. Contract!Settle(t, OutcomeOf[kind], 0) BY SettleStep DEF Kinds
<1>2. OutcomeOf[kind] = "expired" BY DEF OutcomeOf
<1>3. t \in Deadlined BY DEF IInv, TaskInv, ClockAt
<1>4. Phase(t) = "waiting" BY DEF Phase
<1> QED BY <1>1, <1>2, <1>3, <1>4 DEF Contract!Expire

\* The requeue by the run itself is within the budget of the row, because the
\* dispatch of the current run knows the row's retry_count.
LEMMA RequeueRefines ==
    ASSUME IInv, NEW d \in disp, NEW heard, Requeue(d, heard)
    PROVE  Contract!TryAgain(d.t)
<1>1. d.t \in Task BY DEF IInv, TypeOK, Dispatch
<1>2. row[d.t].status = "RUNNING" /\ row[d.t].startedAt = d.g /\ Ran(d)
  BY DEF Requeue, OwnsStart, Ran
<1>3. row[d.t].retry < MaxRetries
  BY <1>2 DEF IInv, BornAt, Requeue, WantsRetry
<1>4. row' = [row EXCEPT ![d.t] = Rescheduled(@)] /\ UNCHANGED history BY DEF Requeue
<1> QED BY <1>1, <1>2, <1>3, <1>4, RetryRefines

\* Every step of a spawned execution is a step of the contract or a stutter.
LEMMA DispatchRefines ==
    ASSUME IInv, NEW d \in disp, DispatchStep(d) \/ RunnerBeat(d)
    PROVE  Contract!Next \/ UNCHANGED Contract!cvars
<1>1. d.t \in Task /\ row[d.t] \in Row BY DEF IInv, TypeOK, Dispatch
<1>2. ASSUME NEW heard \in BOOLEAN, SetRunning(d, heard) PROVE Contract!Next
  BY <1>1, <1>2, SetRunningRefines DEF Contract!Next
<1>3. ASSUME NEW heard \in BOOLEAN, Complete(d, heard) \/ FailLocked(d, heard)
      PROVE Contract!Next
  BY <1>1, <1>3, ReportRefines DEF Contract!Next
<1>4. ASSUME NEW heard \in BOOLEAN, Requeue(d, heard) PROVE Contract!Next
  BY <1>1, <1>4, RequeueRefines DEF Contract!Next
<1>5. ASSUME NEW heard \in BOOLEAN, ExpireBeforeStart(d, heard)
      PROVE  Contract!Next \/ UNCHANGED Contract!cvars
  <2>1. CASE heard /\ row[d.t].status = "CLAIMED" /\ row[d.t].worker = d.w /\ past[d.t]
    <3>1. Move(d.t, "EXPIRE_CLAIMED", 0) BY <1>5, <2>1 DEF ExpireBeforeStart
    <3> QED BY <1>1, <2>1, <3>1, ExpiryRefines DEF Contract!Next
  <2>2. CASE ~(heard /\ row[d.t].status = "CLAIMED" /\ row[d.t].worker = d.w /\ past[d.t])
    <3>1. UNCHANGED <<row, history>> BY <1>5, <2>2 DEF ExpireBeforeStart
    <3> QED BY <3>1, TableStutter
  <2> QED BY <2>1, <2>2
<1>6. ASSUME NEW heard \in BOOLEAN, Unclaim(d, heard) PROVE UNCHANGED Contract!cvars
  <2>1. UNCHANGED history BY <1>6 DEF Unclaim
  <2>2. CASE heard /\ OwnsClaim(d)
    BY <1>1, <1>6, <2>1, <2>2, ReleaseStutter DEF Unclaim, OwnsClaim
  <2>3. CASE ~(heard /\ OwnsClaim(d))
    <3>1. UNCHANGED row BY <1>6, <2>3 DEF Unclaim
    <3> QED BY <2>1, <3>1, TableStutter
  <2> QED BY <2>2, <2>3
<1>7. ASSUME NEW heard \in BOOLEAN, Stamp(d, heard) PROVE UNCHANGED Contract!cvars
  <2>1. UNCHANGED history BY <1>7 DEF Stamp
  <2>2. CASE heard /\ OwnsRun(d)
    <3>1. PICK r : r = [row[d.t] EXCEPT !.finalizing = "fresh"] OBVIOUS
    <3>2. /\ r.status = row[d.t].status /\ r.retry = row[d.t].retry
          /\ r.startedAt = row[d.t].startedAt
      BY <1>1, <3>1 DEF Row
    <3>3. row' = [row EXCEPT ![d.t] = r] BY <1>7, <2>2, <3>1 DEF Stamp
    <3> QED BY <1>1, <2>1, <3>2, <3>3, RowStutter
  <2>3. CASE ~(heard /\ OwnsRun(d))
    <3>1. UNCHANGED row BY <1>7, <2>3 DEF Stamp
    <3> QED BY <2>1, <3>1, TableStutter
  <2> QED BY <2>2, <2>3
<1>8. ASSUME RunnerBeat(d) PROVE UNCHANGED Contract!cvars
  <2>1. PICK r : r = [row[d.t] EXCEPT !.beat = "fresh"] OBVIOUS
  <2>2. /\ r.status = row[d.t].status /\ r.retry = row[d.t].retry
        /\ r.startedAt = row[d.t].startedAt
    BY <1>1, <2>1 DEF Row
  <2>3. row' = [row EXCEPT ![d.t] = r] /\ UNCHANGED history BY <1>8, <2>1 DEF RunnerBeat
  <2> QED BY <1>1, <2>2, <2>3, RowStutter
<1>9. ASSUME NEW heard \in BOOLEAN,
             \/ NotStarted(d, heard) \/ Finish(d) \/ FallThrough(d) \/ FinalizeMiss(d)
             \/ PhaseError(d)
      PROVE  UNCHANGED Contract!cvars
  <2>1. UNCHANGED <<row, history>>
    BY <1>9 DEF NotStarted, Finish, FallThrough, FinalizeMiss, PhaseError
  <2> QED BY <2>1, TableStutter
<1> QED BY <1>2, <1>3, <1>4, <1>5, <1>6, <1>7, <1>8, <1>9 DEF DispatchStep

\* Every step of a worker's main loop is a stutter: what it claims is waiting.
LEMMA WorkerRefines ==
    ASSUME IInv, NEW w \in Worker, WorkerStep(w)
    PROVE  UNCHANGED Contract!cvars
<1>1. ASSUME NEW t \in Task, DispatchBuffered(w, t) PROVE UNCHANGED Contract!cvars
  BY <1>1, TableStutter DEF DispatchBuffered
<1>2. CASE Drain(w) \/ Exit(w) BY <1>2, TableStutter DEF Drain, Exit
<1>3. CASE RenewLease(w)
  <2>1. \A t \in Task : row[t] \in Row BY DEF IInv, TypeOK
  <2>2. \A t \in Task : row'[t] = row[t] \/ row'[t] = [row[t] EXCEPT !.lease = "held"]
    BY <1>3 DEF RenewLease
  <2>3. \A t \in Task : /\ row'[t].status = row[t].status
                        /\ row'[t].retry = row[t].retry
                        /\ row'[t].startedAt = row[t].startedAt
    BY <2>1, <2>2 DEF Row
  <2>4. UNCHANGED history BY <1>3 DEF RenewLease
  <2>5. \A t \in Task : Same(t) BY <2>3, <2>4 DEF Same, Phase
  <2> QED BY <2>5, Stutter
<1> QED BY <1>1, <1>2, <1>3, ClaimRefines DEF WorkerStep

\* The passing of time is a stutter.
LEMMA TimeRefines ==
    ASSUME IInv, NEW t \in Task, Time(t)
    PROVE  UNCHANGED Contract!cvars
<1>1. row[t] \in Row BY DEF IInv, TypeOK
<1>2. CASE DeadlinePasses(t) BY <1>2, TableStutter DEF DeadlinePasses
<1>3. CASE ~DeadlinePasses(t)
  <2>1. PICK r : /\ row' = [row EXCEPT ![t] = r]
                 /\ r \in {[row[t] EXCEPT !.lease = "lapsed"], [row[t] EXCEPT !.old = TRUE],
                           [row[t] EXCEPT !.beat = "stale"],
                           [row[t] EXCEPT !.finalizing = "stale"],
                           [row[t] EXCEPT !.due = TRUE]}
    BY <1>3 DEF Time, LeaseLapses, ClaimAges, BeatGoesStale, StampGoesStale, BackoffOver
  <2>2. r.status = row[t].status /\ r.retry = row[t].retry /\ r.startedAt = row[t].startedAt
    BY <1>1, <2>1 DEF Row
  <2>3. UNCHANGED history
    BY <1>3 DEF Time, LeaseLapses, ClaimAges, BeatGoesStale, StampGoesStale, BackoffOver
  <2> QED BY <2>1, <2>2, <2>3, RowStutter
<1> QED BY <1>2, <1>3

\* A reaper pass tries again, gives up a lost run, expires or changes nothing.
LEMMA ReaperRefines ==
    ASSUME IInv, NEW t \in Task, Reaper(t)
    PROVE  Contract!Next \/ UNCHANGED Contract!cvars
<1>1. CASE RequeueStaleClaimed(t) BY <1>1, ReleaseStutter DEF RequeueStaleClaimed
<1>2. CASE ReapRetry(t)
  <2>1. Contract!TryAgain(t)
    BY <1>2, RetryRefines DEF ReapRetry, StaleRun, CrashRetryAllowed
  <2> QED BY <2>1 DEF Contract!Next
<1>3. CASE ReapFail(t)
  <2>1. Move(t, "FAIL_STALE", 0) /\ row[t].status = "RUNNING"
    BY <1>3 DEF ReapFail, StaleRun
  <2>2. Contract!Settle(t, OutcomeOf["FAIL_STALE"], 0) BY <2>1, SettleStep DEF Kinds
  <2>3. OutcomeOf["FAIL_STALE"] = "crashed" BY DEF OutcomeOf
  <2>4. Phase(t) = "running" BY <2>1 DEF Phase
  <2> QED BY <2>2, <2>3, <2>4 DEF Contract!Next, Contract!Lose
<1>4. CASE ExpirePending(t)
  <2>1. Contract!Expire(t) BY <1>4, ExpiryRefines DEF ExpirePending
  <2> QED BY <2>1 DEF Contract!Next
<1> QED BY <1>1, <1>2, <1>3, <1>4 DEF Reaper

\* The operator's cancellation is the contract's Cancel.
LEMMA AdminCancelRefines ==
    ASSUME IInv, NEW t \in Task, AdminCancel(t)
    PROVE  Contract!Next
<1>1. Move(t, "CANCEL_ADMIN", 0) /\ row[t].status \in {"PENDING", "CLAIMED", "RUNNING"}
  BY DEF AdminCancel, IInv, TypeOK, Row, Statuses
<1>2. Contract!Settle(t, OutcomeOf["CANCEL_ADMIN"], 0) BY <1>1, SettleStep DEF Kinds
<1>3. OutcomeOf["CANCEL_ADMIN"] = "cancelled" BY DEF OutcomeOf
<1>4. Phase(t) \in {"waiting", "running"} BY <1>1 DEF Phase
<1> QED BY <1>2, <1>3, <1>4 DEF Contract!Next, Contract!Cancel

\* The initial tables are those of the contract.
LEMMA InitRefines == Init => Contract!Init
<1> SUFFICES ASSUME Init PROVE Contract!Init
  OBVIOUS
<1>1. \A t \in Task : Phase(t) = "waiting" BY DEF Init, Phase
<1>2. \A t \in Task : row[t].retry = 0 /\ row[t].startedAt = 0 BY DEF Init
<1>3. \A t \in Task : OutcomeOf[history[t].kind] = "none" /\ history[t].result = 0
  BY DEF Init, OutcomeOf
<1> QED BY <1>1, <1>2, <1>3 DEF Contract!Init, Contract!Unsettled

\* Every step of the lifecycle is a step of the contract or a stutter.
LEMMA NextRefines == IInv /\ [Next]_vars => [Contract!Next]_(Contract!cvars)
<1> SUFFICES ASSUME IInv, [Next]_vars PROVE Contract!Next \/ UNCHANGED Contract!cvars
  OBVIOUS
<1>1. CASE UNCHANGED vars BY <1>1, TableStutter DEF vars
<1>2. CASE Next
  <2>1. CASE Idle BY <1>1, <2>1 DEF Idle
  <2> QED BY <1>2, <2>1, WorkerRefines, DispatchRefines, ReaperRefines, TimeRefines,
             AdminCancelRefines DEF Next
<1> QED BY <1>1, <1>2

\* The task table with its workers, reapers and faults keeps the promise made
\* to a client of one task.
THEOREM Refines == Spec => ImplementsContract
BY Inductive, InitRefines, NextRefines, PTL DEF Spec, ImplementsContract, Contract!Spec
=============================================================================
