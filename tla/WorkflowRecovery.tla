-------------------------- MODULE WorkflowRecovery --------------------------
(***************************************************************************)
(* What every reaper does for workflows in one pass: the audit of the      *)
(* running flows (workflow_engine/recovery.rs), which pages over them with *)
(* a cursor that all reapers share and ends the flows somebody left        *)
(* without an end, and the drive of the phase-2 outbox                     *)
(* (phase2_recovery.rs), beside the workers that finalize their own tasks. *)
(*                                                                         *)
(* A flow has a node whose result goes through the outbox, and nodes that  *)
(* end elsewhere (WorkflowTree).  Workflows are numbered in the order of   *)
(* created_at, which is not the order in which they become visible.        *)
(***************************************************************************)
EXTENDS Naturals, FiniteSets, FiniteSetsExt

CONSTANTS
    Workflow, Reaper, NoReaper,
    Nodes,        \* Nodes[w]: kinds of nodes; "result" goes to the outbox
    Failing,      \* their progression fails each time
    Unreadable,   \* their recorded result may disagree with the outbox row
    Finalizing,   \* flows whose worker lives until phase 2
    Limit,        \* rows of an audit page
    OutLimit,     \* rows of an outbox pass
    Bound,        \* phase2_quarantine_after_attempts
    MaxFaults     \* bound on crashes, failed statements and slow owners

ASSUME RecoveryAssumption ==
    /\ Workflow \subseteq Nat \ {0} /\ IsFiniteSet(Workflow)
    /\ IsFiniteSet(Reaper) /\ NoReaper \notin Reaper
    /\ Nodes \in [Workflow -> SUBSET {"result", "rest"}]
    /\ Failing \subseteq Workflow /\ Unreadable \subseteq Workflow \ Failing
    /\ Finalizing \subseteq Workflow
    /\ Limit \in Nat \ {0} /\ OutLimit \in Nat \ {0}
    /\ Bound \in Nat \ {0} /\ MaxFaults \in Nat

\* Flows that have lost all nodes
Orphans == {w \in Workflow : Nodes[w] = {}}

VARIABLES
    st,         \* horsies_workflows.status
    open,       \* kinds of nodes that are not terminal
    row,        \* horsies_workflow_phase2_pending
    attempts,   \* attempt_count of that row
    cur,        \* horsies_recovery_scan_cursors
    reap,       \* the pass of each reaper
    fin,        \* results whose worker has read the outbox row
    applied,    \* ghost: progressions committed for the result
    faults

vars == <<st, open, row, attempts, cur, reap, fin, applied, faults>>
flows == <<st, open, applied>>
outbox == <<row, attempts>>

\* 0 stands for NULL
Place == Workflow \cup {0}
Cursor == [last : Place, upper : Place, token : Reaper \cup {NoReaper},
           lapsed : BOOLEAN]
Pcs == {"idle", "work", "final", "release", "drive", "row", "consume"}
Pass == [pc : Pcs, complete : SUBSET Workflow, orphan : SUBSET Workflow,
         rows : SUBSET Workflow]
Idle == [pc |-> "idle", complete |-> {}, orphan |-> {}, rows |-> {}]

TypeOK ==
    /\ st \in [Workflow -> {"absent", "RUNNING", "ended"}]
    /\ open \in [Workflow -> SUBSET {"result", "rest"}]
    /\ row \in [Workflow -> {"none", "pending", "spoilt", "gone"}]
    /\ attempts \in [Workflow -> 0..Bound + Cardinality(Reaper)]
    /\ cur \in Cursor
    /\ reap \in [Reaper -> Pass]
    /\ fin \subseteq Workflow
    /\ applied \in [Workflow -> 0..2]
    /\ faults \in 0..MaxFaults

Init ==
    /\ st = [w \in Workflow |-> "absent"]
    /\ open = [w \in Workflow |-> {}]
    /\ row = [w \in Workflow |-> "none"]
    /\ attempts = [w \in Workflow |-> 0]
    /\ cur = [last |-> 0, upper |-> 0, token |-> NoReaper, lapsed |-> FALSE]
    /\ reap = [r \in Reaper |-> Idle]
    /\ fin = {}
    /\ applied = [w \in Workflow |-> 0]
    /\ faults = 0

----------------------------------------------------------------------------
(* Flows.                                                                  *)

\* A flow becomes visible.
Create(w) ==
    /\ st[w] = "absent"
    /\ st' = [st EXCEPT ![w] = "RUNNING"]
    /\ open' = [open EXCEPT ![w] = Nodes[w]]
    /\ UNCHANGED <<outbox, cur, reap, fin, applied, faults>>

\* The rest ends and, when nothing else is open, the process that ended it
\* dies before its completion check: a check that runs is like Stop.
RestEnds(w) ==
    /\ "rest" \in open[w] /\ st[w] = "RUNNING"
    /\ open' = [open EXCEPT ![w] = @ \ {"rest"}]
    /\ UNCHANGED <<st, outbox, cur, reap, fin, applied, faults>>

\* A cancel, or a completion check of somebody else.
Stop(w) ==
    /\ st[w] = "RUNNING"
    /\ st' = [st EXCEPT ![w] = "ended"]
    /\ UNCHANGED <<open, outbox, cur, reap, fin, applied, faults>>

\* The task of the node is terminal: its result is recorded with a row of
\* the outbox.
Recorded == {"pending", "spoilt"}
Terminalize(w) ==
    /\ row[w] = "none" /\ "result" \in open[w]
    /\ \E found \in IF w \in Unreadable THEN Recorded ELSE {"pending"} :
          row' = [row EXCEPT ![w] = found]
    /\ UNCHANGED <<flows, attempts, cur, reap, fin, faults>>

----------------------------------------------------------------------------
(* Consumption of an outbox row.  The row is read before any lock; all     *)
(* else happens in one transaction that holds the row of the flow.         *)

Superseded(w) == st[w] = "ended"
Refused(w) == ~Superseded(w) /\ row[w] = "spoilt"
AlreadyApplied(w) ==
    ~Superseded(w) /\ ~Refused(w) /\ "result" \notin open[w]
\* Slip: the node is written without looking at its status.
AppliesAgain(w) == ~Superseded(w) /\ ~Refused(w)
Applies(w) == ~Superseded(w) /\ ~Refused(w) /\ "result" \in open[w]

\* Dependents and completion are part of the transaction.
Progress(w) ==
    /\ open' = [open EXCEPT ![w] = @ \ {"result"}]
    /\ st' = [st EXCEPT ![w] = IF open[w] \subseteq {"result"} THEN "ended" ELSE @]
    /\ applied' = [applied EXCEPT ![w] = @ + 1]

\* A transaction that fails leaves everything as it was.
Consume(w) ==
    \/ /\ Applies(w) /\ w \notin Failing /\ Progress(w)
       /\ row' = [row EXCEPT ![w] = "gone"]
    \/ /\ Superseded(w) \/ AlreadyApplied(w)
       /\ row' = [row EXCEPT ![w] = "gone"] /\ UNCHANGED flows
    \/ (Refused(w) \/ (Applies(w) /\ w \in Failing)) /\ UNCHANGED <<flows, row>>

\* The worker finalizes its own task and retries when that fails; one that
\* dies takes no further step.
FinRead(w) ==
    /\ w \in Finalizing \ fin /\ row[w] \in Recorded
    /\ fin' = fin \cup {w}
    /\ UNCHANGED <<flows, outbox, cur, reap, faults>>

FinConsume(w) ==
    /\ w \in fin
    /\ Consume(w)
    /\ fin' = fin \ {w}
    /\ UNCHANGED <<attempts, cur, reap, faults>>

----------------------------------------------------------------------------
(* The audit.  A reaper claims the cursor with the page it reads and keeps *)
(* the claim while it works on the candidates of the page.                 *)

At(r, pc) == reap[r].pc = pc
Goto(r, pc) == reap' = [reap EXCEPT ![r].pc = pc]
Owns(r) == cur.token = r /\ ~cur.lapsed
ShareLocked(r) == \E q \in Reaper \ {r} : At(q, "final")
\* Slip: the claim is looked at without waiting for who shares it.
ClaimUnlocked(r) == cur.token = NoReaper \/ cur.lapsed
Claimable(r) == (cur.token = NoReaper \/ cur.lapsed) /\ ~ShareLocked(r)

Running == {w \in Workflow : st[w] = "RUNNING"}
Upper == IF cur.upper # 0 \/ Running = {} THEN cur.upper ELSE Max(Running)
First(n, S) == {w \in S : Cardinality({v \in S : v < w}) < n}
\* Slip: the page stops short of the upper end of the cycle.
PageBelow == First(Limit, {w \in Running : cur.last < w /\ w < Upper})
Page == First(Limit, {w \in Running : cur.last < w /\ w <= Upper})
CycleComplete ==
    Cardinality(Page) < Limit \/ Max(Page \cup {0}) = Upper

Audit(r) ==
    /\ At(r, "idle") /\ Claimable(r)
    /\ LET stuck == {w \in Page : open[w] = {}}
           next == IF CycleComplete THEN 0 ELSE Max(Page)
           upper == IF CycleComplete THEN 0 ELSE Upper
       IN  /\ cur' = [last |-> next, upper |-> upper, lapsed |-> FALSE,
                      token |-> IF stuck = {} THEN NoReaper ELSE r]
           /\ reap' = [reap EXCEPT ![r] =
                  [Idle EXCEPT !.pc = IF stuck = {} THEN "drive" ELSE "work",
                               !.complete = stuck \ Orphans,
                               !.orphan = stuck \cap Orphans]]
    /\ UNCHANGED <<flows, outbox, fin, faults>>

\* Somebody has the claim, or a completion holds it locked.
AuditRefused(r) ==
    /\ At(r, "idle") /\ ~Claimable(r)
    /\ Goto(r, "drive")
    /\ UNCHANGED <<flows, outbox, cur, fin, faults>>

\* Flows without open nodes come first, then orphans, each in order.
Candidate(r) ==
    Min(IF reap[r].complete # {} THEN reap[r].complete ELSE reap[r].orphan)
Dropped(r) ==
    LET complete == reap[r].complete \ {Candidate(r)}
        orphan == reap[r].orphan \ {Candidate(r)}
    IN  reap' = [reap EXCEPT
            ![r].pc = IF complete \cup orphan = {} THEN "release" ELSE "work",
            ![r].complete = complete, ![r].orphan = orphan]

\* Before each candidate the claim is renewed, and the completion check
\* shares its row until it commits.  A claim lost by then ends the audit.
LockClaim(r) ==
    /\ At(r, "work") /\ reap[r].complete # {}
    /\ Goto(r, IF Owns(r) THEN "final" ELSE "release")
    /\ UNCHANGED <<flows, outbox, cur, fin, faults>>

\* It counts again under the lock of the flow.
Finalize(r) ==
    /\ At(r, "final")
    /\ LET w == Candidate(r)
       IN  st' = [st EXCEPT ![w] =
                     IF @ = "RUNNING" /\ open[w] = {} THEN "ended" ELSE @]
    /\ Dropped(r)
    /\ UNCHANGED <<open, applied, outbox, cur, fin, faults>>

\* An orphan fails in one statement that checks the claim.
FailOrphan(r) ==
    /\ At(r, "work") /\ reap[r].complete = {} /\ Owns(r)
    /\ st' = [st EXCEPT ![Candidate(r)] = IF @ = "RUNNING" THEN "ended" ELSE @]
    /\ Dropped(r)
    /\ UNCHANGED <<open, applied, outbox, cur, fin, faults>>

OrphanRefused(r) ==
    /\ At(r, "work") /\ reap[r].complete = {} /\ ~Owns(r)
    /\ Goto(r, "release")
    /\ UNCHANGED <<flows, outbox, cur, fin, faults>>

Release(r) ==
    /\ At(r, "release")
    /\ cur' = IF cur.token = r THEN [cur EXCEPT !.token = NoReaper, !.lapsed = FALSE]
              ELSE cur
    /\ reap' = [reap EXCEPT ![r] = [Idle EXCEPT !.pc = "drive"]]
    /\ UNCHANGED <<flows, outbox, fin, faults>>

----------------------------------------------------------------------------
(* The drive of the outbox.                                                *)

\* Slip: rows past the bound are discovered again.
DiscoveredAll == First(OutLimit, {w \in Workflow : row[w] \in Recorded})
Discovered ==
    First(OutLimit, {w \in Workflow : row[w] \in Recorded /\ attempts[w] < Bound})

Reads(rows) ==
    [Idle EXCEPT !.pc = IF rows = {} THEN "idle" ELSE "row", !.rows = rows]
Dealt(r) == Reads(reap[r].rows \ {Min(reap[r].rows)})

Discover(r) ==
    /\ At(r, "drive")
    /\ reap' = [reap EXCEPT ![r] = Reads(Discovered)]
    /\ UNCHANGED <<flows, outbox, cur, fin, faults>>

ReadRow(r) ==
    /\ At(r, "row")
    /\ reap' = IF row[Min(reap[r].rows)] \in Recorded
               THEN [reap EXCEPT ![r].pc = "consume"]
               ELSE [reap EXCEPT ![r] = Dealt(r)]
    /\ UNCHANGED <<flows, outbox, cur, fin, faults>>

\* Only a row that is retained counts an attempt, in the same transaction;
\* a progression that fails takes its count back.
\* Slip: the count is lost with the transaction.
CountLost(w) == attempts[w]
Counted(w) == IF Refused(w) THEN attempts[w] + 1 ELSE attempts[w]

ConsumeRow(r) ==
    /\ At(r, "consume")
    /\ LET w == Min(reap[r].rows)
       IN  Consume(w) /\ attempts' = [attempts EXCEPT ![w] = Counted(w)]
    /\ reap' = [reap EXCEPT ![r] = Dealt(r)]
    /\ UNCHANGED <<cur, fin, faults>>

----------------------------------------------------------------------------
(* Faults.                                                                 *)

\* A statement of the pass fails: the candidate or row is left for a later
\* pass, a renewal or release ends the audit with the claim in place.
StatementFails(r) ==
    /\ faults < MaxFaults
    /\ \/ At(r, "idle") /\ Goto(r, "drive")
       \/ At(r, "work") /\ Goto(r, "release")
       \/ reap[r].pc \in {"work", "final"} /\ Dropped(r)
       \/ At(r, "release") /\ reap' = [reap EXCEPT ![r] = [Idle EXCEPT !.pc = "drive"]]
       \/ At(r, "drive") /\ Goto(r, "idle")
       \/ reap[r].pc \in {"row", "consume"} /\ reap' = [reap EXCEPT ![r] = Dealt(r)]
    /\ faults' = faults + 1
    /\ UNCHANGED <<flows, outbox, cur, fin>>

Crash(r) ==
    /\ faults < MaxFaults /\ ~At(r, "idle")
    /\ reap' = [reap EXCEPT ![r] = Idle]
    /\ faults' = faults + 1
    /\ UNCHANGED <<flows, outbox, cur, fin>>

\* A claim runs out.  Its owner is gone or, as a fault, slow.
Slow == cur.token \in Reaper /\ reap[cur.token].pc \in {"work", "final", "release"}
Lapse ==
    /\ cur.token # NoReaper /\ ~cur.lapsed
    /\ cur' = [cur EXCEPT !.lapsed = TRUE]
    /\ ~Slow \/ faults < MaxFaults
    /\ faults' = IF Slow THEN faults + 1 ELSE faults
    /\ UNCHANGED <<flows, outbox, reap, fin>>

----------------------------------------------------------------------------
Flow ==
    \E w \in Workflow :
        \/ Create(w) \/ RestEnds(w) \/ Stop(w) \/ Terminalize(w)
        \/ FinRead(w) \/ FinConsume(w)

Step(r) ==
    \/ Audit(r) \/ AuditRefused(r) \/ LockClaim(r) \/ Finalize(r)
    \/ FailOrphan(r) \/ OrphanRefused(r) \/ Release(r)
    \/ Discover(r) \/ ReadRow(r) \/ ConsumeRow(r)

Next ==
    \/ Flow \/ Lapse
    \/ \E r \in Reaper : Step(r) \/ StatementFails(r) \/ Crash(r)

Spec == Init /\ [][Next]_vars

\* A reaper that runs goes on with its pass; the clock reaches the end of a
\* claim.  Nothing is assumed of flows and of the workers that finalize.
FairSpec ==
    /\ Spec
    /\ WF_vars(Lapse /\ ~Slow)
    /\ \A r \in Reaper : WF_vars(Step(r))

----------------------------------------------------------------------------
(* Properties.                                                             *)

\* At most one reaper is inside a completion check of the audit, and the
\* cursor carries its claim even when it has lapsed meanwhile: the claim
\* stays locked until the check commits (engine.rs:2682).
OneFinalizer == \A r \in Reaper : At(r, "final") => cur.token = r

\* The progression of a result is committed once, whatever the worker and
\* the reapers have read of the outbox before, and a row leaves the outbox
\* only with its progression or after the end of its flow.
AppliedOnce ==
    \A w \in Workflow :
        /\ applied[w] <= 1
        /\ row[w] = "gone" => applied[w] = 1 \/ st[w] = "ended"

\* A running flow that nothing is going to end is ended by some pass,
\* wherever the cursor stands and whoever loses the claim.
StuckEnds ==
    \A w \in Workflow :
        (st[w] = "RUNNING" /\ open[w] = {}) ~> (st[w] = "ended")

\* The drive settles each row whose progression does not fail, or counts it
\* out to quarantine.
OutboxSettles ==
    \A w \in Workflow \ Failing :
        row[w] \in Recorded ~> (row[w] = "gone" \/ attempts[w] >= Bound)

\* The passes reach every flow and every row, neither behind the other.
PassesReachAll == StuckEnds /\ OutboxSettles

=============================================================================
