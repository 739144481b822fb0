--------------------------- MODULE WorkflowNodes ---------------------------
(***************************************************************************)
(* One workflow: a graph of nodes, the generations of backing tasks its    *)
(* nodes link, the outbox of results that wait for phase 2, and everything *)
(* that moves them: dispatches of claimed tasks, finished attempts, phase  *)
(* 2, pause, resume, cancel, expiry, re-evaluation by resume and recovery, *)
(* and the reaper.                                                         *)
(*                                                                         *)
(* Every transaction of the engine locks the workflow row first, or guards *)
(* its writes on the status a node has when it writes, so a transaction is *)
(* one step.  What a dispatch or a re-evaluation has read before it opens  *)
(* its transaction is kept in disp and eval and may be stale by then.      *)
(* Attempts, leases and deadlines of one task are in TaskLifecycle; here a *)
(* claim is "fresh" while the fence on claimed_at still matches.           *)
(***************************************************************************)
EXTENDS Naturals, FiniteSets

CONSTANTS
    Node, NoNode,
    Deps,          \* Deps[n]: dependencies of node n
    Join,          \* Join[n]: "all", "any" or "quorum"
    MinSuccess,    \* MinSuccess[n]: min_success of a quorum
    AllowFailed,   \* the nodes with allow_failed_deps
    Context,       \* Context[n]: workflow_ctx_from, some of its dependencies
    OnError,       \* "fail" or "pause"
    MaxRetries,    \* max_retries of every backing task
    MaxGen,        \* bound on the backing tasks of a node
    MaxControls,   \* bound on pause, resume, cancel and expiry
    MaxFaults      \* bound on crashes, failed statements and lost claims

ASSUME NodesAssumption ==
    /\ IsFiniteSet(Node)
    /\ NoNode \notin Node
    /\ Deps \in [Node -> SUBSET Node]
    /\ Join \in [Node -> {"all", "any", "quorum"}]
    /\ MinSuccess \in [Node -> Nat]
    /\ AllowFailed \subseteq Node
    /\ Context \in [Node -> SUBSET Node]
    /\ \A n \in Node : Context[n] \subseteq Deps[n]
    /\ OnError \in {"fail", "pause"}
    /\ MaxRetries \in Nat
    /\ MaxGen \in Nat \ {0}
    /\ MaxControls \in Nat
    /\ MaxFaults \in Nat

VARIABLES
    db,        \* the rows: wf, node (status and linked generation), task
    outbox,    \* horsies_workflow_phase2_pending
    retries,   \* retry_count of the backing tasks
    disp,      \* dispatches of claimed tasks and what they have read
    eval,      \* the node a re-evaluation has decided on
    controls, faults

vars == <<db, outbox, retries, disp, eval, controls, faults>>

Generation == 1 .. MaxGen
Task == Node \X Generation

NodeStatus == {"PENDING", "READY", "ENQUEUED", "RUNNING", "COMPLETED", "FAILED", "SKIPPED"}
NodeDone == {"COMPLETED", "FAILED", "SKIPPED"}
Live == {"PENDING", "CLAIMED", "RUNNING"}
TaskStatus == Live \cup {"unused", "abandoned", "cancelled", "COMPLETED", "FAILED"}
WorkflowDone == {"COMPLETED", "FAILED", "CANCELLED", "EXPIRED"}

Db == [wf : {"RUNNING", "PAUSED"} \cup WorkflowDone,
       node : [Node -> [st : NodeStatus, gen : 0 .. MaxGen]],
       task : [Task -> TaskStatus]]

Dispatch == [t : Task, fresh : BOOLEAN,
             step : {"filter", "filterPaused", "filterCancelled", "handoff", "start",
                     "refused", "stopPaused", "stopCancelled", "user"}]

TypeOK ==
    /\ db \in Db
    /\ outbox \subseteq Task
    /\ retries \in [Task -> 0 .. MaxRetries]
    /\ disp \subseteq Dispatch
    /\ eval \in Node \cup {NoNode}
    /\ controls \in 0 .. MaxControls
    /\ faults \in 0 .. MaxFaults

-----------------------------------------------------------------------------
(* Reading the rows.                                                       *)

Linked(s, t) == s.node[t[1]].gen = t[2]
Status(s) == [n \in Node |-> s.node[n].st]
LiveTasks(s) == {t \in Task : s.task[t] \in Live}
Unused(s, n) == {g \in Generation : s.task[<<n, g>>] = "unused"}
Fresh(s, n) == CHOOSE g \in Unused(s, n) : TRUE
Spare(s, S) == \A n \in S : Unused(s, n) # {}

Succeeded(st, n) == {d \in Deps[n] : st[d] = "COMPLETED"}
Open(st, n) == {d \in Deps[n] : st[d] \notin NodeDone}

JoinMet(st, n) ==
    \/ Join[n] = "all" /\ Open(st, n) = {} /\ (n \in AllowFailed \/ Succeeded(st, n) = Deps[n])
    \/ Join[n] = "any" /\ Succeeded(st, n) # {}
    \/ Join[n] = "quorum" /\ Cardinality(Succeeded(st, n)) >= MinSuccess[n]

\* A node that wants the results of dependencies waits until they are terminal.
CanRun(st, n) == JoinMet(st, n) /\ Context[n] \cap Open(st, n) = {}

\* Slip: one failed dependency decides an any-join, and a quorum that is just
\* reachable counts as lost.
CannotRunTooEarly(st, n) ==
    \/ Join[n] = "all" /\ Open(st, n) = {} /\ n \notin AllowFailed /\ Succeeded(st, n) # Deps[n]
    \/ Join[n] = "any" /\ Succeeded(st, n) \cup Open(st, n) # Deps[n] /\ Succeeded(st, n) = {}
    \/ /\ Join[n] = "quorum"
       /\ Cardinality(Succeeded(st, n)) + Cardinality(Open(st, n)) <= MinSuccess[n]

CannotRun(st, n) ==
    \/ Join[n] = "all" /\ Open(st, n) = {} /\ n \notin AllowFailed /\ Succeeded(st, n) # Deps[n]
    \/ Join[n] = "any" /\ Open(st, n) = {} /\ Succeeded(st, n) = {}
    \/ /\ Join[n] = "quorum"
       /\ Cardinality(Succeeded(st, n)) + Cardinality(Open(st, n)) < MinSuccess[n]

(* What a finished node propagates: the PENDING dependents that can no      *)
(* longer run, the dependents of those, and so on until no source is left: *)
(* the least set closed under one round from the source.                   *)
Skipped(st, S) == [n \in Node |-> IF n \in S THEN "SKIPPED" ELSE st[n]]
PendingAfter(st, source, S) ==
    {n \in Node : st[n] = "PENDING" /\ Deps[n] \cap ({source} \cup S) # {}}
SkipClosed(st, source, S) ==
    \A n \in PendingAfter(st, source, S) : CannotRun(Skipped(st, S), n) => n \in S
SkipSet(st, source) ==
    LET pending == {n \in Node : st[n] = "PENDING"}
    IN  {n \in pending : \A S \in SUBSET pending : SkipClosed(st, source, S) => n \in S}
RunSet(st, source) ==
    LET skip == SkipSet(st, source)
    IN  {n \in PendingAfter(st, source, skip) \ skip : CanRun(Skipped(st, skip), n)}

-----------------------------------------------------------------------------
(* Transactions, as functions of the rows.                                 *)

SetNodes(s, S, st) ==
    [s EXCEPT !.node = [n \in Node |-> IF n \in S THEN [@[n] EXCEPT !.st = st] ELSE @[n]]]
SetTasks(s, T, st) == [s EXCEPT !.task = [t \in Task |-> IF t \in T THEN st ELSE @[t]]]

Enqueue(s, S) ==
    [s EXCEPT !.node = [n \in Node |-> IF n \in S THEN [st |-> "ENQUEUED", gen |-> Fresh(s, n)]
                                                  ELSE @[n]],
              !.task = [t \in Task |-> IF t[1] \in S /\ t[2] = Fresh(s, t[1]) THEN "PENDING"
                                                                             ELSE @[t]]]

\* promote_phase2_dependents_in_tx: skip what cannot run any more, enqueue what can.
Promote(s, source) ==
    LET st == Status(s)
    IN  Enqueue(SetNodes(s, SkipSet(st, source), "SKIPPED"), RunSet(st, source))

\* complete_phase2_workflow_in_tx and check_workflow_completion, default policy.
Complete(s) ==
    IF s.wf = "RUNNING" /\ \A n \in Node : s.node[n].st \in NodeDone
    THEN [s EXCEPT !.wf = IF \E n \in Node : s.node[n].st = "FAILED" THEN "FAILED" ELSE "COMPLETED"]
    ELSE s

\* RESET_WORKFLOW_TASKS_SQL has no guard on the status of node or workflow.
ResetNodes(s, T) ==
    [s EXCEPT !.node = [n \in Node |-> IF <<n, @[n].gen>> \in T THEN [st |-> "READY", gen |-> 0]
                                                               ELSE @[n]]]

\* Slip: the row goes back to PENDING while its node is reset.
UnclaimRows(s, T) == ResetNodes(SetTasks(s, T, "PENDING"), T)

\* Slip: the row is abandoned and its node keeps the link.
AbandonRowsOnly(s, T) == SetTasks(s, T, "abandoned")

Abandon(s, T) == ResetNodes(SetTasks(s, T, "abandoned"), T)

\* pause_tree_and_relocate_in_tx; T are the claimed rows it did not skip as locked.
Relocatable(s) == {t \in Task : /\ s.task[t] = "CLAIMED"
                                /\ Linked(s, t)
                                /\ s.node[t[1]].st \in {"ENQUEUED", "RUNNING"}}
PauseTree(s, T) == Abandon([s EXCEPT !.wf = "PAUSED"], T)

\* SKIP_CANCELLED_WORKFLOW_TASKS_SQL after a task of a cancelled workflow ended.
CancelNode(s, t) ==
    LET n == t[1] IN
    SetNodes(SetTasks(s, {t}, "cancelled"),
             {m \in {n} : Linked(s, t) /\ s.node[m].st \in {"PENDING", "READY", "ENQUEUED"}},
             "SKIPPED")

\* Slip: every unfinished node is skipped, those that execute included.
StopEveryNode(s, status) ==
    LET moved == {t \in LiveTasks(s) : Linked(s, t) /\ s.node[t[1]].st = "ENQUEUED"}
        ended == {n \in Node : s.node[n].st \notin NodeDone}
    IN  [SetNodes(SetTasks(s, moved, "cancelled"), ended, "SKIPPED") EXCEPT !.wf = status]

\* cancel_one_workflow_in_tx and one pass of expire_paused_workflows.
StopWorkflow(s, status) ==
    LET moved == {t \in LiveTasks(s) : Linked(s, t) /\ s.node[t[1]].st = "ENQUEUED"}
        ended == {n \in Node : \/ s.node[n].st \in {"PENDING", "READY"}
                               \/ s.node[n].st = "ENQUEUED" /\ <<n, s.node[n].gen>> \in moved}
    IN  [SetNodes(SetTasks(s, moved, "cancelled"), ended, "SKIPPED") EXCEPT !.wf = status]

Init ==
    /\ db = LET roots == {n \in Node : Deps[n] = {}} IN
            Enqueue([wf |-> "RUNNING",
                     node |-> [n \in Node |-> [st |-> "PENDING", gen |-> 0]],
                     task |-> [t \in Task |-> "unused"]], roots)
    /\ outbox = {}
    /\ retries = [t \in Task |-> 0]
    /\ disp = {}
    /\ eval = NoNode
    /\ controls = 0
    /\ faults = 0

-----------------------------------------------------------------------------
(* Dispatch of a claimed task.                                             *)

Owned(d) == d.fresh /\ db.task[d.t] = "CLAIMED"
Goto(d, step) == disp' = (disp \ {d}) \cup {[d EXCEPT !.step = step]}
Drop(d) == disp' = disp \ {d}
Fault == faults < MaxFaults /\ faults' = faults + 1
Unfence(t) == disp' = {[d EXCEPT !.fresh = d.fresh /\ d.t # t] : d \in disp}

\* A claim ignores the status of the workflow.
Claim(t) ==
    /\ db.task[t] = "PENDING"
    /\ db' = SetTasks(db, {t}, "CLAIMED")
    /\ disp' = disp \cup {[t |-> t, fresh |-> TRUE, step |-> "filter"]}
    /\ UNCHANGED <<outbox, retries, eval, controls, faults>>

\* filter_non_runnable_workflow_tasks: one read, then a transaction per status.
Filter(d) ==
    /\ d.step = "filter"
    /\ Goto(d, IF Linked(db, d.t) /\ db.wf = "PAUSED" THEN "filterPaused"
               ELSE IF Linked(db, d.t) /\ db.wf = "CANCELLED" THEN "filterCancelled"
               ELSE "handoff")
    /\ UNCHANGED <<db, outbox, retries, eval, controls, faults>>

FilterPaused(d) ==
    /\ d.step = "filterPaused"
    /\ db' = IF Owned(d) THEN Abandon(db, {d.t}) ELSE db
    /\ Drop(d)
    /\ UNCHANGED <<outbox, retries, eval, controls, faults>>

\* Slip: the filtered claim is dropped and its row left to the reaper.
FilterCancelledDropsOnly(d) ==
    /\ d.step = "filterCancelled"
    /\ Drop(d)
    /\ UNCHANGED <<db, outbox, retries, eval, controls, faults>>

FilterCancelled(d) ==
    /\ d.step = "filterCancelled"
    /\ db' = IF Owned(d) THEN CancelNode(db, d.t) ELSE db
    /\ Drop(d)
    /\ UNCHANGED <<outbox, retries, eval, controls, faults>>

Runnable(s, t) ==
    Linked(s, t) /\ s.node[t[1]].st \in {"ENQUEUED", "READY", "PENDING", "RUNNING"}

\* confirm_ownership_and_set_running: the node first, not fenced by the claim;
\* without a runnable link the claimed row is cancelled as an orphan.
Handoff(d) ==
    /\ d.step = "handoff"
    /\ IF Runnable(db, d.t)
       THEN db' = SetNodes(db, {d.t[1]}, "RUNNING") /\ Goto(d, "start")
       ELSE IF Owned(d)
       THEN db' = SetTasks(db, {d.t}, "cancelled") /\ Drop(d)
       ELSE db' = db /\ Goto(d, "start")
    /\ UNCHANGED <<outbox, retries, eval, controls, faults>>

\* The statement fails: the dispatch proceeds and the node stays as it is.
HandoffFails(d) ==
    /\ d.step = "handoff"
    /\ Fault
    /\ Goto(d, "start")
    /\ UNCHANGED <<db, outbox, retries, eval, controls>>

\* Slip: the start asks for the claim only.
StartableWhenOwned(d) == Owned(d)

Startable(d) ==
    Owned(d) /\ ~(Linked(db, d.t) /\ db.wf \in {"PAUSED", "CANCELLED"})

SetRunning(d) ==
    /\ d.step = "start"
    /\ IF Startable(d)
       THEN db' = SetTasks(db, {d.t}, "RUNNING") /\ Goto(d, "user")
       ELSE db' = db /\ Goto(d, "refused")
    /\ UNCHANGED <<outbox, retries, eval, controls, faults>>

\* The statement fails: unclaim_task_with_retry.
SetRunningFails(d) ==
    /\ d.step = "start"
    /\ Fault
    /\ db' = IF Owned(d) THEN SetTasks(db, {d.t}, "PENDING") ELSE db
    /\ Drop(d)
    /\ UNCHANGED <<outbox, retries, eval, controls>>

ReadStatus(d) ==
    /\ d.step = "refused"
    /\ CASE Linked(db, d.t) /\ db.wf = "PAUSED" -> Goto(d, "stopPaused")
         [] Linked(db, d.t) /\ db.wf = "CANCELLED" -> Goto(d, "stopCancelled")
         [] OTHER -> Drop(d)
    /\ UNCHANGED <<db, outbox, retries, eval, controls, faults>>

\* handle_workflow_stop_before_start, PAUSED arm; a row abandoned by an earlier
\* pause counts as applied and the reset is repeated.
StopPaused(d) ==
    /\ d.step = "stopPaused"
    /\ db' = IF Owned(d) \/ db.task[d.t] = "abandoned" THEN Abandon(db, {d.t}) ELSE db
    /\ Drop(d)
    /\ UNCHANGED <<outbox, retries, eval, controls, faults>>

\* The CANCELLED arm also accepts a row that was requeued to PENDING.
StopCancelled(d) ==
    /\ d.step = "stopCancelled"
    /\ db' = IF Owned(d) \/ db.task[d.t] \in {"PENDING", "cancelled"}
             THEN CancelNode(db, d.t) ELSE db
    /\ Drop(d)
    /\ UNCHANGED <<outbox, retries, eval, controls, faults>>

Crash(d) ==
    /\ Fault
    /\ Drop(d)
    /\ UNCHANGED <<db, outbox, retries, eval, controls>>

-----------------------------------------------------------------------------
(* The end of an attempt, and phase 2.                                     *)

\* Phase 1: the row moves to history and leaves its result in the outbox.
Settle(t, outcome) ==
    /\ db' = SetTasks(db, {t}, outcome)
    /\ outbox' = outbox \cup {t}
    /\ UNCHANGED retries

\* Slip: one retry more than max_retries.
RetryOneMore(t) ==
    /\ retries[t] <= MaxRetries
    /\ db' = SetTasks(db, {t}, "PENDING")
    /\ retries' = [retries EXCEPT ![t] = @ + 1]
    /\ UNCHANGED outbox

\* schedule_retry_for_task: back to PENDING, the node stays RUNNING.
Retry(t) ==
    /\ retries[t] < MaxRetries
    /\ db' = SetTasks(db, {t}, "PENDING")
    /\ retries' = [retries EXCEPT ![t] = @ + 1]
    /\ UNCHANGED outbox

Finish(d) ==
    /\ d.step = "user"
    /\ d.fresh /\ db.task[d.t] = "RUNNING"
    /\ Settle(d.t, "COMPLETED") \/ Settle(d.t, "FAILED") \/ Retry(d.t)
    /\ Drop(d)
    /\ UNCHANGED <<eval, controls, faults>>

\* The reaper or a stop took the row: the fenced finalization misses.
FinalizeMiss(d) ==
    /\ d.step = "user"
    /\ ~(d.fresh /\ db.task[d.t] = "RUNNING")
    /\ Drop(d)
    /\ UNCHANGED <<db, outbox, retries, eval, controls, faults>>

\* horsies_phase2_consume and apply_phase2_progression_in_tx, one transaction of
\* the finalizer or of the outbox recovery.
Consume(t) ==
    LET n == t[1]
        applied == SetNodes(db, {n}, db.task[t])
    IN  /\ t \in outbox
        /\ outbox' = outbox \ {t}
        /\ \/ /\ db.wf \in WorkflowDone \/ db.node[n].st \in NodeDone
              /\ db' = db
           \/ /\ db.wf \notin WorkflowDone /\ db.node[n].st \notin NodeDone
              /\ db.task[t] = "FAILED" /\ OnError = "pause"
              /\ IF db.wf = "RUNNING"
                 THEN \E T \in SUBSET Relocatable(applied) : db' = PauseTree(applied, T)
                 ELSE db' = applied
           \/ /\ db.wf \notin WorkflowDone /\ db.node[n].st \notin NodeDone
              /\ db.task[t] # "FAILED" \/ OnError # "pause"
              /\ db.wf = "RUNNING" => Spare(db, RunSet(Status(applied), n))
              /\ db' = IF db.wf = "PAUSED" THEN applied ELSE Complete(Promote(applied, n))
        /\ UNCHANGED <<retries, disp, eval, controls, faults>>

-----------------------------------------------------------------------------
(* Pause, resume, cancel and expiry.  Resume flips the status here; what   *)
(* follows it is the re-evaluation and completion check below, which       *)
(* recovery runs as well.                                                  *)

Control ==
    /\ controls < MaxControls
    /\ controls' = controls + 1
    /\ UNCHANGED <<outbox, retries, disp, eval, faults>>

Pause ==
    /\ db.wf = "RUNNING"
    /\ \E T \in SUBSET Relocatable(db) : db' = PauseTree(db, T)
    /\ Control

Resume ==
    /\ db.wf = "PAUSED"
    /\ db' = [db EXCEPT !.wf = "RUNNING"]
    /\ Control

Cancel ==
    /\ db.wf \in {"RUNNING", "PAUSED"}
    /\ db' = StopWorkflow(db, "CANCELLED")
    /\ Control

ExpirePaused ==
    /\ db.wf = "PAUSED"
    /\ db' = StopWorkflow(db, "EXPIRED")
    /\ Control

-----------------------------------------------------------------------------
(* Re-evaluation.  The verdict is read while the workflow runs and written *)
(* later; only the enqueue is guarded on the workflow by then.             *)

BeginEval(n) ==
    /\ eval = NoNode
    /\ db.wf = "RUNNING"
    /\ db.node[n].st = "PENDING"
    /\ CanRun(Status(db), n) \/ CannotRun(Status(db), n)
    /\ eval' = n
    /\ UNCHANGED <<db, outbox, retries, disp, controls, faults>>

EnqueueGuard(s) == s.wf = "RUNNING"

EndEval(n) ==
    /\ eval = n
    /\ eval' = NoNode
    /\ \/ db.node[n].st # "PENDING" /\ db' = db
       \/ /\ db.node[n].st = "PENDING"
          /\ CannotRun(Status(db), n)
          /\ db' = SetNodes(db, {n}, "SKIPPED")
       \/ /\ db.node[n].st = "PENDING"
          /\ CanRun(Status(db), n)
          /\ EnqueueGuard(db) => Spare(db, {n})
          /\ db' = IF EnqueueGuard(db) THEN Enqueue(db, {n}) ELSE SetNodes(db, {n}, "READY")
    /\ UNCHANGED <<outbox, retries, disp, controls, faults>>

\* Slip: recovery waits for dependencies that completed.
RecoverSucceeded(n) == Succeeded(Status(db), n) = Deps[n] /\ BeginEval(n)

\* Recovery case 0 sees a PENDING node once all its dependencies are terminal.
RecoverPending(n) == Open(Status(db), n) = {} /\ BeginEval(n)

\* Step 2 of reevaluate_and_enqueue, and recovery case 1.
EnqueueReady(n) ==
    /\ db.node[n].st = "READY"
    /\ db.node[n].gen = 0
    /\ db.wf = "RUNNING"
    /\ Spare(db, {n})
    /\ db' = Enqueue(db, {n})
    /\ UNCHANGED <<outbox, retries, disp, eval, controls, faults>>

CheckCompletion ==
    /\ db' = Complete(db)
    /\ db' # db
    /\ UNCHANGED <<outbox, retries, disp, eval, controls, faults>>

-----------------------------------------------------------------------------
(* The reaper.  It may take a row from a live dispatch (lapsed lease, late *)
(* heartbeat), which is a fault, or one whose dispatch is gone.            *)

Held(t, steps) == \E d \in disp : d.t = t /\ d.fresh /\ d.step \in steps
BeforeUser == {"filter", "filterPaused", "filterCancelled", "handoff", "start",
               "refused", "stopPaused", "stopCancelled"}
TakenFrom(t, steps) ==
    IF Held(t, steps) THEN Fault ELSE UNCHANGED faults

RequeueStaleClaimed(t) ==
    /\ db.task[t] = "CLAIMED"
    /\ TakenFrom(t, BeforeUser)
    /\ db' = SetTasks(db, {t}, "PENDING")
    /\ Unfence(t)
    /\ UNCHANGED <<outbox, retries, eval, controls>>

ReapStaleRunning(t) ==
    /\ db.task[t] = "RUNNING"
    /\ TakenFrom(t, {"user"})
    /\ Retry(t) \/ Settle(t, "FAILED")
    /\ Unfence(t)
    /\ UNCHANGED <<eval, controls>>

-----------------------------------------------------------------------------

Step(d) ==
    \/ Filter(d) \/ FilterPaused(d) \/ FilterCancelled(d)
    \/ Handoff(d) \/ SetRunning(d) \/ ReadStatus(d) \/ StopPaused(d) \/ StopCancelled(d)
    \/ Finish(d) \/ FinalizeMiss(d)

DispatchNext ==
    \E d \in disp : Step(d) \/ HandoffFails(d) \/ SetRunningFails(d) \/ Crash(d)
TaskNext ==
    \E t \in Task : Claim(t) \/ Consume(t) \/ RequeueStaleClaimed(t) \/ ReapStaleRunning(t)
NodeNext ==
    \E n \in Node : BeginEval(n) \/ EndEval(n) \/ EnqueueReady(n)

Next ==
    \/ DispatchNext \/ TaskNext \/ NodeNext
    \/ Pause \/ Resume \/ Cancel \/ ExpirePaused \/ CheckCompletion

Spec == Init /\ [][Next]_vars

(* Workers claim and dispatch, attempts end, the finalizer or the outbox   *)
(* recovery consumes every result, recovery audits running workflows, and  *)
(* the reaper takes the rows no dispatch holds.  Nobody has to pause,      *)
(* resume or cancel.                                                       *)
Fairness ==
    /\ \A t \in Task :
        /\ WF_vars(Claim(t))
        /\ WF_vars(Consume(t))
        /\ WF_vars(~Held(t, BeforeUser) /\ RequeueStaleClaimed(t))
        /\ WF_vars(~Held(t, {"user"}) /\ ReapStaleRunning(t))
        /\ \A fresh \in BOOLEAN :
            WF_vars(\E d \in disp : d.t = t /\ d.fresh = fresh /\ Step(d))
    /\ \A n \in Node :
        /\ WF_vars(RecoverPending(n))
        /\ WF_vars(EndEval(n))
        /\ WF_vars(EnqueueReady(n))
    /\ WF_vars(CheckCompletion)

FairSpec == Spec /\ Fairness

-----------------------------------------------------------------------------
(* Properties.                                                             *)

\* Every backing task that can still run is the one its node links, and that node
\* waits for it.  So a node never has two live tasks, whatever pauses, resumes,
\* stale dispatches and re-evaluations do, and the orphan check of the dispatch
\* never has anything to cancel.
LiveTaskLinked ==
    \A t \in LiveTasks(db) : Linked(db, t) /\ db.node[t[1]].st \in {"ENQUEUED", "RUNNING"}

\* While the workflow may continue, a node that is out for execution has a task
\* that is alive or a result on its way: no crash, lost claim or race of a stop with
\* a dispatch leaves a node waiting for nothing.
NodeNeverStranded ==
    \A n \in Node :
        (db.wf \in {"RUNNING", "PAUSED"} /\ db.node[n].st \in {"ENQUEUED", "RUNNING"})
        => LET t == <<n, db.node[n].gen>> IN t \in LiveTasks(db) \cup outbox

\* A node takes at most one outcome: among all the tasks it ever had at most one
\* ran to the end, a finished node shows the outcome of that task, and the outbox
\* is empty for it.
OneOutcomePerNode ==
    \A n \in Node :
        LET ended == {g \in Generation : db.task[<<n, g>>] \in {"COMPLETED", "FAILED"}} IN
        /\ Cardinality(ended) <= 1
        /\ db.node[n].st \in {"COMPLETED", "FAILED"}
           => \E g \in ended : /\ db.node[n] = [st |-> db.task[<<n, g>>], gen |-> g]
                               /\ <<n, g>> \notin outbox

\* The ways the dependencies of n can still turn out, and what its join asks of the
\* outcome.
Futures(st, n) ==
    {f \in [Deps[n] -> NodeDone] : \A m \in Deps[n] : st[m] \in NodeDone => st[m] = f[m]}
Met(f, n) ==
    LET won == {m \in Deps[n] : f[m] = "COMPLETED"} IN
    \/ Join[n] = "all" /\ (n \in AllowFailed \/ won = Deps[n])
    \/ Join[n] = "any" /\ won # {}
    \/ Join[n] = "quorum" /\ Cardinality(won) >= MinSuccess[n]

\* What n waits for whatever its join says of the others.
Awaited(n) == IF Join[n] = "all" THEN Deps[n] ELSE Context[n]

Stopped == {"CANCELLED", "EXPIRED"}
StartJustified(s, n) ==
    Deps[n] # {} /\ s.node[n].st \notin {"PENDING", "SKIPPED"}
    => /\ \A f \in Futures(Status(s), n) : Met(f, n)
       /\ Awaited(n) \cap Open(Status(s), n) = {}
SkipJustified(s, n) ==
    s.node[n].st = "SKIPPED" /\ s.wf \notin Stopped
    => \A f \in Futures(Status(s), n) : ~Met(f, n)

\* A node gets a task only if its join is met however the dependencies that are still
\* open turn out, and all it waits for has ended, and is skipped by a workflow that was
\* not stopped only if the join cannot be met any more: whichever of phase 2, resume or
\* recovery decided, early or with a verdict it had read before.
JoinRespected == \A n \in Node : StartJustified(db, n) /\ SkipJustified(db, n)

\* Nodes get a backing task only while the workflow runs, and a workflow that ended
\* keeps its status and takes no outcome: the results of tasks that were still
\* executing are dropped, and a re-evaluation that began earlier enqueues nothing.
StoppedAdvancesNothing ==
    [][ /\ \A t \in Task : db.task[t] = "unused" /\ db'.task[t] # "unused" => db.wf = "RUNNING"
        /\ db.wf \in WorkflowDone =>
            /\ db'.wf = db.wf
            /\ \A n \in Node : db.node[n].st \notin {"COMPLETED", "FAILED"}
                               => db'.node[n].st \notin {"COMPLETED", "FAILED"} ]_vars

\* A running workflow ends or is paused, although claims are lost, workers crash and
\* attempts are retried.
RunningEnds == db.wf = "RUNNING" ~> db.wf # "RUNNING"

\* A stopped workflow drains: the tasks it left behind end and the outbox empties.
StoppedDrains ==
    db.wf \in Stopped ~> LiveTasks(db) = {} /\ outbox = {}

\* Both: no workflow is left half done, in whichever state it was stopped.
WorkflowsSettle == RunningEnds /\ StoppedDrains

-----------------------------------------------------------------------------
(* The abstract specification.                                             *)

View(st) ==
    CASE st \in {"PENDING", "READY"} -> "waiting"
      [] st \in {"ENQUEUED", "RUNNING"} -> "out"
      [] OTHER -> st

\* Some task of n is in status st.
HasTask(s, n, st) == \E g \in Generation : s.task[<<n, g>>] = st
Executing(s) == {n \in Node : HasTask(s, n, "RUNNING")}
Result(s, n) ==
    CASE HasTask(s, n, "COMPLETED") -> "COMPLETED"
      [] HasTask(s, n, "FAILED") -> "FAILED"
      [] OTHER -> "none"

Contract == INSTANCE WorkflowContract WITH
    status <- db.wf,
    node <- [n \in Node |-> View(db.node[n].st)],
    executing <- Executing(db),
    result <- [n \in Node |-> Result(db, n)]

\* Every transaction of dispatches, phase 2, controls, recovery and the reaper is a
\* step of the contract or leaves it as it is: the code of a node starts neither
\* before its join allows it nor in a paused or cancelled workflow, its one result is
\* what the node shows, phase 2 forgets no dependent, and what ended stays.
ImplementsWorkflow == Contract!Spec

=============================================================================
