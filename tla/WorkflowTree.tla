---------------------------- MODULE WorkflowTree ----------------------------
(***************************************************************************)
(* A tree of workflows: flows whose sub-workflow nodes are flows           *)
(* (workflow_engine/lifecycle.rs, engine.rs).  The plain nodes of a flow   *)
(* are one item of work; a child starts with its parent, or, when it is in *)
(* Late, after the work of its parent.  The policy on_error = pause is in  *)
(* WorkflowNodes.                                                          *)
(*                                                                         *)
(* What spans several rows is taken apart.  Phase 2 locks the flow of a    *)
(* result and, if that flow ends, its parent, upwards, in one transaction. *)
(* A pause updates the tree downwards, in one transaction.  A cancel and a *)
(* resume walk the tree in many.  The completion check of a resume or of   *)
(* recovery commits the end of a flow before the node of its parent.       *)
(*                                                                         *)
(* Workers may know different definitions.  One that is to start a child   *)
(* it has no definition of fails the node, in phase 2 at once, outside of  *)
(* it in a statement of its own.                                           *)
(***************************************************************************)
EXTENDS Naturals, FiniteSets

CONSTANTS
    Flow, NoFlow,
    Parent,        \* Parent[w]: flow with the node of w, or NoFlow
    Late,          \* children that wait for the work of their parent
    Unknown,       \* late children that some worker has no definition of
    Target,        \* flows operators address
    MaxControls,   \* bound on pause, resume, cancel and expiry
    MaxFaults      \* bound on crashes and failed transactions

ASSUME TreeAssumption ==
    /\ IsFiniteSet(Flow) /\ NoFlow \notin Flow
    /\ Parent \in [Flow -> Flow \cup {NoFlow}]
    /\ Late \subseteq {w \in Flow : Parent[w] # NoFlow}
    /\ Unknown \subseteq Late /\ Target \subseteq Flow
    /\ MaxControls \in Nat /\ MaxFaults \in Nat

Child == {w \in Flow : Parent[w] # NoFlow}
Children(p) == {c \in Child : Parent[c] = p}
Root == Flow \ Child

Ended == {"COMPLETED", "FAILED", "CANCELLED", "EXPIRED"}
FlowStatus == {"absent", "RUNNING", "PAUSED"} \cup Ended
NodeDone == {"COMPLETED", "FAILED", "SKIPPED"}
NodeStatus == {"PENDING", "READY", "LINKED"} \cup NodeDone
Outcome == {"COMPLETED", "FAILED"}
Db == [st : [Flow -> FlowStatus],       \* horsies_workflows
       work : [Flow -> {"open"} \cup Outcome],
       node : [Child -> NodeStatus]]    \* LINKED: ENQUEUED or RUNNING

VARIABLES
    db,
    outbox,    \* result of the work of a flow that waits for phase 2
    fin,       \* per flow: the phase-2 transaction of its result
    op,        \* the operator's pause, cancel or resume
    launch,    \* children somebody is about to launch outside of phase 2
    lacking,   \* children made READY by a worker that lacks their definition
    stray,     \* ghost: launched outside of phase 2 while the parent was stopped
    overrun,   \* ghost: failed for want of a definition after they were launched
    controls, faults

ghosts == <<stray, overrun>>
vars == <<db, outbox, fin, op, launch, lacking, ghosts, controls, faults>>

\* A transaction: the flows it holds, their rows as it leaves them, and the
\* flow it has climbed to.
Tx == [held : SUBSET Flow, rows : Db, top : Flow]
NoTx == [held |-> {}]
NoOp == [kind |-> "idle", from |-> NoFlow, held |-> {}, changed |-> {},
         scan |-> {}, found |-> {}]
Op == [kind : {"idle", "pause", "cancel", "resume"}, from : Flow \cup {NoFlow},
       held : SUBSET Flow, changed : SUBSET Flow,
       scan : SUBSET Flow, found : SUBSET Flow]

TypeOK ==
    /\ db \in Db
    /\ outbox \in [Flow -> {"none"} \cup Outcome]
    /\ fin \in [Flow -> Tx \cup {NoTx}]
    /\ op \in Op
    /\ launch \subseteq Child /\ lacking \subseteq Unknown
    /\ stray \subseteq Child /\ overrun \subseteq Unknown
    /\ controls \in 0..MaxControls /\ faults \in 0..MaxFaults

----------------------------------------------------------------------------
(* Rows.                                                                   *)

\* A child starts with the children that wait for no work.
StartClosed(C, S) ==
    /\ C \subseteq S
    /\ \A w \in Child \ Late : Parent[w] \in S => w \in S
Starting(C) == {w \in Flow : \A S \in SUBSET Flow : StartClosed(C, S) => w \in S}

Started(s, C) ==
    [s EXCEPT !.st = [w \in Flow |-> IF w \in Starting(C) THEN "RUNNING" ELSE @[w]],
              !.node = [c \in Child |-> IF c \in Starting(C) THEN "LINKED" ELSE @[c]]]

SetNodes(s, C, status) ==
    [s EXCEPT !.node = [c \in Child |-> IF c \in C THEN status ELSE @[c]]]

\* Children whose node waits for the work of p.
Waiting(s, p) == {c \in Children(p) : s.node[c] = "PENDING"}

\* The worker has no definition of the children in lack.
Promoted(s, p, lack) ==
    IF s.work[p] = "COMPLETED"
    THEN SetNodes(Started(s, Waiting(s, p) \ lack), lack, "FAILED")
    ELSE SetNodes(s, Waiting(s, p), "SKIPPED")

\* Slip: sub-workflow nodes are not counted.
PlainNodesDone(s, p) == s.work[p] # "open"

NodesDone(s, p) == s.work[p] # "open" /\ \A c \in Children(p) : s.node[c] \in NodeDone

\* complete_phase2_workflow_in_tx, check_workflow_completion.
Completed(s, p) ==
    IF s.st[p] = "RUNNING" /\ NodesDone(s, p)
    THEN [s EXCEPT !.st[p] =
            IF s.work[p] = "FAILED" \/ \E c \in Children(p) : s.node[c] = "FAILED"
            THEN "FAILED" ELSE "COMPLETED"]
    ELSE s

\* Slip: the node takes the status of its flow.
SameOutcome(status) == status

NodeOutcome(status) == IF status = "COMPLETED" THEN "COMPLETED" ELSE "FAILED"

\* Neither a node that is done nor one of a flow that ended is written.
Writable(s, c) == s.node[c] \notin NodeDone /\ s.st[Parent[c]] \notin Ended

NodeWritten(s, c) == SetNodes(s, {c}, NodeOutcome(s.st[c]))

\* propagate_terminal_child_in_tx.
Propagated(s, c) ==
    LET p == Parent[c] IN
    IF ~Writable(s, c) THEN s
    ELSE IF s.st[p] = "PAUSED" THEN NodeWritten(s, c)
    ELSE Completed(NodeWritten(s, c), p)

OpenNodes(s, w) == {c \in Children(w) : s.node[c] \in {"PENDING", "READY"}}

\* cancel_one_workflow_in_tx, expire_paused_workflows.
Stopped(s, w, status) ==
    [SetNodes(s, OpenNodes(s, w), "SKIPPED") EXCEPT !.st[w] = status]

Init ==
    /\ db = Started([st |-> [w \in Flow |-> "absent"], work |-> [w \in Flow |-> "open"],
                     node |-> [c \in Child |-> "PENDING"]], Root)
    /\ outbox = [w \in Flow |-> "none"]
    /\ fin = [w \in Flow |-> NoTx]
    /\ op = NoOp
    /\ launch = {} /\ lacking = {} /\ stray = {} /\ overrun = {}
    /\ controls = 0 /\ faults = 0

----------------------------------------------------------------------------
(* Phase 2: one transaction from the result of a flow up the tree.         *)

\* Slip: nobody waits for a row of another transaction.
LocksIgnored(w) == TRUE

Untouched(w) == \A v \in Flow : w \notin fin[v].held
Free(w) == w \notin op.held /\ Untouched(w)

\* The tasks of a flow end; what they report is stored (phase 1).
Work(w) ==
    /\ db.st[w] # "absent" /\ db.work[w] = "open" /\ outbox[w] = "none"
    /\ \E outcome \in Outcome : outbox' = [outbox EXCEPT ![w] = outcome]
    /\ UNCHANGED <<db, fin, op, launch, lacking, ghosts, controls, faults>>

\* horsies_phase2_consume locks the flow and writes its node; a running flow
\* progresses.  The result of a flow that ended is dropped.
Consumed(w, lack) ==
    LET s == [db EXCEPT !.work[w] = outbox[w]] IN
    CASE db.st[w] \in Ended    -> db
      [] db.st[w] = "PAUSED"   -> s
      [] db.st[w] = "RUNNING"  -> Completed(Promoted(s, w, lack), w)

Consume(w) ==
    /\ outbox[w] # "none" /\ fin[w] = NoTx /\ Free(w)
    /\ \E lack \in SUBSET (Waiting(db, w) \cap Unknown) :
       LET s == Consumed(w, lack) IN
       fin' = [fin EXCEPT ![w] =
         [rows |-> s, top |-> w,
          held |-> {w} \cup {v \in Flow : db.st[v] = "absent" /\ s.st[v] # "absent"}]]
    /\ UNCHANGED <<db, outbox, op, launch, lacking, ghosts, controls, faults>>

\* The transaction sees its own rows and the committed ones of others.
Seen(w) ==
    [st |-> [v \in Flow |-> IF v \in fin[w].held THEN fin[w].rows.st[v] ELSE db.st[v]],
     work |-> [v \in Flow |-> IF v \in fin[w].held THEN fin[w].rows.work[v] ELSE db.work[v]],
     node |-> [c \in Child |-> IF Parent[c] \in fin[w].held THEN fin[w].rows.node[c]
                                                           ELSE db.node[c]]]

\* It ended the flow it is at, so it needs the parent next.
Climbing(w) ==
    /\ fin[w] # NoTx
    /\ LET t == fin[w].top IN
       t \in Child /\ fin[w].rows.st[t] \in Ended /\ db.st[t] \notin Ended

Climb(w) ==
    /\ Climbing(w)
    /\ LET t == fin[w].top  p == Parent[t] IN
       /\ Free(p)
       /\ fin' = [fin EXCEPT ![w] = [rows |-> Propagated(Seen(w), t), top |-> p,
                                     held |-> fin[w].held \cup {p}]]
    /\ UNCHANGED <<db, outbox, op, launch, lacking, ghosts, controls, faults>>

Commit(w) ==
    /\ fin[w] # NoTx /\ ~Climbing(w)
    /\ db' = Seen(w)
    /\ outbox' = [outbox EXCEPT ![w] = "none"]
    /\ fin' = [fin EXCEPT ![w] = NoTx]
    /\ UNCHANGED <<op, launch, lacking, ghosts, controls, faults>>

----------------------------------------------------------------------------
(* Outside of phase 2: what a resume and recovery do for a running flow,   *)
(* each statement or small transaction by itself.                          *)

CheckCompletion(w) ==
    /\ Free(w) /\ Completed(db, w) # db
    /\ db' = Completed(db, w)
    /\ UNCHANGED <<outbox, fin, op, launch, lacking, ghosts, controls, faults>>

\* on_subworkflow_complete: after the end of a flow was committed, or by
\* recovery.  The node is written without a lock on the parent.
OnSubworkflowComplete(c) ==
    /\ db.st[c] \in Ended /\ db.node[c] = "LINKED" /\ Writable(db, c)
    /\ Untouched(Parent[c])
    /\ db' = NodeWritten(db, c)
    /\ UNCHANGED <<outbox, fin, op, launch, lacking, ghosts, controls, faults>>

\* Slip: recovery looks for children that completed or failed.
StaleFinishedChild(c) == db.st[c] \in Outcome /\ db.st[Parent[c]] = "RUNNING"

\* Case 1.6: the child ended and its node does not show it.
StaleChild(c) == db.st[c] \in Ended /\ db.st[Parent[c]] = "RUNNING"

RecoverChild(c) == StaleChild(c) /\ OnSubworkflowComplete(c)

\* process_dependents by a resume, or recovery case 0.
Reevaluate(c) ==
    LET p == Parent[c] IN
    /\ db.node[c] = "PENDING" /\ db.st[p] = "RUNNING" /\ db.work[p] # "open"
    /\ Untouched(p)
    /\ \/ /\ db' = SetNodes(db, {c}, IF db.work[p] = "COMPLETED" THEN "READY" ELSE "SKIPPED")
          /\ UNCHANGED lacking
       \/ /\ c \in Unknown /\ db.work[p] = "COMPLETED"
          /\ db' = SetNodes(db, {c}, "READY")
          /\ lacking' = lacking \cup {c}
    /\ UNCHANGED <<outbox, fin, op, launch, ghosts, controls, faults>>

\* fail_subworkflow_load.  Guarded on the node alone: what another worker has
\* launched since is failed too.
FailLoad(c) ==
    /\ c \in lacking /\ Untouched(Parent[c])
    /\ lacking' = lacking \ {c}
    /\ db' = IF db.node[c] \notin NodeDone THEN SetNodes(db, {c}, "FAILED") ELSE db
    /\ overrun' = IF db.node[c] = "LINKED" THEN overrun \cup {c} ELSE overrun
    /\ UNCHANGED <<outbox, fin, op, launch, stray, controls, faults>>

\* A READY node was read, in a running flow, and its child is started later; a
\* worker that lacks the definition gives up with an error and no effect.
BeginLaunch(c) ==
    /\ db.node[c] = "READY" /\ db.st[Parent[c]] = "RUNNING"
    /\ launch' = launch \cup {c}
    /\ UNCHANGED <<db, outbox, fin, op, lacking, ghosts, controls, faults>>

\* Slip: the link is not guarded on the node.
LinkAny(c) == TRUE

Linkable(c) == db.node[c] = "READY"

\* enqueue_subworkflow_on_resume: the link is guarded on the node alone.
EndLaunch(c) ==
    /\ c \in launch /\ Untouched(Parent[c])
    /\ launch' = launch \ {c}
    /\ db' = IF Linkable(c) THEN Started(db, {c}) ELSE db
    /\ stray' = IF db.st[Parent[c]] # "RUNNING" \/ Parent[c] \in op.held
                THEN stray \cup {c} ELSE stray
    /\ UNCHANGED <<outbox, fin, op, lacking, overrun, controls, faults>>

----------------------------------------------------------------------------
(* Pause, cancel, resume: one operator, breadth first.                     *)

Control == controls < MaxControls /\ controls' = controls + 1

Begin(kind, w) == [NoOp EXCEPT !.kind = kind, !.from = w, !.scan = {w}]

\* Nothing is visible of a pause before its commit.
BeginPause(w) ==
    /\ op = NoOp /\ Free(w) /\ db.st[w] = "RUNNING" /\ Control
    /\ op' = [Begin("pause", w) EXCEPT !.held = {w}, !.changed = {w}]
    /\ UNCHANGED <<db, outbox, fin, launch, lacking, ghosts, faults>>

BeginCancel(w) ==
    /\ op = NoOp /\ Free(w) /\ db.st[w] \in {"RUNNING", "PAUSED"} /\ Control
    /\ db' = Stopped(db, w, "CANCELLED")
    /\ op' = Begin("cancel", w)
    /\ UNCHANGED <<outbox, fin, launch, lacking, ghosts, faults>>

\* A flow that runs already is taken for one whose resume was cut short.
BeginResume(w) ==
    /\ op = NoOp /\ Free(w) /\ db.st[w] \in {"RUNNING", "PAUSED"} /\ Control
    /\ db' = [db EXCEPT !.st[w] = "RUNNING"]
    /\ op' = Begin("resume", w)
    /\ UNCHANGED <<outbox, fin, launch, lacking, ghosts, faults>>

\* One flow that was paused for long; its children are left as they are.
ExpirePaused(w) ==
    /\ Free(w) /\ db.st[w] = "PAUSED" /\ Control
    /\ db' = Stopped(db, w, "EXPIRED")
    /\ UNCHANGED <<outbox, fin, op, launch, lacking, ghosts, faults>>

\* The children each walk looks for.
Sought(kind) == CASE kind = "pause"  -> {"RUNNING"}
                  [] kind = "resume" -> {"PAUSED"}
                  [] kind = "cancel" -> {"RUNNING", "PAUSED"}

Scan(p) ==
    /\ p \in op.scan
    /\ op' = [op EXCEPT !.scan = @ \ {p},
                        !.found = @ \cup {c \in Children(p) : db.st[c] \in Sought(op.kind)}]
    /\ UNCHANGED <<db, outbox, fin, launch, lacking, ghosts, controls, faults>>

\* Slip: a pause keeps to the children of the flow it was asked for.
OnlyChildren(c) == {}

\* A pause goes on below the children it paused, the others below each.
Deeper(c) == IF op.kind = "pause" /\ db.st[c] # "RUNNING" THEN {} ELSE {c}

\* The status is looked at again once the row of the child is had.
Visit(c) ==
    /\ c \in op.found /\ Free(c)
    /\ LET hit == db.st[c] \in Sought(op.kind)  pause == op.kind = "pause" IN
       /\ op' = [op EXCEPT !.found = @ \ {c}, !.scan = @ \cup Deeper(c),
                           !.held = IF pause THEN @ \cup {c} ELSE @,
                           !.changed = IF pause /\ hit THEN @ \cup {c} ELSE @]
       /\ db' = IF ~hit \/ pause THEN db
                ELSE IF op.kind = "cancel" THEN Stopped(db, c, "CANCELLED")
                ELSE [db EXCEPT !.st[c] = "RUNNING"]
    /\ UNCHANGED <<outbox, fin, launch, lacking, ghosts, controls, faults>>

Walked == op # NoOp /\ op.scan = {} /\ op.found = {}

End ==
    /\ Walked
    /\ op' = NoOp
    /\ db' = [db EXCEPT !.st =
                [w \in Flow |-> IF w \in op.changed THEN "PAUSED" ELSE @[w]]]
    /\ UNCHANGED <<outbox, fin, launch, lacking, ghosts, controls, faults>>

----------------------------------------------------------------------------
(* Deadlocks and faults.                                                   *)

\* Phase 2 holds a child and wants its parent, the pause the reverse.
Deadlocked(w) ==
    Climbing(w) /\ Parent[fin[w].top] \in op.held /\ op.found \cap fin[w].held # {}

\* The database ends one of the two; what it did is undone.
RollBack(w) ==
    /\ \/ fin' = [fin EXCEPT ![w] = NoTx] /\ UNCHANGED op
       \/ op' = NoOp /\ UNCHANGED fin
    /\ UNCHANGED <<db, outbox, launch, lacking, ghosts, controls>>

Victim(w) == Deadlocked(w) /\ RollBack(w) /\ UNCHANGED faults

Fault == faults < MaxFaults /\ faults' = faults + 1

CrashPhase2(w) ==
    /\ fin[w] # NoTx /\ Fault
    /\ fin' = [fin EXCEPT ![w] = NoTx]
    /\ UNCHANGED <<db, outbox, op, launch, lacking, ghosts, controls>>

CrashOp ==
    /\ op # NoOp /\ Fault
    /\ op' = NoOp
    /\ UNCHANGED <<db, outbox, fin, launch, lacking, ghosts, controls>>

CrashLaunch(c) ==
    /\ Fault
    /\ \/ c \in launch /\ launch' = launch \ {c} /\ UNCHANGED lacking
       \/ c \in lacking /\ lacking' = lacking \ {c} /\ UNCHANGED launch
    /\ UNCHANGED <<db, outbox, fin, op, ghosts, controls>>

----------------------------------------------------------------------------

FlowNext ==
    \E w \in Flow :
        \/ Work(w) \/ Consume(w) \/ Climb(w) \/ Commit(w) \/ CheckCompletion(w)
        \/ Scan(w) \/ Victim(w) \/ CrashPhase2(w) \/ ExpirePaused(w)

ChildNext ==
    \E c \in Child :
        \/ OnSubworkflowComplete(c) \/ Reevaluate(c) \/ FailLoad(c)
        \/ BeginLaunch(c) \/ EndLaunch(c)
        \/ Visit(c) \/ CrashLaunch(c)

OperatorNext ==
    \/ \E w \in Target : BeginPause(w) \/ BeginCancel(w) \/ BeginResume(w)
    \/ End \/ CrashOp

Next == FlowNext \/ ChildNext \/ OperatorNext

Spec == Init /\ [][Next]_vars

(* Tasks of running flows end, results are consumed, recovery looks at     *)
(* running flows, an operation that began goes on, deadlocks are found.    *)
(* Every definition is known to a worker that gets its turn at recovery.   *)
(* Who waits for a row gets it in turn, so these steps are strongly fair.  *)
Fairness ==
    /\ \A w \in Flow :
        /\ WF_vars(db.st[w] = "RUNNING" /\ Work(w))
        /\ WF_vars(Consume(w)) /\ WF_vars(Commit(w))
        /\ WF_vars(CheckCompletion(w)) /\ WF_vars(Scan(w))
    /\ \A c \in Child :
        /\ SF_vars(Climb(c)) /\ WF_vars(Victim(c))
        /\ WF_vars(RecoverChild(c)) /\ SF_vars(Visit(c))
    /\ \A c \in Late : WF_vars(Reevaluate(c)) /\ WF_vars(BeginLaunch(c)) /\ WF_vars(EndLaunch(c))
    /\ \A c \in Unknown : WF_vars(FailLoad(c))
    /\ WF_vars(End)

FairSpec == Spec /\ Fairness

----------------------------------------------------------------------------
(* Properties.                                                             *)

\* A node and its flow never disagree, whichever of phase 2, a resume and
\* recovery started the flow or reported its end, and with whatever they had
\* read before: an unstarted node has no flow, a finished one shows its end, and
\* one that failed for want of a definition never gets a flow; but for a node
\* failed so by one worker after another had launched it (engine.rs:2036).
OutcomeAgrees ==
    \A c \in Child \ overrun :
        CASE db.node[c] = "COMPLETED" -> db.st[c] = "COMPLETED"
          [] db.node[c] = "FAILED"    -> \/ db.st[c] \in Ended \ {"COMPLETED"}
                                         \/ c \in Unknown /\ db.st[c] = "absent"
          [] db.node[c] = "LINKED"    -> db.st[c] # "absent"
          [] OTHER                    -> db.st[c] = "absent"

\* A flow that reached COMPLETED or FAILED by itself has no child that may
\* still run (complete_phase2_workflow_in_tx, check_workflow_completion).
FinishedHasNoLiveChild ==
    \A c \in Child \ overrun :
        db.st[Parent[c]] \in Outcome => db.st[c] \in Ended \cup {"absent"}

\* The rows of a parent and of its child agree in both respects at any commit.
TreeAgrees == OutcomeAgrees /\ FinishedHasNoLiveChild

\* When a pause commits, no flow below the flows it paused runs, although
\* children end, and phase 2 starts others, while it walks the tree; but for
\* the children a resume or recovery is launching (lifecycle.rs:577).
PauseCoversTree ==
    [][\A c \in Child \ stray :
         db.st[Parent[c]] # "PAUSED" /\ db'.st[Parent[c]] = "PAUSED"
           => db'.st[c] # "RUNNING"]_vars

\* Without a crash a cancel that returned left no live child under a
\* cancelled flow, whatever was being launched (lifecycle.rs:768).
CancelReachesChildren ==
    op = NoOp /\ faults = 0 =>
        \A c \in Child : db.st[Parent[c]] = "CANCELLED" => db.st[c] \notin {"RUNNING", "PAUSED"}

\* Unless something stays paused, the tree ends, though transactions are the
\* victims of deadlocks, callbacks get lost, and children are cancelled or
\* expire by themselves (recovery.rs:183).
TreeEnds ==
    <>[](\A w \in Flow : db.st[w] # "PAUSED") =>
        <>(\A w \in Root : db.st[w] \in Ended)
=============================================================================
