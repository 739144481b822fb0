------------------------ MODULE WorkflowTree_proofs ------------------------
(***************************************************************************)
(* Proofs about WorkflowTree, for every tree.  A transaction of phase 2    *)
(* works on rows nobody else sees yet, so the relation between the rows of *)
(* a parent and of its child is carried in two places: in the committed    *)
(* rows and in what each open transaction sees.                            *)
(***************************************************************************)
EXTENDS WorkflowTree, TLAPS

-----------------------------------------------------------------------------
(* The inductive invariant.                                                *)

\* The status sp of a parent, the node nc of its child c and the status sc of the
\* child, where the children of O were overrun.
Edge(O, c, sp, nc, sc) ==
    /\ c \in O => nc = "FAILED"
    /\ c \notin O =>
        /\ nc = "COMPLETED" => sc = "COMPLETED"
        /\ nc = "FAILED" => \/ sc \in Ended \ {"COMPLETED"}
                            \/ c \in Unknown /\ sc = "absent"
        /\ nc = "LINKED" => sc # "absent"
        /\ nc \in {"PENDING", "READY", "SKIPPED"} => sc = "absent"
    /\ sp = "absent" => nc = "PENDING"
    /\ sp \in Outcome => nc \in NodeDone
    /\ sp \in {"CANCELLED", "EXPIRED"} => nc \notin {"PENDING", "READY"}
EdgesSound(O, s) == \A c \in Child : Edge(O, c, s.st[Parent[c]], s.node[c], s.st[c])

\* What may happen to a flow that exists.
Moves(a, b) == b = a \/ (a \in {"RUNNING", "PAUSED"} /\ b # "absent")

Held(x) == fin[x].held

\* An open transaction ends a running flow or starts absent ones, whose parents it
\* holds; what it sees is sound.
TxSound(x) ==
    fin[x] # NoTx =>
        /\ fin[x].top \in Held(x)
        /\ \A v \in Held(x) :
              \/ fin[x].rows.st[v] = db.st[v]
              \/ db.st[v] = "RUNNING" /\ fin[x].rows.st[v] \in Outcome
              \/ db.st[v] = "absent" /\ fin[x].rows.st[v] = "RUNNING"
        /\ \A v \in Held(x) : db.st[v] = "absent" =>
              /\ v \in Child /\ Parent[v] \in Held(x)
              /\ db.st[Parent[v]] \notin Ended
        /\ EdgesSound(overrun, Seen(x))

LocksApart ==
    /\ \A x, y \in Flow : x # y => Held(x) \cap Held(y) = {}
    /\ \A x \in Flow : Held(x) \cap op.held = {}

OpSound ==
    /\ op.kind = "idle" => op = NoOp
    /\ op.kind # "pause" => op.held = {} /\ op.changed = {}
    /\ op.changed \subseteq op.held
    /\ \A v \in op.changed : db.st[v] = "RUNNING"
    /\ op.found \subseteq Child
    /\ \A v \in op.held \cup op.found : db.st[v] # "absent"

\* A running child of a flow that the pause will pause is paused with it or found
\* later.
PauseWalk ==
    \A c \in Child \ stray :
        Parent[c] \in op.changed /\ db.st[c] = "RUNNING"
        => Parent[c] \in op.scan \/ c \in op.found \cup op.changed

\* A live child of a cancelled flow will be found by the cancel that goes on.
CancelWalk ==
    faults = 0 =>
        \A c \in Child :
            db.st[Parent[c]] = "CANCELLED" /\ db.st[c] \in {"RUNNING", "PAUSED"}
            => op.kind = "cancel" /\ (Parent[c] \in op.scan \/ c \in op.found)

\* A flow with a result, or with a node that is to be failed, exists.
FlowsPresent ==
    \A w \in Flow : outbox[w] # "none" \/ (\E c \in lacking : Parent[c] = w)
                    => db.st[w] # "absent"

Walks == OpSound /\ PauseWalk /\ CancelWalk
IInv ==
    /\ TypeOK
    /\ EdgesSound(overrun, db)
    /\ \A x \in Flow : TxSound(x)
    /\ LocksApart
    /\ Walks
    /\ FlowsPresent

-----------------------------------------------------------------------------
(* The helpers on rows.                                                    *)

LEMMA FlowsTyped ==
    /\ NoFlow \notin Flow
    /\ Child \subseteq Flow /\ Root \subseteq Flow /\ Late \subseteq Child
    /\ \A c \in Child : Parent[c] \in Flow
    /\ \A p : Children(p) \subseteq Child /\ \A c \in Children(p) : Parent[c] = p
BY TreeAssumption DEF Child, Root, Children

\* The flows that start are the least set with those asked for and their children.
LEMMA StartingLeast ==
    ASSUME NEW C, C \subseteq Flow
    PROVE  /\ C \subseteq Starting(C) /\ Starting(C) \subseteq Flow
           /\ \A S \in SUBSET Flow : StartClosed(C, S) => Starting(C) \subseteq S
           /\ \A c \in Child \ Late : Parent[c] \in Starting(C) => c \in Starting(C)
           /\ \A w \in Starting(C) \ C : w \in Child \ Late /\ Parent[w] \in Starting(C)
<1>1. /\ C \subseteq Starting(C) /\ Starting(C) \subseteq Flow
      /\ \A S \in SUBSET Flow : StartClosed(C, S) => Starting(C) \subseteq S
  BY DEF Starting, StartClosed
<1>2. \A c \in Child \ Late : Parent[c] \in Starting(C) => c \in Starting(C)
  BY FlowsTyped DEF Starting, StartClosed
<1>3. ASSUME NEW w \in Starting(C) \ C, ~(w \in Child \ Late /\ Parent[w] \in Starting(C))
      PROVE  FALSE
  <2>1. StartClosed(C, Starting(C) \ {w})
    BY <1>1, <1>2, <1>3 DEF StartClosed
  <2>2. QED
    BY <1>1, <1>3, <2>1
<1>4. QED
  BY <1>1, <1>2, <1>3

LEMMA DbTyped ==
    ASSUME NEW s \in Db
    PROVE  /\ s.st \in [Flow -> FlowStatus] /\ s.work \in [Flow -> {"open"} \cup Outcome]
           /\ s.node \in [Child -> NodeStatus]
           /\ \A w \in Flow : s.st[w] \in FlowStatus
           /\ \A c \in Child : s.node[c] \in NodeStatus
BY DEF Db

LEMMA StartedRows ==
    ASSUME NEW s \in Db, NEW C, C \subseteq Flow
    PROVE  /\ Started(s, C) \in Db
           /\ Started(s, C).work = s.work
           /\ \A w \in Flow : Started(s, C).st[w] = IF w \in Starting(C) THEN "RUNNING" ELSE s.st[w]
           /\ \A c \in Child : Started(s, C).node[c] = IF c \in Starting(C) THEN "LINKED" ELSE s.node[c]
BY DEF Started, Db, FlowStatus, NodeStatus

LEMMA SetNodesRows ==
    ASSUME NEW s \in Db, NEW C, NEW status \in NodeStatus
    PROVE  /\ SetNodes(s, C, status) \in Db
           /\ SetNodes(s, C, status).st = s.st /\ SetNodes(s, C, status).work = s.work
           /\ \A c \in Child : SetNodes(s, C, status).node[c] = IF c \in C THEN status ELSE s.node[c]
BY DEF SetNodes, Db

LEMMA SetStatusRows ==
    ASSUME NEW s \in Db, NEW w \in Flow, NEW status \in FlowStatus
    PROVE  /\ [s EXCEPT !.st[w] = status] \in Db
           /\ [s EXCEPT !.st[w] = status].work = s.work
           /\ [s EXCEPT !.st[w] = status].node = s.node
           /\ \A v \in Flow : [s EXCEPT !.st[w] = status].st[v] = IF v = w THEN status ELSE s.st[v]
BY DEF Db

\* The rows outside of W are as they were.
Outside(s, t, W) ==
    \A v \in Flow \ W : /\ t.st[v] = s.st[v] /\ t.work[v] = s.work[v]
                        /\ \A c \in Child : Parent[c] = v => t.node[c] = s.node[c]

LEMMA CompletedRows ==
    ASSUME NEW s \in Db, NEW p \in Flow
    PROVE  /\ Completed(s, p) \in Db /\ Completed(s, p).node = s.node
           /\ Completed(s, p).work = s.work
           /\ \A v \in Flow \ {p} : Completed(s, p).st[v] = s.st[v]
           /\ \/ Completed(s, p) = s
              \/ /\ s.st[p] = "RUNNING" /\ Completed(s, p).st[p] \in Outcome
                 /\ \A c \in Children(p) : s.node[c] \in NodeDone
<1>1. CASE s.st[p] = "RUNNING" /\ NodesDone(s, p)
  <2>1. PICK status \in Outcome : Completed(s, p) = [s EXCEPT !.st[p] = status]
    BY <1>1 DEF Completed, Outcome
  <2>2. status \in FlowStatus
    BY DEF Outcome, FlowStatus, Ended
  <2> DEFINE r == [s EXCEPT !.st[p] = status]
  <2>3. /\ r \in Db /\ r.work = s.work /\ r.node = s.node
        /\ \A v \in Flow : r.st[v] = IF v = p THEN status ELSE s.st[v]
    BY <2>2, SetStatusRows
  <2> HIDE DEF r
  <2>4. Completed(s, p) = r
    BY <2>1 DEF r
  <2>5. QED
    BY <1>1, <2>3, <2>4 DEF NodesDone
<1>2. CASE ~(s.st[p] = "RUNNING" /\ NodesDone(s, p))
  BY <1>2 DEF Completed
<1>3. QED
  BY <1>1, <1>2

LEMMA NodeOutcomes ==
    ASSUME NEW status \in Ended
    PROVE  /\ NodeOutcome(status) \in NodeDone /\ NodeOutcome(status) \in NodeStatus
           /\ NodeOutcome(status) = "COMPLETED" => status = "COMPLETED"
           /\ NodeOutcome(status) = "FAILED" => status # "COMPLETED"
           /\ NodeOutcome(status) # "SKIPPED"
BY DEF NodeOutcome, NodeDone, NodeStatus

-----------------------------------------------------------------------------
(* Edges.                                                                  *)

\* An edge survives what may happen to a flow that exists.
LEMMA EdgeStable ==
    ASSUME NEW O, NEW c, NEW sp, NEW nc \in NodeStatus, NEW a, NEW b,
           Edge(O, c, sp, nc, a), Moves(a, b)
    PROVE  Edge(O, c, sp, nc, b)
BY DEF Edge, Moves, Ended, NodeStatus, NodeDone

\* A change of status of one flow.
LEMMA StatusKeepsEdges ==
    ASSUME NEW O, NEW s \in Db, NEW t \in Db, NEW w \in Flow, EdgesSound(O, s), t.node = s.node,
           \A v \in Flow \ {w} : t.st[v] = s.st[v],
           Moves(s.st[w], t.st[w]),
           \/ t.st[w] \in {"RUNNING", "PAUSED"}
           \/ t.st[w] \in Outcome /\ \A c \in Children(w) : s.node[c] \in NodeDone
           \/ t.st[w] = s.st[w]
    PROVE  EdgesSound(O, t)
<1> SUFFICES ASSUME NEW c \in Child PROVE Edge(O, c, t.st[Parent[c]], t.node[c], t.st[c])
  BY DEF EdgesSound
<1>1. Edge(O, c, s.st[Parent[c]], s.node[c], s.st[c]) /\ s.node[c] \in NodeStatus
      /\ c \in Flow /\ Parent[c] \in Flow
  BY DbTyped, FlowsTyped DEF EdgesSound
<1>2. Moves(s.st[c], t.st[c])
  BY <1>1 DEF Moves
<1>3. Edge(O, c, s.st[Parent[c]], t.node[c], t.st[c])
  BY <1>1, <1>2, EdgeStable
<1>4. CASE Parent[c] # w
  BY <1>1, <1>3, <1>4
<1>5. CASE Parent[c] = w
  BY <1>3, <1>5 DEF Edge, Children, Outcome
<1>6. QED
  BY <1>4, <1>5

LEMMA CompletedSound ==
    ASSUME NEW O, NEW s \in Db, EdgesSound(O, s), NEW p \in Flow
    PROVE  EdgesSound(O, Completed(s, p)) /\ Moves(s.st[p], Completed(s, p).st[p])
<1> DEFINE t == Completed(s, p)
<1>1. /\ t \in Db /\ t.node = s.node /\ \A v \in Flow \ {p} : t.st[v] = s.st[v]
      /\ \/ t = s
         \/ /\ s.st[p] = "RUNNING" /\ t.st[p] \in Outcome
            /\ \A c \in Children(p) : s.node[c] \in NodeDone
  BY CompletedRows
<1> HIDE DEF t
<1>2. Moves(s.st[p], t.st[p])
  BY <1>1 DEF Moves, Outcome
<1>3. EdgesSound(O, t)
  BY <1>1, <1>2, StatusKeepsEdges
<1>4. QED
  BY <1>2, <1>3 DEF t

\* Nodes of absent children may be taken up, skipped or failed for want of a
\* definition, the node of an ended child shows its outcome.
LEMMA NodesKeepEdges ==
    ASSUME NEW O, NEW s \in Db, NEW t \in Db, EdgesSound(O, s), t.st = s.st,
           \A c \in Child :
               \/ t.node[c] = s.node[c]
               \/ s.node[c] \in {"PENDING", "READY"} /\ t.node[c] = "SKIPPED"
                  /\ s.st[Parent[c]] # "absent"
               \/ s.node[c] \in {"PENDING", "READY"} /\ t.node[c] = "READY"
                  /\ s.st[Parent[c]] = "RUNNING"
               \/ s.node[c] \in {"PENDING", "READY"} /\ t.node[c] = "FAILED"
                  /\ s.st[Parent[c]] # "absent" /\ c \in Unknown
               \/ s.st[c] \in Ended /\ t.node[c] = NodeOutcome(s.st[c])
                  /\ s.st[Parent[c]] # "absent" /\ s.node[c] \notin NodeDone
    PROVE  EdgesSound(O, t)
<1> SUFFICES ASSUME NEW c \in Child PROVE Edge(O, c, s.st[Parent[c]], t.node[c], s.st[c])
  BY DEF EdgesSound
<1>1. Edge(O, c, s.st[Parent[c]], s.node[c], s.st[c]) /\ c \in Flow
  BY FlowsTyped DEF EdgesSound
<1>2. CASE /\ s.st[c] \in Ended /\ t.node[c] = NodeOutcome(s.st[c])
           /\ s.st[Parent[c]] # "absent" /\ s.node[c] \notin NodeDone
  BY <1>1, <1>2, NodeOutcomes DEF Edge, NodeDone, Ended
<1>3. CASE ~(/\ s.st[c] \in Ended /\ t.node[c] = NodeOutcome(s.st[c])
             /\ s.st[Parent[c]] # "absent" /\ s.node[c] \notin NodeDone)
  BY <1>1, <1>3 DEF Edge, NodeDone, Ended, Outcome
<1>4. QED
  BY <1>2, <1>3

\* Absent children of a running flow start, with their own.
LEMMA StartedSound ==
    ASSUME NEW O, NEW s \in Db, EdgesSound(O, s), NEW C, C \subseteq Child,
           \A c \in C : /\ s.node[c] \in {"PENDING", "READY"}
                        /\ s.st[Parent[c]] \in {"RUNNING", "PAUSED"}
    PROVE  /\ EdgesSound(O, Started(s, C))
           /\ \A w \in Starting(C) : s.st[w] = "absent" /\ w \in Child
           /\ \A c \in Starting(C) : Parent[c] \in Starting(C) \/ c \in C
<1>1. C \subseteq Flow
  BY FlowsTyped
<1>2. /\ C \subseteq Starting(C) /\ Starting(C) \subseteq Flow
      /\ \A S \in SUBSET Flow : StartClosed(C, S) => Starting(C) \subseteq S
      /\ \A c \in Child \ Late : Parent[c] \in Starting(C) => c \in Starting(C)
      /\ \A w \in Starting(C) \ C : w \in Child \ Late /\ Parent[w] \in Starting(C)
  BY <1>1, StartingLeast
<1>3. \A c \in Child : Edge(O, c, s.st[Parent[c]], s.node[c], s.st[c])
  BY DEF EdgesSound
<1>4. \A w \in Starting(C) : s.st[w] = "absent" /\ w \in Child
  <2> DEFINE S == {w \in Flow : s.st[w] = "absent"}
  <2>1. StartClosed(C, S)
    BY <1>1, <1>3, FlowsTyped DEF StartClosed, Edge
  <2>2. QED
    BY <1>2, <2>1
<1>5. ASSUME NEW c \in Child
      PROVE  Edge(O, c, Started(s, C).st[Parent[c]], Started(s, C).node[c], Started(s, C).st[c])
  <2>1. c \in Flow /\ Parent[c] \in Flow
    BY FlowsTyped
  <2>2. CASE c \in Starting(C)
    <3>0. c \notin O
      BY <1>2, <1>3, <1>4, <2>2 DEF Edge
    <3>1. Started(s, C).st[Parent[c]] \in {"RUNNING", "PAUSED"}
      BY <1>1, <1>2, <2>1, <2>2, StartedRows
    <3>2. Started(s, C).node[c] = "LINKED" /\ Started(s, C).st[c] = "RUNNING"
      BY <1>1, <2>1, <2>2, StartedRows
    <3>3. QED
      BY <3>0, <3>1, <3>2 DEF Edge, Outcome
  <2>3. CASE c \notin Starting(C)
    <3>1. Started(s, C).node[c] = s.node[c] /\ Started(s, C).st[c] = s.st[c]
      BY <1>1, <2>1, <2>3, StartedRows
    <3>2. CASE Parent[c] \in Starting(C)
      <4>1. Started(s, C).st[Parent[c]] = "RUNNING"
        BY <1>1, <2>1, <3>2, StartedRows
      <4>2. QED
        BY <1>3, <3>1, <4>1 DEF Edge, Outcome
    <3>3. CASE Parent[c] \notin Starting(C)
      <4>1. Started(s, C).st[Parent[c]] = s.st[Parent[c]]
        BY <1>1, <2>1, <3>3, StartedRows
      <4>2. QED
        BY <1>3, <3>1, <4>1
    <3>4. QED
      BY <3>2, <3>3
  <2>4. QED
    BY <2>2, <2>3
<1>6. QED
  BY <1>2, <1>4, <1>5 DEF EdgesSound

LEMMA StoppedSound ==
    ASSUME NEW O, NEW s \in Db, EdgesSound(O, s), NEW w \in Flow,
           NEW status \in {"CANCELLED", "EXPIRED"}, s.st[w] \in {"RUNNING", "PAUSED"}
    PROVE  /\ Stopped(s, w, status) \in Db /\ EdgesSound(O, Stopped(s, w, status))
           /\ Outside(s, Stopped(s, w, status), {w})
           /\ Stopped(s, w, status).st[w] = status
<1> DEFINE m == SetNodes(s, OpenNodes(s, w), "SKIPPED")
           t == [m EXCEPT !.st[w] = status]
<1>1. status \in FlowStatus /\ status \in Ended /\ "SKIPPED" \in NodeStatus
  BY DEF FlowStatus, Ended, NodeStatus, NodeDone
<1>2. /\ m \in Db /\ m.st = s.st /\ m.work = s.work
      /\ \A c \in Child : m.node[c] = IF c \in OpenNodes(s, w) THEN "SKIPPED" ELSE s.node[c]
  BY <1>1, SetNodesRows
<1>3. Stopped(s, w, status) = t
  BY DEF Stopped
<1> HIDE DEF m
<1>4. /\ t \in Db /\ t.work = m.work /\ t.node = m.node
      /\ \A v \in Flow : t.st[v] = IF v = w THEN status ELSE m.st[v]
  BY <1>1, <1>2, SetStatusRows
<1> HIDE DEF t
<1>5. Outside(s, t, {w}) /\ t.st[w] = status
  BY <1>2, <1>4 DEF Outside, OpenNodes, Children
<1>6. ASSUME NEW c \in Child PROVE Edge(O, c, t.st[Parent[c]], t.node[c], t.st[c])
  <2>1. Edge(O, c, s.st[Parent[c]], s.node[c], s.st[c]) /\ c \in Flow /\ Parent[c] \in Flow
        /\ s.node[c] \in NodeStatus
    BY FlowsTyped, DbTyped DEF EdgesSound
  <2>2. Moves(s.st[c], t.st[c])
    BY <1>2, <1>4, <2>1 DEF Moves
  <2>3. Edge(O, c, s.st[Parent[c]], s.node[c], t.st[c])
    BY <2>1, <2>2, EdgeStable
  <2>4. CASE Parent[c] # w
    BY <1>2, <1>4, <2>1, <2>3, <2>4 DEF OpenNodes, Children
  <2>5. CASE Parent[c] = w
    <3>1. t.st[Parent[c]] = status /\ s.st[Parent[c]] \in {"RUNNING", "PAUSED"}
      BY <1>4, <2>5
    <3>2. t.node[c] = IF s.node[c] \in {"PENDING", "READY"} THEN "SKIPPED" ELSE s.node[c]
      BY <1>2, <1>4, <2>5 DEF OpenNodes, Children
    <3>3. QED
      BY <2>3, <3>1, <3>2 DEF Edge, Outcome, NodeDone
  <2>6. QED
    BY <2>4, <2>5
<1>7. QED
  BY <1>3, <1>4, <1>5, <1>6 DEF EdgesSound

\* The flows that t has and s has not.
Born(s, t) == {v \in Flow : s.st[v] = "absent" /\ t.st[v] # "absent"}

\* From s to t the row of p changes and flows are born below it.
GrownAt(O, s, t, p) ==
    /\ t \in Db /\ EdgesSound(O, t)
    /\ Outside(s, t, {p} \cup Born(s, t))
    /\ \A v \in Born(s, t) :
          /\ t.st[v] = "RUNNING" /\ v \in Child /\ Parent[v] \in {p} \cup Born(s, t)
          /\ s.st[Parent[v]] \notin Ended
    /\ \A S \in SUBSET Flow :
          (\A v \in Born(s, t) : Parent[v] \in {p} \cup S => v \in S) => Born(s, t) \subseteq S
    /\ t.st[p] = s.st[p] \/ (s.st[p] = "RUNNING" /\ t.st[p] \in Outcome)

LEMMA StartedGrown ==
    ASSUME NEW O, NEW s \in Db, EdgesSound(O, s), NEW p \in Flow, s.st[p] \in {"RUNNING", "PAUSED"},
           NEW C, C \subseteq Child,
           \A c \in C : s.node[c] \in {"PENDING", "READY"} /\ Parent[c] = p
    PROVE  /\ GrownAt(O, s, Started(s, C), p) /\ Started(s, C).st[p] = s.st[p]
           /\ Born(s, Started(s, C)) = Starting(C)
<1> DEFINE t == Started(s, C)
<1>1. C \subseteq Flow
  BY FlowsTyped
<1>2. /\ t \in Db /\ t.work = s.work
      /\ \A w \in Flow : t.st[w] = IF w \in Starting(C) THEN "RUNNING" ELSE s.st[w]
      /\ \A c \in Child : t.node[c] = IF c \in Starting(C) THEN "LINKED" ELSE s.node[c]
  BY <1>1, StartedRows
<1>3. /\ C \subseteq Starting(C) /\ Starting(C) \subseteq Flow
      /\ \A S \in SUBSET Flow : StartClosed(C, S) => Starting(C) \subseteq S
      /\ \A c \in Child \ Late : Parent[c] \in Starting(C) => c \in Starting(C)
  BY <1>1, StartingLeast
<1>4. /\ EdgesSound(O, t)
      /\ \A w \in Starting(C) : s.st[w] = "absent" /\ w \in Child
      /\ \A c \in Starting(C) : Parent[c] \in Starting(C) \/ c \in C
  BY StartedSound
<1> HIDE DEF t
<1>5. Born(s, t) = Starting(C)
  BY <1>2, <1>3, <1>4 DEF Born
<1>6. Outside(s, t, {p} \cup Starting(C))
  BY <1>2, <1>4 DEF Outside
<1>7. t.st[p] = s.st[p]
  BY <1>2, <1>4
<1>8. \A v \in Starting(C) : /\ t.st[v] = "RUNNING" /\ v \in Child
                             /\ Parent[v] \in {p} \cup Starting(C)
                             /\ s.st[Parent[v]] \notin Ended
  BY <1>2, <1>3, <1>4 DEF Ended
<1>9. ASSUME NEW S \in SUBSET Flow, \A v \in Starting(C) : Parent[v] \in {p} \cup S => v \in S
      PROVE  Starting(C) \subseteq S
  <2>1. StartClosed(C, S \cap Starting(C))
    BY <1>3, <1>9 DEF StartClosed
  <2>2. S \cap Starting(C) \in SUBSET Flow
    OBVIOUS
  <2>3. QED
    BY <1>3, <2>1, <2>2
<1>10. QED
  BY <1>2, <1>4, <1>5, <1>6, <1>7, <1>8, <1>9 DEF GrownAt, t

LEMMA PromotedSound ==
    ASSUME NEW O, NEW s \in Db, EdgesSound(O, s), NEW p \in Flow, s.st[p] = "RUNNING",
           NEW lack, lack \subseteq Waiting(s, p) \cap Unknown
    PROVE  GrownAt(O, s, Promoted(s, p, lack), p) /\ Promoted(s, p, lack).st[p] = s.st[p]
<1> DEFINE t == Promoted(s, p, lack)
           C == Waiting(s, p)
           D == C \ lack
<1>1. C \subseteq Child /\ \A c \in C : s.node[c] = "PENDING" /\ Parent[c] = p
  BY DEF Waiting, Children
<1>2. CASE s.work[p] = "COMPLETED"
  <2> DEFINE m == Started(s, D)
  <2>1. t = SetNodes(m, lack, "FAILED") /\ "FAILED" \in NodeStatus
    BY <1>2 DEF Promoted, NodeStatus, NodeDone
  <2>2. D \subseteq Child /\ D \subseteq Flow /\ lack \subseteq C /\ lack \cap D = {}
        /\ lack \subseteq Late /\ lack \subseteq Unknown
    BY <1>1, FlowsTyped, TreeAssumption
  <2> HIDE DEF C, D, t
  <2>3. /\ GrownAt(O, s, m, p) /\ m.st[p] = s.st[p] /\ Born(s, m) = Starting(D)
    BY <1>1, <2>2, StartedGrown DEF D
  <2>4. \A c \in Child : m.node[c] = IF c \in Starting(D) THEN "LINKED" ELSE s.node[c]
    BY <2>2, StartedRows
  <2>5. lack \cap Starting(D) = {}
    BY <2>2, StartingLeast
  <2>6. \A c \in lack : m.node[c] = "PENDING" /\ m.st[Parent[c]] = "RUNNING"
    BY <1>1, <2>2, <2>3, <2>4, <2>5
  <2> HIDE DEF m
  <2>7. m \in Db /\ EdgesSound(O, m)
    BY <2>3 DEF GrownAt
  <2>8. /\ t \in Db /\ t.st = m.st /\ t.work = m.work
        /\ \A c \in Child : t.node[c] = IF c \in lack THEN "FAILED" ELSE m.node[c]
    BY <2>1, <2>7, SetNodesRows
  <2>9. EdgesSound(O, t)
    BY <2>2, <2>6, <2>7, <2>8, NodesKeepEdges
  <2>10. Born(s, t) = Born(s, m)
    BY <2>8 DEF Born
  <2>11. Outside(s, t, {p} \cup Born(s, m))
    BY <1>1, <2>2, <2>3, <2>8 DEF GrownAt, Outside
  <2>12. GrownAt(O, s, t, p) /\ t.st[p] = s.st[p]
    BY <2>3, <2>8, <2>9, <2>10, <2>11 DEF GrownAt
  <2>13. QED
    BY <2>12 DEF t
<1>3. CASE s.work[p] # "COMPLETED"
  <2>1. t = SetNodes(s, C, "SKIPPED") /\ "SKIPPED" \in NodeStatus
    BY <1>3 DEF Promoted, NodeStatus, NodeDone
  <2> HIDE DEF C, t
  <2>2. /\ t \in Db /\ t.st = s.st /\ t.work = s.work
        /\ \A c \in Child : t.node[c] = IF c \in C THEN "SKIPPED" ELSE s.node[c]
    BY <2>1, SetNodesRows
  <2>3. EdgesSound(O, t)
    BY <1>1, <2>2, NodesKeepEdges
  <2>4. Born(s, t) = {} /\ Outside(s, t, {p})
    BY <1>1, <2>2 DEF Born, Outside
  <2>5. QED
    BY <2>2, <2>3, <2>4 DEF GrownAt, t
<1>4. QED
  BY <1>2, <1>3

LEMMA ConsumedSound ==
    ASSUME TypeOK, EdgesSound(overrun, db), NEW w \in Flow, outbox[w] # "none", db.st[w] # "absent",
           NEW lack, lack \subseteq Waiting(db, w) \cap Unknown
    PROVE  GrownAt(overrun, db, Consumed(w, lack), w)
<1> DEFINE s == [db EXCEPT !.work[w] = outbox[w]]
<1>1. db \in Db /\ outbox[w] \in Outcome
  BY DEF TypeOK
<1>2. /\ s \in Db /\ s.st = db.st /\ s.node = db.node
      /\ \A v \in Flow \ {w} : s.work[v] = db.work[v]
  BY <1>1 DEF Db
<1>3. EdgesSound(overrun, s)
  BY <1>2 DEF EdgesSound
<1>4. CASE db.st[w] \in Ended
  <2>1. Consumed(w, lack) = db
    BY <1>4 DEF Consumed, Ended
  <2>2. QED
    BY <1>1, <2>1 DEF GrownAt, Born, Outside
<1>5. CASE db.st[w] = "PAUSED"
  <2>1. Consumed(w, lack) = s
    BY <1>5 DEF Consumed, Ended
  <2> HIDE DEF s
  <2>2. QED
    BY <1>2, <1>3, <2>1 DEF GrownAt, Born, Outside
<1>6. CASE db.st[w] = "RUNNING"
  <2> DEFINE m == Promoted(s, w, lack)
             t == Completed(m, w)
  <2>1. Consumed(w, lack) = t
    BY <1>6 DEF Consumed, Ended
  <2>0. lack \subseteq Waiting(s, w) \cap Unknown
    BY <1>2 DEF Waiting
  <2> HIDE DEF s
  <2>2. GrownAt(overrun, s, m, w) /\ m.st[w] = "RUNNING"
    BY <1>2, <1>3, <1>6, <2>0, PromotedSound
  <2> HIDE DEF m
  <2>3. /\ t \in Db /\ t.node = m.node /\ t.work = m.work
        /\ \A v \in Flow \ {w} : t.st[v] = m.st[v]
        /\ t.st[w] = m.st[w] \/ t.st[w] \in Outcome
    BY <2>2, CompletedRows DEF GrownAt
  <2>4. EdgesSound(overrun, t)
    BY <2>2, CompletedSound DEF GrownAt
  <2> HIDE DEF t
  <2>5. Born(db, t) = Born(s, m)
    BY <1>2, <1>6, <2>2, <2>3 DEF Born
  <2>6. Outside(db, t, {w} \cup Born(s, m))
    BY <1>2, <2>2, <2>3 DEF GrownAt, Outside
  <2>7. \A v \in Born(s, m) : v # w /\ t.st[v] = "RUNNING" /\ v \in Child
                              /\ Parent[v] \in {w} \cup Born(s, m)
                              /\ db.st[Parent[v]] \notin Ended
    <3>1. \A v \in Born(s, m) : v # w /\ v \in Flow
      BY <1>2, <1>6 DEF Born
    <3>2. QED
      BY <1>2, <2>2, <2>3, <3>1 DEF GrownAt, Ended
  <2>8. t.st[w] = db.st[w] \/ (db.st[w] = "RUNNING" /\ t.st[w] \in Outcome)
    BY <1>6, <2>2, <2>3
  <2>9. \A S \in SUBSET Flow :
            (\A v \in Born(s, m) : Parent[v] \in {w} \cup S => v \in S) => Born(s, m) \subseteq S
    BY <2>2 DEF GrownAt
  <2>10. QED
    BY <2>1, <2>3, <2>4, <2>5, <2>6, <2>7, <2>8, <2>9 DEF GrownAt
<1>7. QED
  BY <1>1, <1>4, <1>5, <1>6, DbTyped DEF FlowStatus

\* The end of a child shows in its node, and may complete the parent.
LEMMA NodeWrittenSound ==
    ASSUME NEW O, NEW s \in Db, EdgesSound(O, s), NEW c \in Child, s.st[c] \in Ended,
           s.node[c] \notin NodeDone
    PROVE  /\ NodeWritten(s, c) \in Db /\ EdgesSound(O, NodeWritten(s, c))
           /\ NodeWritten(s, c).st = s.st /\ Outside(s, NodeWritten(s, c), {Parent[c]})
<1> DEFINE p == Parent[c]
           m == NodeWritten(s, c)
           x == NodeOutcome(s.st[c])
<1>1. p \in Flow /\ c \in Flow /\ s.st[p] # "absent"
  <2>1. Edge(O, c, s.st[p], s.node[c], s.st[c])
    BY DEF EdgesSound
  <2>2. QED
    BY <2>1, FlowsTyped DEF Edge, Ended, NodeDone
<1>2. x \in NodeStatus /\ m = SetNodes(s, {c}, x)
  BY NodeOutcomes DEF NodeWritten
<1> HIDE DEF m, x
<1>3. /\ m \in Db /\ m.st = s.st /\ m.work = s.work
      /\ \A d \in Child : m.node[d] = IF d \in {c} THEN x ELSE s.node[d]
  BY <1>2, SetNodesRows
<1>4. \A d \in Child : m.node[d] = s.node[d] \/ (d = c /\ m.node[d] = NodeOutcome(s.st[d]))
  BY <1>3 DEF x
<1>5. EdgesSound(O, m)
  BY <1>1, <1>3, <1>4, NodesKeepEdges
<1>6. Outside(s, m, {p})
  BY <1>3 DEF Outside
<1>7. QED
  BY <1>3, <1>5, <1>6 DEF m

LEMMA PropagatedSound ==
    ASSUME NEW O, NEW s \in Db, EdgesSound(O, s), NEW c \in Child, s.st[c] \in Ended
    PROVE  /\ Propagated(s, c) \in Db /\ EdgesSound(O, Propagated(s, c))
           /\ Outside(s, Propagated(s, c), {Parent[c]})
           /\ \/ Propagated(s, c).st[Parent[c]] = s.st[Parent[c]]
              \/ s.st[Parent[c]] = "RUNNING" /\ Propagated(s, c).st[Parent[c]] \in Outcome
<1> DEFINE p == Parent[c]
           m == NodeWritten(s, c)
           t == Completed(m, p)
<1>1. CASE ~Writable(s, c)
  <2>1. Propagated(s, c) = s /\ Outside(s, s, {p})
    BY <1>1 DEF Propagated, Outside
  <2>2. QED
    BY <2>1
<1>2. CASE Writable(s, c)
  <2>1. p \in Flow /\ m \in Db /\ EdgesSound(O, m) /\ m.st = s.st /\ Outside(s, m, {p})
    BY <1>2, NodeWrittenSound, FlowsTyped DEF Writable
  <2> HIDE DEF m
  <2>2. /\ t \in Db /\ t.node = m.node /\ t.work = m.work
        /\ \A v \in Flow \ {p} : t.st[v] = m.st[v]
        /\ t.st[p] = m.st[p] \/ (m.st[p] = "RUNNING" /\ t.st[p] \in Outcome)
    BY <2>1, CompletedRows
  <2>3. EdgesSound(O, t)
    BY <2>1, CompletedSound
  <2> HIDE DEF t
  <2>4. Outside(s, t, {p})
    BY <2>1, <2>2 DEF Outside
  <2>5. Propagated(s, c) \in {m, t}
    BY <1>2 DEF Propagated, m, t
  <2>6. QED
    BY <2>1, <2>2, <2>3, <2>4, <2>5
<1>3. QED
  BY <1>1, <1>2

-----------------------------------------------------------------------------
(* What a step does to the transactions and walks of others.               *)

LEMMA TxTyped ==
    ASSUME TypeOK, NEW x \in Flow
    PROVE  /\ Held(x) \subseteq Flow
           /\ fin[x] # NoTx => fin[x] \in Tx /\ fin[x].rows \in Db
           /\ fin[x] = NoTx => Held(x) = {}
<1>1. fin[x] \in Tx \cup {NoTx}
  BY DEF TypeOK
<1>2. CASE fin[x] = NoTx
  BY <1>2 DEF Held, NoTx
<1>3. CASE fin[x] # NoTx
  <2>1. fin[x] \in Tx
    BY <1>1, <1>3
  <2>2. QED
    BY <1>3, <2>1 DEF Tx, Held
<1>4. QED
  BY <1>2, <1>3

\* What transaction t sees of the committed rows d.
View(d, t) ==
    [st |-> [v \in Flow |-> IF v \in t.held THEN t.rows.st[v] ELSE d.st[v]],
     work |-> [v \in Flow |-> IF v \in t.held THEN t.rows.work[v] ELSE d.work[v]],
     node |-> [c \in Child |-> IF Parent[c] \in t.held THEN t.rows.node[c] ELSE d.node[c]]]

LEMMA ViewRows ==
    ASSUME NEW d \in Db, NEW t \in Tx
    PROVE  /\ View(d, t) \in Db
           /\ \A v \in Flow : /\ View(d, t).st[v] = IF v \in t.held THEN t.rows.st[v] ELSE d.st[v]
                              /\ View(d, t).work[v] = IF v \in t.held THEN t.rows.work[v] ELSE d.work[v]
           /\ \A c \in Child : View(d, t).node[c] = IF Parent[c] \in t.held THEN t.rows.node[c]
                                                                          ELSE d.node[c]
<1> DEFINE st == [v \in Flow |-> IF v \in t.held THEN t.rows.st[v] ELSE d.st[v]]
           work == [v \in Flow |-> IF v \in t.held THEN t.rows.work[v] ELSE d.work[v]]
           node == [c \in Child |-> IF Parent[c] \in t.held THEN t.rows.node[c] ELSE d.node[c]]
<1>1. t.rows \in Db
  BY DEF Tx
<1>2. /\ st \in [Flow -> FlowStatus] /\ work \in [Flow -> {"open"} \cup Outcome]
      /\ node \in [Child -> NodeStatus]
  BY <1>1 DEF Db
<1>3. View(d, t) = [st |-> st, work |-> work, node |-> node]
  BY DEF View
<1>4. View(d, t) \in Db
  BY <1>2, <1>3 DEF Db
<1>5. QED
  BY <1>3, <1>4

LEMMA SeenIsView ==
    /\ \A x : Seen(x) = View(db, fin[x])
    /\ \A x : Seen(x)' = View(db', fin'[x])
BY DEF Seen, View

\* What an open transaction sees stays sound while others leave its rows alone and
\* start no child of its flows.
LEMMA TxKept ==
    ASSUME TypeOK, TypeOK', NEW x \in Flow, TxSound(x), fin'[x] = fin[x], EdgesSound(overrun, db)',
           \A v \in Held(x) : /\ db'.st[v] = db.st[v]
                              /\ \A c \in Child : Parent[c] = v => db'.node[c] = db.node[c],
           \A c \in Child : Moves(db.st[c], db'.st[c]) \/ Parent[c] \notin Held(x),
           overrun \subseteq overrun', \A c \in overrun' \ overrun : Parent[c] \notin Held(x)
    PROVE  TxSound(x)'
<1> SUFFICES ASSUME fin[x] # NoTx PROVE TxSound(x)'
  BY DEF TxSound
<1>1. Held(x)' = Held(x) /\ Held(x) \subseteq Flow
  BY TxTyped DEF Held
<1>2. /\ fin[x].top \in Held(x)
      /\ \A v \in Held(x) :
              \/ fin[x].rows.st[v] = db.st[v]
              \/ db.st[v] = "RUNNING" /\ fin[x].rows.st[v] \in Outcome
              \/ db.st[v] = "absent" /\ fin[x].rows.st[v] = "RUNNING"
      /\ \A v \in Held(x) : db.st[v] = "absent" =>
              /\ v \in Child /\ Parent[v] \in Held(x)
              /\ db.st[Parent[v]] \notin Ended
      /\ EdgesSound(overrun, Seen(x))
  BY DEF TxSound
<1>3. /\ \A v \in Flow : Seen(x).st[v] = IF v \in Held(x) THEN fin[x].rows.st[v] ELSE db.st[v]
      /\ \A c \in Child : Seen(x).node[c] = IF Parent[c] \in Held(x) THEN fin[x].rows.node[c]
                                                                    ELSE db.node[c]
  BY TxTyped, ViewRows, SeenIsView DEF Held, TypeOK
<1>4. /\ \A v \in Flow : Seen(x)'.st[v] = IF v \in Held(x) THEN fin[x].rows.st[v] ELSE db'.st[v]
      /\ \A c \in Child : Seen(x)'.node[c] = IF Parent[c] \in Held(x) THEN fin[x].rows.node[c]
                                                                     ELSE db'.node[c]
      /\ Seen(x)' \in Db
  BY <1>1, TxTyped, ViewRows, SeenIsView DEF Held, TypeOK
<1>5. ASSUME NEW c \in Child
      PROVE  Edge(overrun', c, Seen(x)'.st[Parent[c]], Seen(x)'.node[c], Seen(x)'.st[c])
  <2>1. c \in Flow /\ Parent[c] \in Flow
    BY FlowsTyped
  <2>2. /\ Edge(overrun, c, Seen(x).st[Parent[c]], Seen(x).node[c], Seen(x).st[c])
        /\ Edge(overrun', c, db'.st[Parent[c]], db'.node[c], db'.st[c])
    BY <1>2 DEF EdgesSound
  <2>3. Seen(x)'.node[c] \in NodeStatus
    BY <1>4, DbTyped
  <2>4. CASE Parent[c] \in Held(x)
    <3>1. /\ Seen(x)'.st[Parent[c]] = Seen(x).st[Parent[c]]
          /\ Seen(x)'.node[c] = Seen(x).node[c]
          /\ Moves(Seen(x).st[c], Seen(x)'.st[c])
      BY <1>3, <1>4, <2>1, <2>4 DEF Moves
    <3>2. Edge(overrun', c, Seen(x).st[Parent[c]], Seen(x).node[c], Seen(x).st[c])
      BY <2>2, <2>4 DEF Edge
    <3>3. QED
      BY <2>3, <3>1, <3>2, EdgeStable
  <2>5. CASE Parent[c] \notin Held(x)
    <3>1. /\ Seen(x)'.st[Parent[c]] = db'.st[Parent[c]]
          /\ Seen(x)'.node[c] = db'.node[c]
      BY <1>4, <2>1, <2>5
    <3>2. Moves(db'.st[c], Seen(x)'.st[c])
      <4>1. CASE c \in Held(x)
        BY <1>2, <1>4, <2>1, <2>5, <4>1 DEF Moves, Outcome
      <4>2. CASE c \notin Held(x)
        BY <1>4, <2>1, <4>2 DEF Moves
      <4>3. QED
        BY <4>1, <4>2
    <3>3. QED
      BY <2>2, <2>3, <3>1, <3>2, EdgeStable
  <2>6. QED
    BY <2>4, <2>5
<1>6. EdgesSound(overrun', Seen(x)')
  BY <1>5 DEF EdgesSound
<1>7. /\ fin'[x].top \in Held(x)'
      /\ \A v \in Held(x)' :
              \/ fin'[x].rows.st[v] = db'.st[v]
              \/ db'.st[v] = "RUNNING" /\ fin'[x].rows.st[v] \in Outcome
              \/ db'.st[v] = "absent" /\ fin'[x].rows.st[v] = "RUNNING"
      /\ \A v \in Held(x)' : db'.st[v] = "absent" =>
              /\ v \in Child /\ Parent[v] \in Held(x)'
              /\ db'.st[Parent[v]] \notin Ended
  BY <1>1, <1>2
<1>8. EdgesSound(overrun, Seen(x))'
  BY <1>6 DEF EdgesSound
<1>9. QED
  BY <1>7, <1>8 DEF TxSound

LEMMA TxsKept ==
    ASSUME IInv, TypeOK', NEW W, fin' = fin, EdgesSound(overrun, db)', Outside(db, db', W),
           \A x \in Flow : Held(x) \cap W = {},
           \A c \in Child : Moves(db.st[c], db'.st[c]) \/ Parent[c] \in W,
           overrun \subseteq overrun', \A c \in overrun' \ overrun : Parent[c] \in W
    PROVE  \A x \in Flow : TxSound(x)'
<1> SUFFICES ASSUME NEW x \in Flow PROVE TxSound(x)'
  OBVIOUS
<1>1. Held(x) \subseteq Flow /\ Held(x) \cap W = {}
  BY TxTyped DEF IInv
<1>2. \A v \in Held(x) : /\ db'.st[v] = db.st[v]
                         /\ \A c \in Child : Parent[c] = v => db'.node[c] = db.node[c]
  BY <1>1 DEF Outside
<1>3. \A c \in Child : Moves(db.st[c], db'.st[c]) \/ Parent[c] \notin Held(x)
  BY <1>1
<1>4. \A c \in overrun' \ overrun : Parent[c] \notin Held(x)
  BY <1>1
<1>5. QED
  BY <1>2, <1>3, <1>4, TxKept DEF IInv

\* A walk stays sound while the flows a pause has are left alone, no child of them
\* comes to run unnoticed, and no cancelled flow gets a live child.
LEMMA WalksKept ==
    ASSUME IInv, op' = op, stray \subseteq stray', faults' = 0 => faults = 0,
           \A v \in Flow : db.st[v] # "absent" => db'.st[v] # "absent",
           \A v \in op.held : db'.st[v] = db.st[v],
           \A c \in Child \ stray' : Parent[c] \in op.held /\ db'.st[c] = "RUNNING"
                                     => db.st[c] = "RUNNING",
           \A c \in Child : db'.st[Parent[c]] = "CANCELLED" /\ db'.st[c] \in {"RUNNING", "PAUSED"}
                => db.st[Parent[c]] = "CANCELLED" /\ db.st[c] \in {"RUNNING", "PAUSED"}
    PROVE  Walks'
<1>1. OpSound'
  BY FlowsTyped DEF IInv, Walks, OpSound, TypeOK, Op
<1>2. PauseWalk'
  BY DEF IInv, Walks, OpSound, PauseWalk
<1>3. CancelWalk'
  BY DEF IInv, Walks, CancelWalk
<1>4. QED
  BY <1>1, <1>2, <1>3 DEF Walks

\* The flows that are born below a flow nobody holds are held by nobody.
LEMMA BornApart ==
    ASSUME IInv, NEW p \in Flow, Untouched(p), NEW t, GrownAt(overrun, db, t, p), NEW x \in Flow
    PROVE  Held(x) \cap ({p} \cup Born(db, t)) = {}
<1>1. p \notin Held(x)
  BY DEF Untouched, Held
<1> DEFINE S == {v \in Born(db, t) : v \notin Held(x)}
<1>2. ASSUME NEW v \in Born(db, t), Parent[v] \in {p} \cup S, v \in Held(x) PROVE FALSE
  <2>1. db.st[v] = "absent"
    BY DEF Born
  <2>2. fin[x] # NoTx
    BY <1>2, TxTyped DEF IInv
  <2>3. Parent[v] \in Held(x)
    BY <1>2, <2>1, <2>2 DEF IInv, TxSound
  <2>4. QED
    BY <1>1, <1>2, <2>3
<1>3. S \in SUBSET Flow
  BY DEF Born
<1>4. \A v \in Born(db, t) : Parent[v] \in {p} \cup S => v \in S
  BY <1>2
<1> HIDE DEF S
<1>5. Born(db, t) \subseteq S
  BY <1>3, <1>4 DEF GrownAt
<1>6. QED
  BY <1>1, <1>5 DEF S

\* A step that changes committed rows and neither a transaction nor the walk.
LEMMA DbStep ==
    ASSUME IInv, TypeOK', NEW W, fin' = fin, op' = op, stray \subseteq stray',
           faults' = 0 => faults = 0, FlowsPresent', EdgesSound(overrun, db)', Outside(db, db', W),
           \A x \in Flow : Held(x) \cap W = {},
           \A v \in Flow : \/ Moves(db.st[v], db'.st[v])
                           \/ db.st[v] = "absent" /\ v \in Child /\ Parent[v] \in W,
           \A v \in op.held : db'.st[v] = db.st[v],
           \A c \in Child \ stray' : Parent[c] \in op.held /\ db'.st[c] = "RUNNING"
                                     => db.st[c] = "RUNNING",
           \A c \in Child : db'.st[Parent[c]] = "CANCELLED" /\ db'.st[c] \in {"RUNNING", "PAUSED"}
                => db.st[Parent[c]] = "CANCELLED" /\ db.st[c] \in {"RUNNING", "PAUSED"},
           overrun \subseteq overrun', \A c \in overrun' \ overrun : Parent[c] \in W
    PROVE  IInv'
<1>1. \A x \in Flow : TxSound(x)'
  <2>1. \A c \in Child : Moves(db.st[c], db'.st[c]) \/ Parent[c] \in W
    BY FlowsTyped
  <2>2. QED
    BY <2>1, TxsKept
<1>2. \A v \in Flow : db.st[v] # "absent" => db'.st[v] # "absent"
  BY DEF Moves
<1>3. Walks'
  BY <1>2, WalksKept
<1>4. LocksApart'
  BY DEF IInv, LocksApart, Held
<1>5. QED
  BY <1>1, <1>3, <1>4 DEF IInv

\* A step that leaves the rows, the transactions and the walk alone.
LEMMA QuietStep ==
    ASSUME IInv, TypeOK', UNCHANGED <<db, fin, op, overrun>>, stray \subseteq stray',
           faults' = 0 => faults = 0, FlowsPresent'
    PROVE  IInv'
<1>1. EdgesSound(overrun, db)' /\ Outside(db, db', {})
  BY DEF IInv, EdgesSound, Outside
<1>2. \A v \in Flow : Moves(db.st[v], db'.st[v])
  BY DEF Moves
<1>3. QED
  BY <1>1, <1>2, DbStep

-----------------------------------------------------------------------------
(* The invariant, action by action.                                        *)

LEMMA WorkStep ==
    ASSUME IInv, NEW w \in Flow, Work(w)
    PROVE  IInv'
<1>1. /\ db.st[w] # "absent"
      /\ UNCHANGED <<db, fin, op, launch, lacking, stray, overrun, controls, faults>>
      /\ \E outcome \in Outcome : outbox' = [outbox EXCEPT ![w] = outcome]
  BY DEF Work, ghosts
<1>2. TypeOK'
  BY <1>1 DEF IInv, TypeOK
<1>3. FlowsPresent'
  BY <1>1 DEF IInv, FlowsPresent, TypeOK
<1>4. QED
  BY <1>1, <1>2, <1>3, QuietStep

LEMMA LaunchStep ==
    ASSUME IInv, NEW c \in Child, BeginLaunch(c) \/ CrashLaunch(c)
    PROVE  IInv'
<1>1. /\ UNCHANGED <<db, outbox, fin, op, stray, overrun, controls>>
      /\ launch' \subseteq Child /\ lacking' \subseteq lacking
      /\ faults' \in 0..MaxFaults /\ (faults' = 0 => faults = 0)
  BY TreeAssumption DEF BeginLaunch, CrashLaunch, Fault, IInv, TypeOK, ghosts
<1>2. TypeOK' /\ FlowsPresent'
  BY <1>1 DEF IInv, TypeOK, FlowsPresent
<1>3. QED
  BY <1>1, <1>2, QuietStep

LEMMA CheckCompletionStep ==
    ASSUME IInv, NEW w \in Flow, CheckCompletion(w)
    PROVE  IInv'
<1>1. /\ Free(w) /\ db' = Completed(db, w) /\ db \in Db
      /\ UNCHANGED <<outbox, fin, op, launch, lacking, stray, overrun, controls, faults>>
  BY DEF CheckCompletion, IInv, TypeOK, ghosts
<1>2. /\ db' \in Db /\ db'.node = db.node /\ db'.work = db.work
      /\ \A v \in Flow \ {w} : db'.st[v] = db.st[v]
      /\ db'.st[w] = db.st[w] \/ (db.st[w] = "RUNNING" /\ db'.st[w] \in Outcome)
  BY <1>1, CompletedRows
<1>3. EdgesSound(overrun, db')
  BY <1>1, CompletedSound DEF IInv
<1>4. TypeOK' /\ EdgesSound(overrun, db)'
  BY <1>1, <1>2, <1>3 DEF IInv, TypeOK, EdgesSound
<1>5. Outside(db, db', {w}) /\ \A v \in Flow : Moves(db.st[v], db'.st[v])
  BY <1>2 DEF Outside, Moves, Outcome
<1>6. w \notin op.held /\ op.held \subseteq Flow /\ \A x \in Flow : Held(x) \cap {w} = {}
  BY <1>1 DEF Free, Untouched, Held, IInv, TypeOK, Op
<1>7. \A c \in Child : db'.st[c] \in {"RUNNING", "PAUSED"} => db.st[c] = db'.st[c]
  BY <1>2, FlowsTyped DEF Outcome
<1>8. \A v \in Flow : db'.st[v] = "CANCELLED" => db.st[v] = "CANCELLED"
  BY <1>2 DEF Outcome
<1>9. FlowsPresent'
  BY <1>1, <1>5 DEF IInv, FlowsPresent, Moves
<1>10. \A v \in op.held : db'.st[v] = db.st[v]
  BY <1>2, <1>6
<1>11. \A c \in Child : Parent[c] \in Flow
  BY FlowsTyped
<1> DEFINE W == {w}
<1> HIDE DEF W
<1>12. Outside(db, db', W) /\ \A x \in Flow : Held(x) \cap W = {}
  BY <1>5, <1>6 DEF W
<1>13. QED
  BY <1>1, <1>4, <1>5, <1>7, <1>8, <1>9, <1>10, <1>11, <1>12, DbStep

\* Steps that write nodes of one flow and no status.
LEMMA NodeStep ==
    ASSUME IInv, NEW p \in Flow, Untouched(p), db' \in Db, EdgesSound(overrun, db'), db'.st = db.st,
           Outside(db, db', {p}),
           UNCHANGED <<outbox, fin, op, launch, stray, overrun, controls, faults>>,
           lacking' \subseteq Unknown, \A c \in lacking' \ lacking : Parent[c] = p,
           db.st[p] # "absent"
    PROVE  IInv'
<1>1. TypeOK' /\ EdgesSound(overrun, db)' /\ FlowsPresent'
  BY DEF IInv, TypeOK, EdgesSound, FlowsPresent
<1>2. \A v \in Flow : Moves(db.st[v], db'.st[v])
  BY DEF Moves
<1> DEFINE W == {p}
<1>3. Outside(db, db', W) /\ \A x \in Flow : Held(x) \cap W = {}
  BY DEF Untouched, Held
<1> HIDE DEF W
<1>4. QED
  BY <1>1, <1>2, <1>3, DbStep

LEMMA CallbackStep ==
    ASSUME IInv, NEW c \in Child, OnSubworkflowComplete(c)
    PROVE  IInv'
<1>1. /\ db.st[c] \in Ended /\ db.node[c] = "LINKED" /\ db.node[c] \notin NodeDone
      /\ Untouched(Parent[c]) /\ db' = NodeWritten(db, c) /\ db \in Db
      /\ UNCHANGED <<outbox, fin, op, launch, lacking, stray, overrun, controls, faults>>
  BY DEF OnSubworkflowComplete, IInv, TypeOK, ghosts, NodeDone
<1>2. /\ db' \in Db /\ EdgesSound(overrun, db') /\ db'.st = db.st /\ Outside(db, db', {Parent[c]})
  BY <1>1, NodeWrittenSound DEF IInv
<1>3. lacking' \subseteq Unknown /\ db.st[Parent[c]] # "absent"
  BY <1>1 DEF IInv, TypeOK, EdgesSound, Edge
<1>4. QED
  BY <1>1, <1>2, <1>3, NodeStep, FlowsTyped

LEMMA ReevaluateStep ==
    ASSUME IInv, NEW c \in Child, Reevaluate(c)
    PROVE  IInv'
<1>1. /\ db.node[c] = "PENDING" /\ db.st[Parent[c]] = "RUNNING" /\ Untouched(Parent[c])
      /\ db \in Db /\ UNCHANGED <<outbox, fin, op, launch, stray, overrun, controls, faults>>
      /\ lacking' \subseteq Unknown /\ lacking' \subseteq lacking \cup {c}
  BY DEF Reevaluate, IInv, TypeOK, ghosts
<1>2. PICK x \in {"READY", "SKIPPED"} : db' = SetNodes(db, {c}, x)
  BY DEF Reevaluate
<1>3. x \in NodeStatus
  BY DEF NodeStatus, NodeDone
<1>4. /\ db' \in Db /\ db'.st = db.st /\ db'.work = db.work
      /\ \A d \in Child : db'.node[d] = IF d \in {c} THEN x ELSE db.node[d]
  BY <1>1, <1>2, <1>3, SetNodesRows
<1>5. EdgesSound(overrun, db')
  <2> DEFINE t == db'
  <2>1. /\ t \in Db /\ t.st = db.st /\ EdgesSound(overrun, db) /\ db \in Db
        /\ \A d \in Child : d # c => t.node[d] = db.node[d]
        /\ t.node[c] = x /\ db.node[c] = "PENDING" /\ db.st[Parent[c]] = "RUNNING"
    BY <1>1, <1>4 DEF IInv
  <2> HIDE DEF t
  <2>2. \A d \in Child :
            \/ t.node[d] = db.node[d]
            \/ db.node[d] \in {"PENDING", "READY"} /\ t.node[d] = "SKIPPED"
               /\ db.st[Parent[d]] # "absent"
            \/ db.node[d] \in {"PENDING", "READY"} /\ t.node[d] = "READY"
               /\ db.st[Parent[d]] = "RUNNING"
    BY <1>2, <2>1
  <2>3. EdgesSound(overrun, t)
    BY <2>1, <2>2, NodesKeepEdges
  <2>4. QED
    BY <2>3 DEF t
<1>6. Outside(db, db', {Parent[c]})
  BY <1>4 DEF Outside
<1>7. QED
  BY <1>1, <1>4, <1>5, <1>6, NodeStep, FlowsTyped

\* A node that another worker linked meanwhile is overrun.
LEMMA FailLoadStep ==
    ASSUME IInv, NEW c \in Child, FailLoad(c)
    PROVE  IInv'
<1> DEFINE p == Parent[c]
           W == {p}
<1>1. /\ Untouched(p) /\ p \in Flow /\ c \in Unknown /\ db \in Db /\ db.st[p] # "absent"
      /\ db' = IF db.node[c] \notin NodeDone THEN SetNodes(db, {c}, "FAILED") ELSE db
      /\ overrun' = IF db.node[c] = "LINKED" THEN overrun \cup {c} ELSE overrun
      /\ lacking' \subseteq lacking /\ UNCHANGED <<outbox, fin, op, launch, stray, controls, faults>>
  BY FlowsTyped DEF FailLoad, IInv, TypeOK, FlowsPresent
<1>2. /\ db' \in Db /\ db'.st = db.st /\ Outside(db, db', W)
      /\ \A d \in Child : db'.node[d] = IF d = c /\ db.node[c] \notin NodeDone THEN "FAILED"
                                                                            ELSE db.node[d]
  <2>1. CASE db.node[c] \notin NodeDone
    <3>1. "FAILED" \in NodeStatus
      BY DEF NodeStatus, NodeDone
    <3>2. /\ db' \in Db /\ db'.st = db.st /\ db'.work = db.work
          /\ \A d \in Child : db'.node[d] = IF d \in {c} THEN "FAILED" ELSE db.node[d]
      BY <1>1, <2>1, <3>1, SetNodesRows
    <3>3. QED
      BY <2>1, <3>2 DEF Outside
  <2>2. CASE db.node[c] \in NodeDone
    BY <1>1, <2>2 DEF Outside
  <2>3. QED
    BY <2>1, <2>2
<1>3. EdgesSound(overrun', db')
  <2> SUFFICES ASSUME NEW d \in Child
               PROVE  Edge(overrun', d, db'.st[Parent[d]], db'.node[d], db'.st[d])
    BY DEF EdgesSound
  <2>1. /\ Edge(overrun, d, db.st[Parent[d]], db.node[d], db.st[d]) /\ db.node[d] \in NodeStatus
        /\ d \in Flow /\ Parent[d] \in Flow
    BY <1>1, DbTyped, FlowsTyped DEF IInv, EdgesSound
  <2>2. CASE d # c
    <3>1. d \in overrun' <=> d \in overrun
      BY <1>1, <2>2
    <3>2. QED
      BY <1>2, <2>1, <2>2, <3>1 DEF Edge
  <2>3. CASE d = c /\ db.node[c] \in NodeDone
    BY <1>1, <1>2, <2>1, <2>3 DEF Edge, NodeDone
  <2>4. CASE d = c /\ db.node[c] = "LINKED"
    BY <1>1, <1>2, <2>1, <2>4 DEF Edge, NodeDone
  <2>5. CASE d = c /\ db.node[c] \in {"PENDING", "READY"}
    BY <1>1, <1>2, <2>1, <2>5 DEF Edge, NodeDone, Outcome
  <2>6. QED
    BY <2>1, <2>2, <2>3, <2>4, <2>5 DEF NodeStatus
<1>4. TypeOK' /\ EdgesSound(overrun, db)' /\ FlowsPresent'
  BY <1>1, <1>2, <1>3 DEF IInv, TypeOK, EdgesSound, FlowsPresent
<1>5. /\ \A v \in Flow : Moves(db.st[v], db'.st[v])
      /\ overrun \subseteq overrun' /\ \A d \in overrun' \ overrun : Parent[d] \in W
  BY <1>1, <1>2 DEF Moves
<1>6. \A x \in Flow : Held(x) \cap W = {}
  BY <1>1 DEF Untouched, Held
<1> HIDE DEF W
<1>7. QED
  BY <1>1, <1>2, <1>4, <1>5, <1>6, DbStep

\* The link and the start of a child outside of phase 2: its flow, and those that
\* start with it, are held by nobody, and it is strayed if a pause has its parent.
LEMMA EndLaunchStep ==
    ASSUME IInv, NEW c \in Child, EndLaunch(c)
    PROVE  IInv'
<1> DEFINE p == Parent[c]
<1>1. /\ Untouched(p) /\ p \in Flow /\ db \in Db
      /\ db' = IF Linkable(c) THEN Started(db, {c}) ELSE db
      /\ launch' \subseteq Child /\ stray' \subseteq Child /\ stray \subseteq stray'
      /\ p \in op.held => c \in stray'
      /\ UNCHANGED <<outbox, fin, op, lacking, overrun, controls, faults>>
  BY FlowsTyped DEF EndLaunch, IInv, TypeOK
<1>2. CASE Linkable(c)
  <2> DEFINE C == {c}
             B == Born(db, db')
             W == {p} \cup B
  <2>1. db' = Started(db, C) /\ C \subseteq Child
        /\ \A d \in C : db.node[d] \in {"PENDING", "READY"} /\ Parent[d] = p
    BY <1>1, <1>2 DEF Linkable
  <2>2. db.st[p] \in {"RUNNING", "PAUSED"}
    <3>1. db.node[c] = "READY" /\ Edge(overrun, c, db.st[p], db.node[c], db.st[c])
      BY <1>2 DEF Linkable, IInv, EdgesSound
    <3>2. db.st[p] \in FlowStatus /\ db.st[p] # "absent" /\ db.st[p] \notin Ended
      BY <1>1, <3>1, DbTyped DEF Edge, NodeDone, Ended, Outcome
    <3>3. QED
      BY <3>2 DEF FlowStatus
  <2> HIDE DEF C
  <2>3. GrownAt(overrun, db, db', p) /\ db'.st[p] = db.st[p]
    BY <1>1, <2>1, <2>2, StartedGrown DEF IInv
  <2>4. B = Starting(C) /\ C \subseteq Flow /\ c \in C
    BY <1>1, <2>1, <2>2, StartedGrown, FlowsTyped DEF IInv, C
  <2>5. /\ db' \in Db /\ EdgesSound(overrun, db') /\ Outside(db, db', W)
        /\ \A v \in B : db.st[v] = "absent" /\ db'.st[v] = "RUNNING" /\ v \in Child
                        /\ db.st[Parent[v]] \notin Ended
    BY <2>3 DEF GrownAt, Born
  <2>6. \A v \in B : Parent[v] \in W
    BY <2>3 DEF GrownAt
  <2>7. \A v \in Flow \ B : db'.st[v] = db.st[v]
    BY <2>3, <2>5 DEF Outside
  <2>8. \A v \in B \ {c} : Parent[v] \in B
    BY <2>4, StartingLeast DEF C
  <2>9. \A v \in B : db.st[v] = "absent"
    BY DEF Born
  <2>10. \A x \in Flow : Held(x) \cap W = {}
    BY <1>1, <2>3, BornApart
  <2>11. \A v \in op.held : v \in Flow /\ v \notin B
    BY <2>9 DEF IInv, Walks, OpSound, TypeOK, Op
  <2> HIDE DEF B, W
  <2>12. \A v \in Flow : \/ Moves(db.st[v], db'.st[v])
                         \/ db.st[v] = "absent" /\ v \in Child /\ Parent[v] \in W
    BY <2>5, <2>6, <2>7 DEF Moves
  <2>13. \A v \in op.held : db'.st[v] = db.st[v]
    BY <2>7, <2>11
  <2>14. ASSUME NEW d \in Child \ stray', Parent[d] \in op.held, db'.st[d] = "RUNNING"
         PROVE  db.st[d] = "RUNNING"
    <3>1. d \notin B
      BY <1>1, <2>8, <2>11, <2>14
    <3>2. QED
      BY <2>7, <2>14, <3>1, FlowsTyped
  <2>15. ASSUME NEW d \in Child, db'.st[Parent[d]] = "CANCELLED",
                db'.st[d] \in {"RUNNING", "PAUSED"}
         PROVE  db.st[Parent[d]] = "CANCELLED" /\ db.st[d] \in {"RUNNING", "PAUSED"}
    <3>1. db.st[Parent[d]] = "CANCELLED"
      BY <2>5, <2>7, <2>15, FlowsTyped
    <3>2. d \notin B
      BY <2>5, <3>1 DEF Ended
    <3>3. QED
      BY <2>7, <2>15, <3>1, <3>2, FlowsTyped
  <2>16. TypeOK' /\ EdgesSound(overrun, db)'
    BY <1>1, <2>5 DEF IInv, TypeOK, EdgesSound
  <2>17. FlowsPresent'
    BY <1>1, <2>5, <2>7 DEF IInv, FlowsPresent
  <2>18. QED
    BY <1>1, <2>5, <2>10, <2>12, <2>13, <2>14, <2>15, <2>16, <2>17, DbStep
<1>3. CASE ~Linkable(c)
  <2>1. TypeOK' /\ FlowsPresent' /\ UNCHANGED <<db, fin, op, overrun>>
    BY <1>1, <1>3 DEF IInv, TypeOK, FlowsPresent
  <2>2. QED
    BY <1>1, <2>1, QuietStep
<1>4. QED
  BY <1>2, <1>3

\* Transactions do not care about the walk, nor about what is outside their rows.
LEMMA SameEdges ==
    ASSUME NEW O, NEW s, NEW t, EdgesSound(O, s), \A v \in Flow : t.st[v] = s.st[v],
           \A c \in Child : t.node[c] = s.node[c]
    PROVE  EdgesSound(O, t)
BY FlowsTyped DEF EdgesSound

\* The other transactions, while that of w moves and no row is committed.
LEMMA OthersKept ==
    ASSUME IInv, TypeOK', NEW w \in Flow, db' = db,
           overrun' = overrun, \A x \in Flow \ {w} : fin'[x] = fin[x]
    PROVE  \A x \in Flow \ {w} : TxSound(x)' /\ Held(x)' = Held(x)
<1>1. EdgesSound(overrun, db)' /\ \A c \in Child : Moves(db.st[c], db'.st[c])
  BY DEF IInv, EdgesSound, Moves
<1>2. QED
  BY <1>1, TxKept DEF IInv, Held

LEMMA ConsumeStep ==
    ASSUME IInv, NEW w \in Flow, Consume(w)
    PROVE  IInv'
<1>0. PICK lack \in SUBSET (Waiting(db, w) \cap Unknown) :
         LET s == Consumed(w, lack) IN
         fin' = [fin EXCEPT ![w] = [rows |-> s, top |-> w, held |-> {w} \cup Born(db, s)]]
  BY DEF Consume, Born
<1> DEFINE s == Consumed(w, lack)
           H == {w} \cup Born(db, s)
           t == [rows |-> s, top |-> w, held |-> H]
<1>1. /\ outbox[w] # "none" /\ fin[w] = NoTx /\ Free(w)
      /\ fin' = [fin EXCEPT ![w] = t]
      /\ UNCHANGED <<db, outbox, op, launch, lacking, stray, overrun, controls, faults>>
  BY <1>0 DEF Consume, ghosts
<1>2. db.st[w] # "absent" /\ db \in Db
  BY <1>1 DEF IInv, FlowsPresent, TypeOK
<1>3. GrownAt(overrun, db, s, w)
  BY <1>1, <1>2, ConsumedSound DEF IInv
<1>4. /\ w \in H /\ H \subseteq Flow /\ s \in Db /\ EdgesSound(overrun, s) /\ Outside(db, s, H)
      /\ \A v \in Born(db, s) : /\ db.st[v] = "absent" /\ s.st[v] = "RUNNING" /\ v \in Child
                                /\ Parent[v] \in H /\ db.st[Parent[v]] \notin Ended
      /\ s.st[w] = db.st[w] \/ (db.st[w] = "RUNNING" /\ s.st[w] \in Outcome)
  BY <1>3 DEF GrownAt, Born
<1>5. \A x \in Flow : Held(x) \cap H = {}
  BY <1>1, <1>3, BornApart DEF Free
<1>6. H \cap op.held = {}
  BY <1>1 DEF Free, Born, IInv, Walks, OpSound
<1> HIDE DEF s, H
<1>7. t \in Tx /\ t # NoTx /\ t.rows = s /\ t.top = w /\ t.held = H
  BY <1>4 DEF Tx, NoTx
<1> HIDE DEF t
<1>8. fin'[w] = t /\ \A x \in Flow \ {w} : fin'[x] = fin[x]
  BY <1>1 DEF IInv, TypeOK
<1>9. TypeOK'
  BY <1>1, <1>7 DEF IInv, TypeOK
<1>10. TxSound(w)'
  <2>1. \A v \in Flow : View(db, t).st[v] = s.st[v]
    BY <1>2, <1>4, <1>7, ViewRows DEF Outside
  <2>2. \A c \in Child : View(db, t).node[c] = s.node[c]
    <3>1. \A c \in Child : Parent[c] \notin H => s.node[c] = db.node[c]
      BY <1>4, FlowsTyped DEF Outside
    <3>2. QED
      BY <1>2, <1>7, <3>1, ViewRows
  <2>3. EdgesSound(overrun, View(db, t))
    BY <1>4, <2>1, <2>2, SameEdges
  <2>4. Seen(w)' = View(db, t)
    BY <1>1, <1>8, SeenIsView
  <2>5. EdgesSound(overrun, Seen(w))'
    BY <1>1, <2>3, <2>4 DEF EdgesSound
  <2>6. Held(w)' = H
    BY <1>7, <1>8 DEF Held
  <2>7. \A v \in H : v = w \/ v \in Born(db, s)
    BY DEF H
  <2>8. QED
    BY <1>1, <1>2, <1>4, <1>7, <1>8, <2>5, <2>6, <2>7 DEF TxSound
<1>11. \A x \in Flow \ {w} : TxSound(x)' /\ Held(x)' = Held(x)
  BY <1>1, <1>8, <1>9, OthersKept
<1>12. LocksApart'
  <2>1. Held(w)' = H
    BY <1>7, <1>8 DEF Held
  <2>2. QED
    BY <1>1, <1>5, <1>6, <1>11, <2>1 DEF IInv, LocksApart
<1>13. Walks' /\ EdgesSound(overrun, db)' /\ FlowsPresent'
  BY <1>1, WalksKept DEF IInv, EdgesSound, FlowsPresent
<1>14. QED
  BY <1>9, <1>10, <1>11, <1>12, <1>13 DEF IInv

LEMMA ClimbStep ==
    ASSUME IInv, NEW w \in Flow, Climb(w)
    PROVE  IInv'
<1> DEFINE c == fin[w].top
           p == Parent[c]
           s == Seen(w)
           r == Propagated(s, c)
           H == Held(w) \cup {p}
           t == [rows |-> r, top |-> p, held |-> H]
<1>1. /\ fin[w] # NoTx /\ c \in Child /\ fin[w].rows.st[c] \in Ended /\ Free(p)
      /\ fin' = [fin EXCEPT ![w] = t]
      /\ UNCHANGED <<db, outbox, op, launch, lacking, stray, overrun, controls, faults>>
  BY DEF Climb, Climbing, Held, ghosts
<1>2. /\ c \in Held(w) /\ EdgesSound(overrun, s)
      /\ \A v \in Held(w) :
              \/ fin[w].rows.st[v] = db.st[v]
              \/ db.st[v] = "RUNNING" /\ fin[w].rows.st[v] \in Outcome
              \/ db.st[v] = "absent" /\ fin[w].rows.st[v] = "RUNNING"
      /\ \A v \in Held(w) : db.st[v] = "absent" =>
              /\ v \in Child /\ Parent[v] \in Held(w)
              /\ db.st[Parent[v]] \notin Ended
  BY <1>1 DEF IInv, TxSound
<1>3. fin[w] \in Tx /\ Held(w) \subseteq Flow /\ db \in Db
  BY <1>1, TxTyped DEF IInv, TypeOK
<1>4. /\ s \in Db
      /\ \A v \in Flow : s.st[v] = IF v \in Held(w) THEN fin[w].rows.st[v] ELSE db.st[v]
      /\ \A d \in Child : s.node[d] = IF Parent[d] \in Held(w) THEN fin[w].rows.node[d] ELSE db.node[d]
  BY <1>3, ViewRows, SeenIsView DEF Held
<1>5. c \in Flow /\ p \in Flow /\ s.st[c] \in Ended /\ p \notin Held(w) /\ p \notin op.held
      /\ \A x \in Flow : p \notin Held(x)
  BY <1>1, <1>2, <1>4, FlowsTyped DEF Free, Untouched, Held
<1>6. /\ r \in Db /\ EdgesSound(overrun, r) /\ Outside(s, r, {p})
      /\ r.st[p] = s.st[p] \/ (s.st[p] = "RUNNING" /\ r.st[p] \in Outcome)
  BY <1>1, <1>2, <1>4, <1>5, PropagatedSound
<1>7. db.st[p] # "absent" /\ s.st[p] = db.st[p]
  <2>1. Edge(overrun, c, s.st[p], s.node[c], s.st[c])
    BY <1>1, <1>2 DEF EdgesSound
  <2>2. s.st[p] # "absent"
    BY <1>5, <2>1 DEF Edge, Ended
  <2>3. QED
    BY <1>4, <1>5, <2>2
<1> HIDE DEF c, p, s, r, H
<1>8. /\ \A v \in Flow \ {p} : r.st[v] = s.st[v]
      /\ \A d \in Child : Parent[d] # p => r.node[d] = s.node[d]
  BY <1>6, FlowsTyped DEF Outside
<1>9. /\ t \in Tx /\ t # NoTx /\ t.rows = r /\ t.top = p /\ t.held = H
      /\ H = Held(w) \cup {p}
  BY <1>3, <1>5, <1>6 DEF Tx, NoTx, H
<1> HIDE DEF t
<1>10. fin'[w] = t /\ \A x \in Flow \ {w} : fin'[x] = fin[x]
  BY <1>1 DEF IInv, TypeOK
<1>11. TypeOK'
  BY <1>1, <1>9 DEF IInv, TypeOK
<1>12. Held(w)' = H
  BY <1>9, <1>10 DEF Held
<1>13. TxSound(w)'
  <2>0. /\ \A v \in Flow : View(db, t).st[v] = IF v \in H THEN r.st[v] ELSE db.st[v]
        /\ \A d \in Child : View(db, t).node[d] = IF Parent[d] \in H THEN r.node[d] ELSE db.node[d]
    BY <1>3, <1>9, ViewRows
  <2>1. \A v \in Flow : View(db, t).st[v] = r.st[v]
    BY <1>4, <1>8, <1>9, <2>0
  <2>2. \A d \in Child : View(db, t).node[d] = r.node[d]
    BY <1>4, <1>8, <1>9, <2>0
  <2>3. EdgesSound(overrun, View(db, t))
    BY <1>6, <2>1, <2>2, SameEdges
  <2>4. Seen(w)' = View(db, t)
    BY <1>1, <1>10, SeenIsView
  <2>5. EdgesSound(overrun, Seen(w))'
    BY <1>1, <2>3, <2>4 DEF EdgesSound
  <2>6. \A v \in Held(w) : v # p /\ v \in Flow /\ r.st[v] = fin[w].rows.st[v]
    BY <1>3, <1>4, <1>5, <1>8
  <2>7. \A v \in H : \/ r.st[v] = db.st[v]
                     \/ db.st[v] = "RUNNING" /\ r.st[v] \in Outcome
                     \/ db.st[v] = "absent" /\ r.st[v] = "RUNNING"
    BY <1>2, <1>6, <1>7, <1>9, <2>6
  <2>8. \A v \in H : db.st[v] = "absent" =>
              v \in Child /\ Parent[v] \in H /\ db.st[Parent[v]] \notin Ended
    BY <1>2, <1>7, <1>9
  <2>9. QED
    BY <1>1, <1>9, <1>10, <1>12, <2>5, <2>7, <2>8 DEF TxSound
<1>14. \A x \in Flow \ {w} : TxSound(x)' /\ Held(x)' = Held(x)
  BY <1>1, <1>10, <1>11, OthersKept
<1>15. LocksApart'
  BY <1>1, <1>5, <1>9, <1>12, <1>14 DEF IInv, LocksApart
<1>16. Walks' /\ EdgesSound(overrun, db)' /\ FlowsPresent'
  BY <1>1, WalksKept DEF IInv, EdgesSound, FlowsPresent
<1>17. QED
  BY <1>11, <1>13, <1>14, <1>15, <1>16 DEF IInv

\* The rows of a transaction are committed: what it saw is what there is.
LEMMA CommitStep ==
    ASSUME IInv, NEW w \in Flow, Commit(w)
    PROVE  IInv'
<1> DEFINE H == Held(w)
<1>1. /\ fin[w] # NoTx /\ db' = Seen(w)
      /\ outbox' = [outbox EXCEPT ![w] = "none"]
      /\ fin' = [fin EXCEPT ![w] = NoTx]
      /\ UNCHANGED <<op, launch, lacking, stray, overrun, controls, faults>>
  BY DEF Commit, ghosts
<1>2. /\ EdgesSound(overrun, db')
      /\ \A v \in H :
              \/ fin[w].rows.st[v] = db.st[v]
              \/ db.st[v] = "RUNNING" /\ fin[w].rows.st[v] \in Outcome
              \/ db.st[v] = "absent" /\ fin[w].rows.st[v] = "RUNNING"
      /\ \A v \in H : db.st[v] = "absent" =>
              /\ v \in Child /\ Parent[v] \in H
              /\ db.st[Parent[v]] \notin Ended
  BY <1>1 DEF IInv, TxSound
<1>3. fin[w] \in Tx /\ H \subseteq Flow /\ db \in Db
  BY <1>1, TxTyped DEF IInv, TypeOK
<1>4. /\ db' \in Db
      /\ \A v \in Flow : /\ db'.st[v] = IF v \in H THEN fin[w].rows.st[v] ELSE db.st[v]
                         /\ db'.work[v] = IF v \in H THEN fin[w].rows.work[v] ELSE db.work[v]
      /\ \A d \in Child : db'.node[d] = IF Parent[d] \in H THEN fin[w].rows.node[d] ELSE db.node[d]
  BY <1>1, <1>3, ViewRows, SeenIsView DEF Held
<1> HIDE DEF H
<1>5. fin'[w] = NoTx /\ \A x \in Flow \ {w} : fin'[x] = fin[x]
  BY <1>1 DEF IInv, TypeOK
<1>6. TypeOK'
  BY <1>1, <1>4 DEF IInv, TypeOK
<1>7. \A v \in Flow : \/ Moves(db.st[v], db'.st[v])
                      \/ /\ db.st[v] = "absent" /\ v \in Child /\ Parent[v] \in H
                         /\ db.st[Parent[v]] \notin Ended
  BY <1>2, <1>4 DEF Moves, Outcome
<1>8. \A x \in Flow \ {w} : Held(x) \cap H = {} /\ Held(x) \subseteq Flow
  BY TxTyped DEF IInv, LocksApart, H
<1>9. H \cap op.held = {} /\ op.held \subseteq Flow
  BY DEF IInv, LocksApart, H, TypeOK, Op
<1>10. EdgesSound(overrun, db)'
  BY <1>1, <1>2 DEF EdgesSound
<1>11. ASSUME NEW x \in Flow \ {w} PROVE TxSound(x)' /\ Held(x)' = Held(x)
  <2>1. \A v \in Held(x) : /\ db'.st[v] = db.st[v]
                           /\ \A c \in Child : Parent[c] = v => db'.node[c] = db.node[c]
    BY <1>4, <1>8
  <2>2. \A c \in Child : Moves(db.st[c], db'.st[c]) \/ Parent[c] \notin Held(x)
    BY <1>7, <1>8, FlowsTyped
  <2>3. TxSound(x)'
    BY <1>1, <1>5, <1>6, <1>10, <2>1, <2>2, TxKept DEF IInv
  <2>4. QED
    BY <1>5, <2>3 DEF Held
<1>12. TxSound(w)' /\ Held(w)' = {}
  BY <1>5 DEF TxSound, Held, NoTx
<1>13. LocksApart'
  BY <1>1, <1>11, <1>12 DEF IInv, LocksApart
<1>14. \A v \in Flow : db.st[v] # "absent" => db'.st[v] # "absent"
  BY <1>7 DEF Moves
<1>15. FlowsPresent'
  BY <1>1, <1>14 DEF IInv, FlowsPresent, TypeOK
<1>16. Walks'
  <2>1. \A v \in op.held : db'.st[v] = db.st[v]
    BY <1>4, <1>9
  <2>2. ASSUME NEW d \in Child, Parent[d] \in op.held, db'.st[d] = "RUNNING"
        PROVE  db.st[d] = "RUNNING"
    BY <1>2, <1>4, <1>9, <2>2, FlowsTyped DEF Outcome
  <2>3. ASSUME NEW d \in Child, db'.st[Parent[d]] = "CANCELLED",
               db'.st[d] \in {"RUNNING", "PAUSED"}
        PROVE  db.st[Parent[d]] = "CANCELLED" /\ db.st[d] \in {"RUNNING", "PAUSED"}
    <3>1. db.st[Parent[d]] = "CANCELLED"
      BY <1>2, <1>4, <2>3, FlowsTyped DEF Outcome
    <3>2. QED
      BY <1>2, <1>4, <2>3, <3>1, FlowsTyped DEF Outcome, Ended
  <2>4. QED
    BY <1>1, <1>14, <2>1, <2>2, <2>3, WalksKept
<1>17. QED
  BY <1>6, <1>10, <1>11, <1>12, <1>13, <1>15, <1>16 DEF IInv

LEMMA ExpireStep ==
    ASSUME IInv, NEW w \in Flow, ExpirePaused(w)
    PROVE  IInv'
<1> DEFINE W == {w}
<1>1. /\ Free(w) /\ db.st[w] = "PAUSED" /\ db' = Stopped(db, w, "EXPIRED") /\ db \in Db
      /\ UNCHANGED <<outbox, fin, op, launch, lacking, stray, overrun, faults>>
      /\ controls' \in 0..MaxControls
  BY TreeAssumption DEF ExpirePaused, Control, IInv, TypeOK, ghosts
<1>2. /\ db' \in Db /\ EdgesSound(overrun, db') /\ Outside(db, db', W) /\ db'.st[w] = "EXPIRED"
  BY <1>1, StoppedSound DEF IInv
<1>3. w \notin op.held /\ op.held \subseteq Flow /\ \A x \in Flow : Held(x) \cap W = {}
  BY <1>1 DEF Free, Untouched, Held, IInv, TypeOK, Op
<1>4. \A v \in Flow : v # w => db'.st[v] = db.st[v]
  BY <1>2 DEF Outside
<1> HIDE DEF W
<1>5. \A v \in Flow : Moves(db.st[v], db'.st[v])
  BY <1>1, <1>2, <1>4 DEF Moves
<1>6. TypeOK' /\ EdgesSound(overrun, db)'
  BY <1>1, <1>2 DEF IInv, TypeOK, EdgesSound
<1>7. FlowsPresent'
  BY <1>1, <1>5 DEF IInv, FlowsPresent, Moves
<1>8. \A v \in op.held : db'.st[v] = db.st[v]
  BY <1>3, <1>4
<1>9. \A c \in Child : db'.st[c] \in {"RUNNING", "PAUSED"} => db'.st[c] = db.st[c]
  BY <1>2, <1>4, FlowsTyped
<1>10. \A v \in Flow : db'.st[v] = "CANCELLED" => db.st[v] = "CANCELLED"
  BY <1>2, <1>4
<1>11. \A c \in Child : Parent[c] \in Flow
  BY FlowsTyped
<1>12. QED
  BY <1>1, <1>2, <1>3, <1>5, <1>6, <1>7, <1>8, <1>9, <1>10, <1>11, DbStep

-----------------------------------------------------------------------------
(* The operator.                                                           *)

\* A step of the operator that changes one flow that nobody holds.
LEMMA OperatorRow ==
    ASSUME IInv, TypeOK', NEW w \in Flow, Untouched(w), UNCHANGED <<fin, outbox, lacking, overrun>>,
           EdgesSound(overrun, db'), Outside(db, db', {w}), Moves(db.st[w], db'.st[w])
    PROVE  /\ EdgesSound(overrun, db)' /\ FlowsPresent'
           /\ \A x \in Flow : TxSound(x)' /\ Held(x)' = Held(x) /\ w \notin Held(x)
           /\ \A v \in Flow : Moves(db.st[v], db'.st[v]) /\ (v # w => db'.st[v] = db.st[v])
<1> DEFINE W == {w}
<1>1. EdgesSound(overrun, db)'
  BY DEF EdgesSound
<1>2. \A x \in Flow : Held(x) \cap W = {}
  BY DEF Untouched, Held
<1>3. \A v \in Flow : Moves(db.st[v], db'.st[v]) /\ (v # w => db'.st[v] = db.st[v])
  BY DEF Moves, Outside
<1>4. \A x \in Flow : Held(x)' = Held(x) /\ w \notin Held(x)
  BY <1>2 DEF Held
<1>5. Outside(db, db', W) /\ \A c \in Child : Moves(db.st[c], db'.st[c]) \/ Parent[c] \in W
  BY <1>3, FlowsTyped
<1> HIDE DEF W
<1>6. \A x \in Flow : TxSound(x)'
  BY <1>1, <1>2, <1>5, TxsKept
<1>7. FlowsPresent'
  BY <1>3 DEF IInv, FlowsPresent, Moves
<1>8. QED
  BY <1>1, <1>3, <1>4, <1>6, <1>7

\* The fields of an operation, and of one that begins.
LEMMA OpTyped ==
    ASSUME TypeOK
    PROVE  /\ op.kind \in {"idle", "pause", "cancel", "resume"}
           /\ op.held \subseteq Flow /\ op.changed \subseteq Flow
           /\ op.scan \subseteq Flow /\ op.found \subseteq Flow
           /\ NoOp.kind = "idle" /\ NoOp.held = {} /\ NoOp.changed = {}
           /\ NoOp.scan = {} /\ NoOp.found = {} /\ NoOp \in Op
BY DEF TypeOK, Op, NoOp

LEMMA BeginTyped ==
    ASSUME NEW kind \in {"pause", "cancel", "resume"}, NEW w \in Flow
    PROVE  /\ Begin(kind, w) \in Op
           /\ Begin(kind, w).kind = kind /\ Begin(kind, w).scan = {w}
           /\ Begin(kind, w).held = {} /\ Begin(kind, w).changed = {} /\ Begin(kind, w).found = {}
BY DEF Begin, NoOp, Op

\* Nothing is owed by a cancel that is over.
LEMMA NothingOwed ==
    ASSUME IInv, op.kind # "cancel" \/ (op.scan = {} /\ op.found = {}), faults = 0,
           NEW c \in Child, db.st[Parent[c]] = "CANCELLED"
    PROVE  db.st[c] \notin {"RUNNING", "PAUSED"}
BY DEF IInv, Walks, CancelWalk

LEMMA BeginPauseStep ==
    ASSUME IInv, NEW w \in Flow, BeginPause(w)
    PROVE  IInv'
<1>1. /\ op = NoOp /\ Free(w) /\ db.st[w] = "RUNNING"
      /\ op' = [Begin("pause", w) EXCEPT !.held = {w}, !.changed = {w}]
      /\ UNCHANGED <<db, outbox, fin, launch, lacking, stray, overrun, faults>> /\ controls' \in 0..MaxControls
  BY TreeAssumption DEF BeginPause, Control, IInv, TypeOK, ghosts
<1>2. /\ op' \in Op /\ op'.kind = "pause" /\ op'.held = {w} /\ op'.changed = {w}
      /\ op'.scan = {w} /\ op'.found = {}
  BY <1>1 DEF Begin, NoOp, Op
<1>3. TypeOK'
  BY <1>1, <1>2 DEF IInv, TypeOK
<1>4. /\ EdgesSound(overrun, db)' /\ FlowsPresent'
      /\ \A x \in Flow : TxSound(x)' /\ Held(x)' = Held(x) /\ w \notin Held(x)
  <2>1. Untouched(w) /\ EdgesSound(overrun, db') /\ Outside(db, db', {w}) /\ Moves(db.st[w], db'.st[w])
    BY <1>1 DEF Free, IInv, EdgesSound, Outside, Moves
  <2>2. QED
    BY <1>1, <1>3, <2>1, OperatorRow
<1>5. LocksApart'
  BY <1>2, <1>4 DEF IInv, LocksApart
<1>6. OpSound'
  BY <1>1, <1>2 DEF OpSound
<1>7. PauseWalk'
  BY <1>2 DEF PauseWalk
<1>8. CancelWalk'
  BY <1>1, OpTyped, NothingOwed DEF IInv, CancelWalk
<1>9. QED
  BY <1>3, <1>4, <1>5, <1>6, <1>7, <1>8 DEF IInv, Walks

LEMMA BeginCancelStep ==
    ASSUME IInv, NEW w \in Flow, BeginCancel(w)
    PROVE  IInv'
<1>1. /\ op = NoOp /\ Free(w) /\ db.st[w] \in {"RUNNING", "PAUSED"} /\ db \in Db
      /\ db' = Stopped(db, w, "CANCELLED") /\ op' = Begin("cancel", w)
      /\ UNCHANGED <<outbox, fin, launch, lacking, stray, overrun, faults>> /\ controls' \in 0..MaxControls
  BY TreeAssumption DEF BeginCancel, Control, IInv, TypeOK, ghosts
<1>2. /\ db' \in Db /\ EdgesSound(overrun, db') /\ Outside(db, db', {w}) /\ db'.st[w] = "CANCELLED"
  BY <1>1, StoppedSound DEF IInv
<1>3. /\ op' \in Op /\ op'.kind = "cancel" /\ op'.held = {} /\ op'.changed = {}
      /\ op'.scan = {w} /\ op'.found = {}
  BY <1>1, BeginTyped
<1>4. TypeOK'
  BY <1>1, <1>2, <1>3 DEF IInv, TypeOK
<1>5. /\ EdgesSound(overrun, db)' /\ FlowsPresent'
      /\ \A x \in Flow : TxSound(x)' /\ Held(x)' = Held(x) /\ w \notin Held(x)
      /\ \A v \in Flow : Moves(db.st[v], db'.st[v]) /\ (v # w => db'.st[v] = db.st[v])
  <2>1. Untouched(w) /\ Moves(db.st[w], db'.st[w])
    BY <1>1, <1>2 DEF Free, Moves
  <2>2. QED
    BY <1>1, <1>2, <1>4, <2>1, OperatorRow
<1>6. LocksApart'
  BY <1>3, <1>5 DEF IInv, LocksApart
<1>7. OpSound' /\ PauseWalk'
  BY <1>3 DEF OpSound, PauseWalk
<1>8. CancelWalk'
  <2> SUFFICES ASSUME faults = 0, NEW c \in Child, db'.st[Parent[c]] = "CANCELLED",
                      db'.st[c] \in {"RUNNING", "PAUSED"}
               PROVE  Parent[c] = w
    BY <1>1, <1>3 DEF CancelWalk
  <2>1. CASE Parent[c] # w
    <3>1. db.st[Parent[c]] = "CANCELLED" /\ db.st[c] = db'.st[c]
      BY <1>2, <1>5, <2>1, FlowsTyped
    <3>2. QED
      BY <1>1, <3>1, OpTyped, NothingOwed DEF IInv
  <2>2. QED
    BY <2>1
<1>9. QED
  BY <1>4, <1>5, <1>6, <1>7, <1>8 DEF IInv, Walks

LEMMA BeginResumeStep ==
    ASSUME IInv, NEW w \in Flow, BeginResume(w)
    PROVE  IInv'
<1>1. /\ op = NoOp /\ Free(w) /\ db.st[w] \in {"RUNNING", "PAUSED"} /\ db \in Db
      /\ db' = [db EXCEPT !.st[w] = "RUNNING"] /\ op' = Begin("resume", w)
      /\ UNCHANGED <<outbox, fin, launch, lacking, stray, overrun, faults>> /\ controls' \in 0..MaxControls
  BY TreeAssumption DEF BeginResume, Control, IInv, TypeOK, ghosts
<1>2. /\ db' \in Db /\ db'.work = db.work /\ db'.node = db.node
      /\ \A v \in Flow : db'.st[v] = IF v = w THEN "RUNNING" ELSE db.st[v]
  BY <1>1, SetStatusRows DEF FlowStatus
<1>3. Outside(db, db', {w}) /\ Moves(db.st[w], db'.st[w])
  BY <1>1, <1>2 DEF Outside, Moves
<1>4. EdgesSound(overrun, db')
  <2> DEFINE t == db'
  <2>1. /\ t \in Db /\ EdgesSound(overrun, db) /\ t.node = db.node /\ t.st[w] \in {"RUNNING", "PAUSED"}
        /\ \A v \in Flow \ {w} : t.st[v] = db.st[v]
        /\ Moves(db.st[w], t.st[w])
    BY <1>2, <1>3 DEF IInv
  <2>2. db \in Db
    BY <1>1
  <2> HIDE DEF t
  <2>3. EdgesSound(overrun, t)
    BY <2>1, <2>2, StatusKeepsEdges
  <2>4. QED
    BY <2>3 DEF t
<1>5. /\ op' \in Op /\ op'.kind = "resume" /\ op'.held = {} /\ op'.changed = {}
      /\ op'.scan = {w} /\ op'.found = {}
  BY <1>1, BeginTyped
<1>6. TypeOK'
  BY <1>1, <1>2, <1>5 DEF IInv, TypeOK
<1>7. /\ EdgesSound(overrun, db)' /\ FlowsPresent'
      /\ \A x \in Flow : TxSound(x)' /\ Held(x)' = Held(x) /\ w \notin Held(x)
  <2>1. Untouched(w)
    BY <1>1 DEF Free
  <2>2. QED
    BY <1>1, <1>3, <1>4, <1>6, <2>1, OperatorRow
<1>8. LocksApart'
  BY <1>5, <1>7 DEF IInv, LocksApart
<1>9. OpSound' /\ PauseWalk'
  BY <1>5 DEF OpSound, PauseWalk
<1>10. CancelWalk'
  <2> SUFFICES ASSUME faults = 0, NEW c \in Child, db'.st[Parent[c]] = "CANCELLED"
               PROVE  db'.st[c] \notin {"RUNNING", "PAUSED"}
    BY <1>1 DEF CancelWalk
  <2>1. db.st[Parent[c]] = "CANCELLED" /\ c \in Flow
    BY <1>2, FlowsTyped
  <2>2. db.st[c] \notin {"RUNNING", "PAUSED"}
    BY <1>1, <2>1, OpTyped, NothingOwed DEF IInv
  <2>3. QED
    BY <1>1, <1>2, <2>1, <2>2
<1>11. QED
  BY <1>6, <1>7, <1>8, <1>9, <1>10 DEF IInv, Walks

LEMMA ScanStep ==
    ASSUME IInv, NEW w \in Flow, Scan(w)
    PROVE  IInv'
<1> DEFINE F == {c \in Children(w) : db.st[c] \in Sought(op.kind)}
<1>1. /\ w \in op.scan /\ op' = [op EXCEPT !.scan = @ \ {w}, !.found = @ \cup F]
      /\ UNCHANGED <<db, outbox, fin, launch, lacking, stray, overrun, controls, faults>>
  BY DEF Scan, ghosts
<1>2. /\ op.kind \in {"pause", "cancel", "resume"} /\ F \subseteq Child /\ F \subseteq Flow
  BY <1>1, OpTyped, FlowsTyped DEF IInv, Walks, OpSound
<1>3. \A c \in F : db.st[c] # "absent"
  BY <1>2 DEF Sought
<1>4. \A c \in Child : Parent[c] = w /\ db.st[c] \in Sought(op.kind) => c \in F
  BY DEF Children
<1> HIDE DEF F
<1>5. /\ op' \in Op /\ op'.kind = op.kind /\ op'.held = op.held /\ op'.changed = op.changed
      /\ op'.scan = op.scan \ {w} /\ op'.found = op.found \cup F
  BY <1>1, <1>2 DEF IInv, TypeOK, Op
<1>6. TypeOK' /\ FlowsPresent' /\ EdgesSound(overrun, db)'
  BY <1>1, <1>5 DEF IInv, TypeOK, FlowsPresent, EdgesSound
<1>7. \A x \in Flow : TxSound(x)' /\ Held(x)' = Held(x)
  <2>1. EdgesSound(overrun, db)' /\ \A c \in Child : Moves(db.st[c], db'.st[c])
    BY <1>1, <1>6 DEF Moves
  <2>2. QED
    BY <1>1, <1>6, <2>1, TxKept DEF IInv, Held
<1>8. LocksApart'
  BY <1>5, <1>7 DEF IInv, LocksApart
<1>9. OpSound'
  BY <1>1, <1>2, <1>3, <1>5 DEF IInv, Walks, OpSound
<1>10. PauseWalk'
  <2> SUFFICES ASSUME NEW c \in Child \ stray, Parent[c] \in op.changed, db.st[c] = "RUNNING"
               PROVE  Parent[c] \in op'.scan \/ c \in op'.found \cup op'.changed
    BY <1>1, <1>5 DEF PauseWalk
  <2>1. CASE Parent[c] = w
    <3>1. op.kind = "pause"
      BY DEF IInv, Walks, OpSound
    <3>2. QED
      BY <1>4, <1>5, <2>1, <3>1 DEF Sought
  <2>2. CASE Parent[c] # w
    BY <1>5, <2>2 DEF IInv, Walks, PauseWalk
  <2>3. QED
    BY <2>1, <2>2
<1>11. CancelWalk'
  <2> SUFFICES ASSUME faults = 0, NEW c \in Child, db.st[Parent[c]] = "CANCELLED",
                      db.st[c] \in {"RUNNING", "PAUSED"}
               PROVE  op'.kind = "cancel" /\ (Parent[c] \in op'.scan \/ c \in op'.found)
    BY <1>1 DEF CancelWalk
  <2>1. op.kind = "cancel" /\ (Parent[c] \in op.scan \/ c \in op.found)
    BY DEF IInv, Walks, CancelWalk
  <2>2. QED
    BY <1>4, <1>5, <2>1 DEF Sought
<1>12. QED
  BY <1>6, <1>7, <1>8, <1>9, <1>10, <1>11 DEF IInv, Walks

\* A child that was found is looked at again: paused with the flows above it at the
\* end, cancelled or resumed at once.
LEMMA VisitStep ==
    ASSUME IInv, NEW c \in Child, Visit(c)
    PROVE  IInv'
<1> DEFINE hit == db.st[c] \in Sought(op.kind)
           pause == op.kind = "pause"
           D == Deeper(c)
<1>1. /\ c \in op.found /\ Free(c) /\ db \in Db /\ c \in Flow
      /\ op' = [op EXCEPT !.found = @ \ {c}, !.scan = @ \cup D,
                          !.held = IF pause THEN @ \cup {c} ELSE @,
                          !.changed = IF pause /\ hit THEN @ \cup {c} ELSE @]
      /\ db' = IF ~hit \/ pause THEN db
               ELSE IF op.kind = "cancel" THEN Stopped(db, c, "CANCELLED")
               ELSE [db EXCEPT !.st[c] = "RUNNING"]
      /\ UNCHANGED <<outbox, fin, launch, lacking, stray, overrun, controls, faults>>
  BY FlowsTyped DEF Visit, IInv, TypeOK, ghosts
<1>2. op.kind \in {"pause", "cancel", "resume"} /\ db.st[c] # "absent"
  BY <1>1, OpTyped DEF IInv, Walks, OpSound
<1>3. /\ hit /\ pause => db.st[c] = "RUNNING"
      /\ hit /\ op.kind = "resume" => db.st[c] = "PAUSED"
      /\ op.kind = "cancel" => (hit <=> db.st[c] \in {"RUNNING", "PAUSED"})
      /\ pause /\ db.st[c] = "RUNNING" => hit
      /\ D \subseteq {c} /\ (~pause \/ db.st[c] = "RUNNING" => D = {c})
  BY <1>2 DEF Sought, Deeper
<1> HIDE DEF hit, D
<1>4. /\ op' \in Op /\ op'.kind = op.kind /\ op'.found = op.found \ {c} /\ op'.scan = op.scan \cup D
      /\ op'.held = IF pause THEN op.held \cup {c} ELSE op.held
      /\ op'.changed = IF pause /\ hit THEN op.changed \cup {c} ELSE op.changed
  BY <1>1, <1>3 DEF IInv, TypeOK, Op
<1>5. /\ db' \in Db /\ EdgesSound(overrun, db') /\ Outside(db, db', {c}) /\ Moves(db.st[c], db'.st[c])
      /\ hit /\ op.kind = "cancel" => db'.st[c] = "CANCELLED"
      /\ ~pause /\ hit /\ op.kind # "cancel" => db'.st[c] = "RUNNING"
  <2>1. CASE ~hit \/ pause
    BY <1>1, <2>1 DEF IInv, Outside, Moves
  <2>2. CASE ~pause /\ hit /\ op.kind = "cancel"
    <3>1. db' = Stopped(db, c, "CANCELLED") /\ db.st[c] \in {"RUNNING", "PAUSED"}
      BY <1>1, <1>3, <2>2
    <3>2. EdgesSound(overrun, db) /\ db \in Db /\ c \in Flow
      BY <1>1 DEF IInv
    <3>3. /\ db' \in Db /\ EdgesSound(overrun, db') /\ Outside(db, db', {c}) /\ db'.st[c] = "CANCELLED"
      BY <3>1, <3>2, StoppedSound
    <3>4. QED
      BY <2>2, <3>1, <3>3 DEF Moves
  <2>3. CASE ~pause /\ hit /\ op.kind # "cancel"
    <3> DEFINE t == [db EXCEPT !.st[c] = "RUNNING"]
    <3>1. db' = t /\ db.st[c] = "PAUSED" /\ db \in Db /\ c \in Flow
      BY <1>1, <1>2, <1>3, <2>3
    <3>2. /\ t \in Db /\ t.work = db.work /\ t.node = db.node
          /\ \A v \in Flow : t.st[v] = IF v = c THEN "RUNNING" ELSE db.st[v]
      BY <3>1, SetStatusRows DEF FlowStatus
    <3> HIDE DEF t
    <3>3. Outside(db, t, {c}) /\ Moves(db.st[c], t.st[c]) /\ t.st[c] = "RUNNING"
      BY <1>1, <3>1, <3>2 DEF Outside, Moves
    <3>4. EdgesSound(overrun, db) /\ \A v \in Flow \ {c} : t.st[v] = db.st[v]
      BY <3>2 DEF IInv
    <3>5. EdgesSound(overrun, t)
      BY <1>1, <3>2, <3>3, <3>4, StatusKeepsEdges
    <3>6. QED
      BY <2>3, <3>1, <3>2, <3>3, <3>5
  <2>4. QED
    BY <2>1, <2>2, <2>3
<1>6. TypeOK'
  BY <1>1, <1>4, <1>5 DEF IInv, TypeOK
<1>7. /\ EdgesSound(overrun, db)' /\ FlowsPresent'
      /\ \A x \in Flow : TxSound(x)' /\ Held(x)' = Held(x) /\ c \notin Held(x)
      /\ \A v \in Flow : Moves(db.st[v], db'.st[v]) /\ (v # c => db'.st[v] = db.st[v])
  <2>1. Untouched(c)
    BY <1>1 DEF Free
  <2>2. QED
    BY <1>1, <1>5, <1>6, <2>1, OperatorRow
<1>8. LocksApart'
  BY <1>4, <1>7 DEF IInv, LocksApart
<1>9. OpSound'
  <2>1. /\ op.kind # "pause" => op.held = {} /\ op.changed = {}
        /\ op.changed \subseteq op.held /\ op.held \subseteq Flow /\ op.found \subseteq Child
        /\ \A v \in op.changed : db.st[v] = "RUNNING"
        /\ \A v \in op.held \cup op.found : db.st[v] # "absent"
    BY OpTyped DEF IInv, Walks, OpSound
  <2>2. \A v \in op'.held \cup op'.found : db'.st[v] # "absent"
    BY <1>1, <1>2, <1>4, <1>7, <2>1, FlowsTyped DEF Moves
  <2>3. \A v \in op'.changed : db'.st[v] = "RUNNING"
    BY <1>1, <1>3, <1>4, <2>1
  <2>4. QED
    BY <1>2, <1>4, <2>1, <2>2, <2>3 DEF OpSound
<1>10. PauseWalk'
  <2>1. CASE ~pause
    BY <1>4, <2>1 DEF IInv, Walks, OpSound, PauseWalk
  <2>2. CASE pause
    <3>1. db' = db
      BY <1>1, <2>2
    <3> SUFFICES ASSUME NEW d \in Child \ stray, Parent[d] \in op'.changed, db.st[d] = "RUNNING"
                 PROVE  Parent[d] \in op'.scan \/ d \in op'.found \cup op'.changed
      BY <1>1, <3>1 DEF PauseWalk
    <3>2. CASE Parent[d] \in op.changed
      <4>1. Parent[d] \in op.scan \/ d \in op.found \cup op.changed
        BY <3>2 DEF IInv, Walks, PauseWalk
      <4>2. QED
        BY <1>3, <1>4, <2>2, <4>1
    <3>3. CASE Parent[d] \notin op.changed
      BY <1>3, <1>4, <2>2, <3>3
    <3>4. QED
      BY <3>2, <3>3
  <2>3. QED
    BY <2>1, <2>2
<1>11. CancelWalk'
  <2> SUFFICES ASSUME faults = 0, NEW d \in Child, db'.st[Parent[d]] = "CANCELLED",
                      db'.st[d] \in {"RUNNING", "PAUSED"}
               PROVE  op.kind = "cancel" /\ (Parent[d] \in op'.scan \/ d \in op'.found)
    BY <1>1, <1>4 DEF CancelWalk
  <2>1. d \in Flow /\ Parent[d] \in Flow
    BY FlowsTyped
  <2>2. db.st[d] \in {"RUNNING", "PAUSED"}
    BY <1>7, <2>1 DEF Moves
  <2>3. CASE op.kind # "cancel"
    <3>1. db.st[Parent[d]] = "CANCELLED"
      BY <1>1, <1>5, <1>7, <2>1, <2>3
    <3>2. QED
      BY <2>2, <2>3, <3>1, NothingOwed
  <2>4. CASE op.kind = "cancel" /\ Parent[d] = c
    BY <1>3, <1>4, <2>4
  <2>5. CASE op.kind = "cancel" /\ Parent[d] # c
    <3>1. db.st[Parent[d]] = "CANCELLED"
      BY <1>7, <2>1, <2>5
    <3>2. Parent[d] \in op.scan \/ d \in op.found
      BY <2>2, <3>1 DEF IInv, Walks, CancelWalk
    <3>3. d # c
      BY <1>3, <1>5, <2>2, <2>5
    <3>4. QED
      BY <1>4, <2>5, <3>2, <3>3
  <2>6. QED
    BY <2>3, <2>4, <2>5
<1>12. QED
  BY <1>6, <1>7, <1>8, <1>9, <1>10, <1>11 DEF IInv, Walks

\* The flows of a pause are paused together; nobody else had them.
LEMMA EndStep ==
    ASSUME IInv, End
    PROVE  IInv'
<1> DEFINE W == op.changed
<1>1. /\ op # NoOp /\ op.scan = {} /\ op.found = {} /\ op' = NoOp /\ db \in Db
      /\ db' = [db EXCEPT !.st = [v \in Flow |-> IF v \in W THEN "PAUSED" ELSE db.st[v]]]
      /\ UNCHANGED <<outbox, fin, launch, lacking, stray, overrun, controls, faults>>
  BY DEF End, Walked, IInv, TypeOK, ghosts
<1>2. W \subseteq Flow /\ W \subseteq op.held /\ \A v \in W : db.st[v] = "RUNNING"
  BY OpTyped DEF IInv, Walks, OpSound
<1> HIDE DEF W
<1>3. /\ db' \in Db /\ db'.work = db.work /\ db'.node = db.node
      /\ \A v \in Flow : db'.st[v] = IF v \in W THEN "PAUSED" ELSE db.st[v]
  <2> DEFINE f == [v \in Flow |-> IF v \in W THEN "PAUSED" ELSE db.st[v]]
  <2>1. f \in [Flow -> FlowStatus]
    BY <1>1, DbTyped DEF FlowStatus
  <2>2. \A v \in Flow : f[v] = IF v \in W THEN "PAUSED" ELSE db.st[v]
    OBVIOUS
  <2>3. db' = [db EXCEPT !.st = f]
    BY <1>1
  <2> HIDE DEF f
  <2>4. QED
    BY <1>1, <2>1, <2>2, <2>3 DEF Db
<1>4. Outside(db, db', W) /\ \A v \in Flow : Moves(db.st[v], db'.st[v])
  BY <1>2, <1>3 DEF Outside, Moves
<1>5. EdgesSound(overrun, db')
  <2> SUFFICES ASSUME NEW c \in Child PROVE Edge(overrun, c, db'.st[Parent[c]], db'.node[c], db'.st[c])
    BY DEF EdgesSound
  <2>1. /\ Edge(overrun, c, db.st[Parent[c]], db.node[c], db.st[c]) /\ db.node[c] \in NodeStatus
        /\ c \in Flow /\ Parent[c] \in Flow
    BY <1>1, DbTyped, FlowsTyped DEF IInv, EdgesSound
  <2>2. Edge(overrun, c, db.st[Parent[c]], db.node[c], db'.st[c])
    BY <1>4, <2>1, EdgeStable
  <2>3. CASE Parent[c] \in W
    BY <1>2, <1>3, <2>1, <2>2, <2>3 DEF Edge, Outcome
  <2>4. CASE Parent[c] \notin W
    BY <1>3, <2>1, <2>2, <2>4
  <2>5. QED
    BY <2>3, <2>4
<1>6. TypeOK' /\ EdgesSound(overrun, db)'
  BY <1>1, <1>3, <1>5, OpTyped DEF IInv, TypeOK, EdgesSound
<1>7. FlowsPresent'
  BY <1>1, <1>4 DEF IInv, FlowsPresent, Moves
<1>8. \A x \in Flow : Held(x) \cap W = {} /\ Held(x)' = Held(x)
  BY <1>1, <1>2 DEF IInv, LocksApart, Held
<1>9. \A x \in Flow : TxSound(x)'
  <2>1. \A c \in Child : Moves(db.st[c], db'.st[c]) \/ Parent[c] \in W
    BY <1>4, FlowsTyped
  <2>2. QED
    BY <1>1, <1>4, <1>6, <1>8, <2>1, TxsKept
<1>10. LocksApart' /\ OpSound' /\ PauseWalk'
  BY <1>1, <1>8, OpTyped DEF IInv, LocksApart, OpSound, PauseWalk
<1>11. CancelWalk'
  <2> SUFFICES ASSUME faults = 0, NEW c \in Child, db'.st[Parent[c]] = "CANCELLED"
               PROVE  db'.st[c] \notin {"RUNNING", "PAUSED"}
    BY <1>1 DEF CancelWalk
  <2>1. db.st[Parent[c]] = "CANCELLED" /\ c \in Flow
    BY <1>3, FlowsTyped
  <2>2. db.st[c] \notin {"RUNNING", "PAUSED"}
    BY <1>1, <2>1, NothingOwed
  <2>3. QED
    BY <1>2, <1>3, <2>1, <2>2
<1>12. QED
  BY <1>6, <1>7, <1>8, <1>9, <1>10, <1>11 DEF IInv, Walks

\* A transaction of phase 2 is undone: the others do not notice.
LEMMA Phase2Undone ==
    ASSUME IInv, NEW w \in Flow, fin' = [fin EXCEPT ![w] = NoTx],
           UNCHANGED <<db, outbox, op, launch, lacking, stray, overrun, controls>>,
           faults' \in 0..MaxFaults, faults' = 0 => faults = 0
    PROVE  IInv'
<1>1. TypeOK'
  BY DEF IInv, TypeOK
<1>2. fin'[w] = NoTx /\ \A x \in Flow \ {w} : fin'[x] = fin[x]
  BY DEF IInv, TypeOK
<1>3. TxSound(w)' /\ Held(w)' = {}
  BY <1>2 DEF TxSound, Held, NoTx
<1>4. \A x \in Flow \ {w} : TxSound(x)' /\ Held(x)' = Held(x)
  BY <1>1, <1>2, OthersKept
<1>5. LocksApart'
  BY <1>3, <1>4 DEF IInv, LocksApart
<1>6. EdgesSound(overrun, db)' /\ FlowsPresent'
  BY DEF IInv, EdgesSound, FlowsPresent
<1>7. Walks'
  BY WalksKept
<1>8. QED
  BY <1>1, <1>3, <1>4, <1>5, <1>6, <1>7 DEF IInv

\* The operation stops where it is; a pause undone, a cancel cut short by a crash.
LEMMA OpUndone ==
    ASSUME IInv, op' = NoOp, UNCHANGED <<db, outbox, fin, launch, lacking, stray, overrun, controls>>,
           faults' \in 0..MaxFaults,
           faults' = 0 => faults = 0 /\ op.kind # "cancel"
    PROVE  IInv'
<1>1. TypeOK' /\ EdgesSound(overrun, db)' /\ FlowsPresent'
  BY OpTyped DEF IInv, TypeOK, EdgesSound, FlowsPresent
<1>2. \A x \in Flow : TxSound(x)' /\ Held(x)' = Held(x)
  <2>1. \A c \in Child : Moves(db.st[c], db'.st[c])
    BY DEF Moves
  <2>2. QED
    BY <1>1, <2>1, TxKept DEF IInv, Held
<1>3. LocksApart' /\ OpSound' /\ PauseWalk'
  BY <1>2, OpTyped DEF IInv, LocksApart, OpSound, PauseWalk
<1>4. CancelWalk'
  BY NothingOwed DEF CancelWalk
<1>5. QED
  BY <1>1, <1>2, <1>3, <1>4 DEF IInv, Walks

LEMMA VictimStep ==
    ASSUME IInv, NEW w \in Flow, Victim(w)
    PROVE  IInv'
<1>1. /\ UNCHANGED <<db, outbox, launch, lacking, stray, overrun, controls, faults>> /\ op.held # {}
      /\ \/ fin' = [fin EXCEPT ![w] = NoTx] /\ op' = op
         \/ op' = NoOp /\ fin' = fin
  BY DEF Victim, Deadlocked, RollBack, ghosts
<1>2. faults' \in 0..MaxFaults /\ op.kind # "cancel"
  BY <1>1 DEF IInv, TypeOK, Walks, OpSound
<1>3. CASE fin' = [fin EXCEPT ![w] = NoTx] /\ op' = op
  BY <1>1, <1>2, <1>3, Phase2Undone
<1>4. CASE op' = NoOp /\ fin' = fin
  BY <1>1, <1>2, <1>4, OpUndone
<1>5. QED
  BY <1>1, <1>3, <1>4

LEMMA CrashStep ==
    ASSUME IInv, CrashOp \/ \E w \in Flow : CrashPhase2(w)
    PROVE  IInv'
<1>1. Fault => faults' \in 0..MaxFaults /\ faults' # 0
  BY TreeAssumption DEF Fault, IInv, TypeOK
<1>2. CASE CrashOp
  BY <1>1, <1>2, OpUndone DEF CrashOp, ghosts
<1>3. ASSUME NEW w \in Flow, CrashPhase2(w) PROVE IInv'
  BY <1>1, <1>3, Phase2Undone DEF CrashPhase2, ghosts
<1>4. QED
  BY <1>2, <1>3

-----------------------------------------------------------------------------
(* The invariant holds.                                                    *)

LEMMA InitSound == Init => IInv
<1> SUFFICES ASSUME Init PROVE IInv
  OBVIOUS
<1> DEFINE z == [st |-> [w \in Flow |-> "absent"], work |-> [w \in Flow |-> "open"],
                 node |-> [c \in Child |-> "PENDING"]]
           C == Root
           S == Starting(C)
<1>1. /\ db = Started(z, C) /\ outbox = [w \in Flow |-> "none"]
      /\ fin = [w \in Flow |-> NoTx] /\ op = NoOp
      /\ launch = {} /\ lacking = {} /\ stray = {} /\ overrun = {}
      /\ controls = 0 /\ faults = 0
  BY DEF Init
<1>2. /\ z \in Db
      /\ \A w \in Flow : z.st[w] = "absent"
      /\ \A c \in Child : z.node[c] = "PENDING"
  BY DEF Db, FlowStatus, NodeStatus
<1>3. C \subseteq Flow /\ C \cap Child = {}
  BY FlowsTyped DEF Root
<1> HIDE DEF z, C
<1>4. /\ db \in Db
      /\ \A w \in Flow : db.st[w] = IF w \in S THEN "RUNNING" ELSE "absent"
      /\ \A c \in Child : db.node[c] = IF c \in S THEN "LINKED" ELSE "PENDING"
  BY <1>1, <1>2, <1>3, StartedRows
<1>5. \A w \in S \ C : Parent[w] \in S
  BY <1>3, StartingLeast
<1> HIDE DEF S
<1>6. EdgesSound(overrun, db)
  <2> SUFFICES ASSUME NEW c \in Child PROVE Edge(overrun, c, db.st[Parent[c]], db.node[c], db.st[c])
    BY DEF EdgesSound
  <2>1. c \in Flow /\ Parent[c] \in Flow /\ c \notin C
    BY <1>3, FlowsTyped
  <2>2. CASE c \in S
    BY <1>1, <1>4, <1>5, <2>1, <2>2 DEF Edge, Outcome
  <2>3. CASE c \notin S
    BY <1>1, <1>4, <2>1, <2>3 DEF Edge, Outcome
  <2>4. QED
    BY <2>2, <2>3
<1>7. TypeOK
  BY <1>1, <1>4, OpTyped, TreeAssumption DEF TypeOK, NoOp, Op
<1>8. \A x \in Flow : TxSound(x) /\ Held(x) = {}
  BY <1>1 DEF TxSound, Held, NoTx
<1>9. LocksApart /\ OpSound /\ PauseWalk /\ FlowsPresent
  BY <1>1, <1>7, <1>8, OpTyped DEF LocksApart, OpSound, PauseWalk, FlowsPresent
<1>10. CancelWalk
  BY <1>4, FlowsTyped DEF CancelWalk
<1>11. QED
  BY <1>6, <1>7, <1>8, <1>9, <1>10 DEF IInv, Walks

LEMMA NextStep == IInv /\ [Next]_vars => IInv'
<1> SUFFICES ASSUME IInv, [Next]_vars PROVE IInv'
  OBVIOUS
<1>1. CASE FlowNext
  <2>1. PICK w \in Flow : \/ Work(w) \/ Consume(w) \/ Climb(w) \/ Commit(w)
                          \/ CheckCompletion(w) \/ Scan(w) \/ Victim(w) \/ CrashPhase2(w)
                          \/ ExpirePaused(w)
    BY <1>1 DEF FlowNext
  <2>2. QED
    BY <2>1, WorkStep, ConsumeStep, ClimbStep, CommitStep, CheckCompletionStep, ScanStep,
       VictimStep, CrashStep, ExpireStep
<1>2. CASE ChildNext
  <2>1. PICK c \in Child : \/ OnSubworkflowComplete(c) \/ Reevaluate(c) \/ FailLoad(c)
                           \/ BeginLaunch(c) \/ EndLaunch(c) \/ Visit(c) \/ CrashLaunch(c)
    BY <1>2 DEF ChildNext
  <2>2. QED
    BY <2>1, CallbackStep, ReevaluateStep, FailLoadStep, LaunchStep, EndLaunchStep, VisitStep
<1>3. ASSUME NEW w \in Target, BeginPause(w) \/ BeginCancel(w) \/ BeginResume(w)
      PROVE  IInv'
  <2>1. w \in Flow
    BY TreeAssumption
  <2>2. QED
    BY <1>3, <2>1, BeginPauseStep, BeginCancelStep, BeginResumeStep
<1>4. CASE End \/ CrashOp
  BY <1>4, EndStep, CrashStep
<1>5. CASE UNCHANGED vars
  <2>1. TypeOK' /\ FlowsPresent' /\ UNCHANGED <<db, fin, op, stray, overrun, faults>>
    BY <1>5 DEF vars, ghosts, IInv, TypeOK, FlowsPresent
  <2>2. QED
    BY <2>1, QuietStep
<1>6. QED
  BY <1>1, <1>2, <1>3, <1>4, <1>5 DEF Next, OperatorNext

\* In every reachable state, of every tree: the committed rows and what each open
\* transaction sees are sound, whichever definitions the workers know; transactions
\* hold different flows, and a walk that goes on will come to every child it owes
\* something to.
THEOREM InvariantHolds == Spec => []IInv
<1>1. QED
  BY InitSound, NextStep, PTL DEF Spec

\* The variables keep their types: a transaction has rows of the tree.
THEOREM TypeCorrect == Spec => []TypeOK
<1>1. IInv => TypeOK
  BY DEF IInv
<1>2. QED
  BY <1>1, InvariantHolds, PTL

\* At any commit of phase 2, a resume, recovery or an operator the rows of a parent
\* and of its child agree (complete_phase2_workflow_in_tx, engine.rs); a node that
\* failed over no child is one of a definition some worker lacks, and only a child
\* that such a worker failed over after its launch is excepted
\* (fail_subworkflow_load, engine.rs).
THEOREM TreeAgree == Spec => []TreeAgrees
<1>1. ASSUME IInv PROVE TreeAgrees
  <2>1. \A c \in Child : /\ Edge(overrun, c, db.st[Parent[c]], db.node[c], db.st[c])
                         /\ db.node[c] \in NodeStatus
    BY <1>1, DbTyped DEF IInv, TypeOK, EdgesSound
  <2>2. OutcomeAgrees
    BY <2>1 DEF OutcomeAgrees, Edge, NodeStatus, NodeDone
  <2>3. FinishedHasNoLiveChild
    BY <2>1 DEF FinishedHasNoLiveChild, Edge, NodeDone, Ended
  <2>4. QED
    BY <2>2, <2>3 DEF TreeAgrees
<1>2. QED
  BY <1>1, InvariantHolds, PTL

\* A cancel that returned without a crash left no live child under a cancelled flow
\* (cancel_workflow, lifecycle.rs).
THEOREM CancelReaches == Spec => []CancelReachesChildren
<1>1. ASSUME IInv PROVE CancelReachesChildren
  BY <1>1, NothingOwed, OpTyped DEF IInv, CancelReachesChildren
<1>2. QED
  BY <1>1, InvariantHolds, PTL

-----------------------------------------------------------------------------
(* Pauses.                                                                 *)

\* No step but the end of a pause pauses a flow.
LEMMA OnlyEndPauses ==
    ASSUME IInv, [Next]_vars, ~End, NEW v \in Flow, db'.st[v] = "PAUSED"
    PROVE  db.st[v] = "PAUSED"
<1>1. db \in Db
  BY DEF IInv, TypeOK
<1>2. CASE db' = db
  BY <1>2
<1>3. ASSUME NEW w \in Flow, Commit(w) PROVE db.st[v] = "PAUSED"
  <2>1. fin[w] # NoTx /\ db' = Seen(w)
    BY <1>3 DEF Commit
  <2>2. \A u \in Held(w) : \/ fin[w].rows.st[u] = db.st[u]
                           \/ fin[w].rows.st[u] \in Outcome \cup {"RUNNING"}
    BY <2>1 DEF IInv, TxSound
  <2>3. db'.st[v] = IF v \in Held(w) THEN fin[w].rows.st[v] ELSE db.st[v]
    BY <1>1, <2>1, TxTyped, ViewRows, SeenIsView DEF IInv, Held
  <2>4. QED
    BY <2>2, <2>3 DEF Outcome
<1>4. ASSUME NEW w \in Flow, CheckCompletion(w) PROVE db.st[v] = "PAUSED"
  BY <1>1, <1>4, CompletedRows DEF CheckCompletion, Outcome
<1>5. ASSUME NEW w \in Flow, NEW status \in {"CANCELLED", "EXPIRED"},
             db.st[w] \in {"RUNNING", "PAUSED"}, db' = Stopped(db, w, status)
      PROVE  db.st[v] = "PAUSED"
  BY <1>1, <1>5, StoppedSound DEF IInv, Outside
<1>6. ASSUME NEW w \in Flow, db' = [db EXCEPT !.st[w] = "RUNNING"] PROVE db.st[v] = "PAUSED"
  BY <1>1, <1>6, SetStatusRows DEF FlowStatus
<1>7. ASSUME NEW c \in Child, OnSubworkflowComplete(c) \/ Reevaluate(c) \/ FailLoad(c)
      PROVE  db'.st = db.st
  BY <1>1, <1>7, SetNodesRows, NodeOutcomes
     DEF OnSubworkflowComplete, NodeWritten, Reevaluate, FailLoad, NodeStatus, NodeDone
<1>8. ASSUME NEW c \in Child, EndLaunch(c) PROVE db.st[v] = "PAUSED"
  <2>1. {c} \subseteq Flow
    BY FlowsTyped
  <2>2. QED
    BY <1>1, <1>8, <2>1, StartedRows DEF EndLaunch
<1>9. ASSUME NEW c \in Child, Visit(c) PROVE db.st[v] = "PAUSED"
  <2>1. c \in Flow /\ op.kind = "cancel" => Sought(op.kind) = {"RUNNING", "PAUSED"}
    BY FlowsTyped DEF Sought
  <2>2. c \in Flow
    BY FlowsTyped
  <2>3. QED
    BY <1>2, <1>5, <1>6, <1>9, <2>1, <2>2 DEF Visit
<1>10. ASSUME NEW w \in Flow, BeginCancel(w) \/ BeginResume(w) \/ ExpirePaused(w)
       PROVE  db.st[v] = "PAUSED"
  BY <1>5, <1>6, <1>10 DEF BeginCancel, BeginResume, ExpirePaused
<1>11. CASE FlowNext
  BY <1>2, <1>3, <1>4, <1>10, <1>11
     DEF FlowNext, Work, Consume, Climb, Scan, Victim, RollBack, CrashPhase2
<1>12. CASE ChildNext
  BY <1>2, <1>7, <1>8, <1>9, <1>12 DEF ChildNext, BeginLaunch, CrashLaunch
<1>13. CASE OperatorNext
  BY <1>2, <1>10, <1>13, TreeAssumption DEF OperatorNext, BeginPause, CrashOp
<1>14. CASE UNCHANGED vars
  BY <1>2, <1>14 DEF vars
<1>15. QED
  BY <1>11, <1>12, <1>13, <1>14 DEF Next

\* When a pause commits, no child of a flow it paused runs, but for those that were
\* being launched outside of phase 2 (pause_workflow, lifecycle.rs).
THEOREM PauseCovers == Spec => PauseCoversTree
<1>1. ASSUME IInv, [Next]_vars, NEW c \in Child \ stray,
             db.st[Parent[c]] # "PAUSED", db'.st[Parent[c]] = "PAUSED", db'.st[c] = "RUNNING"
      PROVE  FALSE
  <2>1. c \in Flow /\ Parent[c] \in Flow /\ db \in Db
    BY <1>1, FlowsTyped DEF IInv, TypeOK
  <2>2. End
    BY <1>1, <2>1, OnlyEndPauses
  <2>3. /\ op.scan = {} /\ op.found = {}
        /\ \A v \in Flow : db'.st[v] = IF v \in op.changed THEN "PAUSED" ELSE db.st[v]
    BY <2>1, <2>2 DEF End, Walked, Db
  <2>4. Parent[c] \in op.changed /\ c \notin op.changed /\ db.st[c] = "RUNNING"
    BY <1>1, <2>1, <2>3
  <2>5. QED
    BY <1>1, <2>3, <2>4 DEF IInv, Walks, PauseWalk
<1>2. IInv /\ [Next]_vars =>
        [\A c \in Child \ stray :
           db.st[Parent[c]] # "PAUSED" /\ db'.st[Parent[c]] = "PAUSED"
             => db'.st[c] # "RUNNING"]_vars
  BY <1>1
<1>3. Spec => [][\A c \in Child \ stray :
           db.st[Parent[c]] # "PAUSED" /\ db'.st[Parent[c]] = "PAUSED"
             => db'.st[c] # "RUNNING"]_vars
  BY <1>2, InvariantHolds, PTL DEF Spec
<1>4. QED
  BY <1>3 DEF PauseCoversTree

=============================================================================
