------------------------ MODULE WorkflowNodes_proofs ------------------------
(***************************************************************************)
(* Proofs about WorkflowNodes.  The rows of a workflow are sound when its  *)
(* links, tasks, statuses and outbox agree; every transaction keeps them   *)
(* so, and the invariants follow.  What phase 2 skips is a least fixed     *)
(* point, which is all that is needed of the propagation.  With them every *)
(* transaction is a step of WorkflowContract, or changes nothing of it.    *)
(***************************************************************************)
EXTENDS WorkflowNodes, FiniteSetTheorems, TLAPS

-----------------------------------------------------------------------------
(* What each function of the rows changes, row by row.                     *)

LEMMA GenerationsTyped == MaxGen \in Nat \ {0} /\ 0 \in 0 .. MaxGen
BY NodesAssumption

LEMMA SetNodesFacts ==
    ASSUME NEW s \in Db, NEW S, NEW st \in NodeStatus
    PROVE  LET r == SetNodes(s, S, st) IN
           /\ r \in Db /\ r.wf = s.wf /\ r.task = s.task
           /\ \A n \in Node : /\ r.node[n].st = IF n \in S THEN st ELSE s.node[n].st
                              /\ r.node[n].gen = s.node[n].gen
BY DEF SetNodes, Db

LEMMA SetTasksFacts ==
    ASSUME NEW s \in Db, NEW T, NEW st \in TaskStatus
    PROVE  LET r == SetTasks(s, T, st) IN
           /\ r \in Db /\ r.wf = s.wf /\ r.node = s.node
           /\ \A t \in Task : r.task[t] = IF t \in T THEN st ELSE s.task[t]
BY DEF SetTasks, Db

LEMMA WfFacts ==
    ASSUME NEW s \in Db, NEW wf \in {"RUNNING", "PAUSED"} \cup WorkflowDone
    PROVE  LET r == [s EXCEPT !.wf = wf] IN
           r \in Db /\ r.wf = wf /\ r.node = s.node /\ r.task = s.task
BY DEF Db

LEMMA FreshUnused ==
    ASSUME NEW s, NEW n, Unused(s, n) # {}
    PROVE  Fresh(s, n) \in Generation /\ s.task[<<n, Fresh(s, n)>>] = "unused"
BY DEF Fresh, Unused

LEMMA EnqueueFacts ==
    ASSUME NEW s \in Db, NEW S, Spare(s, S), S \subseteq Node
    PROVE  LET r == Enqueue(s, S) IN
           /\ r \in Db /\ r.wf = s.wf
           /\ \A n \in Node : r.node[n] = IF n \in S THEN [st |-> "ENQUEUED", gen |-> Fresh(s, n)]
                                          ELSE s.node[n]
           /\ \A t \in Task : r.task[t] = IF t[1] \in S /\ t[2] = Fresh(s, t[1]) THEN "PENDING"
                                          ELSE s.task[t]
<1>1. \A n \in S : Fresh(s, n) \in 0 .. MaxGen
  <2>1. TAKE n \in S
  <2>2. Unused(s, n) # {}
    BY DEF Spare
  <2>3. Fresh(s, n) \in Generation
    BY <2>2, FreshUnused
  <2>4. QED
    BY <2>3, GenerationsTyped DEF Generation
<1>2. QED
  BY <1>1 DEF Enqueue, Db, NodeStatus, TaskStatus, Live

LEMMA ResetNodesFacts ==
    ASSUME NEW s \in Db, NEW T
    PROVE  LET r == ResetNodes(s, T) IN
           /\ r \in Db /\ r.wf = s.wf /\ r.task = s.task
           /\ \A n \in Node : r.node[n] = IF <<n, s.node[n].gen>> \in T
                                          THEN [st |-> "READY", gen |-> 0] ELSE s.node[n]
<1>1. \A n \in Node : [st |-> "READY", gen |-> 0] \in [st : NodeStatus, gen : 0 .. MaxGen]
  BY GenerationsTyped DEF NodeStatus
<1>2. QED
  BY <1>1 DEF ResetNodes, Db

LEMMA AbandonFacts ==
    ASSUME NEW s \in Db, NEW T
    PROVE  LET r == Abandon(s, T) IN
           /\ r \in Db /\ r.wf = s.wf
           /\ \A n \in Node : r.node[n] = IF <<n, s.node[n].gen>> \in T
                                          THEN [st |-> "READY", gen |-> 0] ELSE s.node[n]
           /\ \A t \in Task : r.task[t] = IF t \in T THEN "abandoned" ELSE s.task[t]
<1> DEFINE m == SetTasks(s, T, "abandoned")
<1>1. /\ m \in Db /\ m.wf = s.wf /\ m.node = s.node
      /\ \A t \in Task : m.task[t] = IF t \in T THEN "abandoned" ELSE s.task[t]
  BY SetTasksFacts DEF TaskStatus
<1>2. Abandon(s, T) = ResetNodes(m, T)
  BY DEF Abandon
<1> HIDE DEF m
<1>3. QED
  BY <1>1, <1>2, ResetNodesFacts

LEMMA CancelNodeFacts ==
    ASSUME NEW s \in Db, NEW t \in Task
    PROVE  LET r == CancelNode(s, t) IN
           /\ r \in Db /\ r.wf = s.wf
           /\ \A n \in Node :
                /\ r.node[n].gen = s.node[n].gen
                /\ r.node[n].st = IF /\ n = t[1] /\ Linked(s, t)
                                     /\ s.node[n].st \in {"PENDING", "READY", "ENQUEUED"}
                                  THEN "SKIPPED" ELSE s.node[n].st
           /\ \A u \in Task : r.task[u] = IF u = t THEN "cancelled" ELSE s.task[u]
<1> DEFINE m == SetTasks(s, {t}, "cancelled")
           S == {k \in {t[1]} : /\ Linked(s, t)
                                /\ s.node[k].st \in {"PENDING", "READY", "ENQUEUED"}}
<1>1. /\ m \in Db /\ m.wf = s.wf /\ m.node = s.node
      /\ \A u \in Task : m.task[u] = IF u = t THEN "cancelled" ELSE s.task[u]
  BY SetTasksFacts DEF TaskStatus
<1>2. CancelNode(s, t) = SetNodes(m, S, "SKIPPED")
  BY DEF CancelNode
<1>3. \A n \in Node : n \in S <=> /\ n = t[1] /\ Linked(s, t)
                                  /\ s.node[n].st \in {"PENDING", "READY", "ENQUEUED"}
  OBVIOUS
<1>4. "SKIPPED" \in NodeStatus
  BY DEF NodeStatus
<1> HIDE DEF m, S
<1>5. QED
  BY <1>1, <1>2, <1>3, <1>4, SetNodesFacts

LEMMA StopWorkflowFacts ==
    ASSUME NEW s \in Db, NEW wf \in WorkflowDone
    PROVE  LET r == StopWorkflow(s, wf)
               Moved(t) == /\ s.task[t] \in Live /\ Linked(s, t)
                           /\ s.node[t[1]].st = "ENQUEUED"
           IN  /\ r \in Db /\ r.wf = wf
               /\ \A n \in Node :
                    /\ r.node[n].gen = s.node[n].gen
                    /\ r.node[n].st = IF \/ s.node[n].st \in {"PENDING", "READY"}
                                         \/ /\ s.node[n].st = "ENQUEUED"
                                            /\ <<n, s.node[n].gen>> \in Task
                                            /\ Moved(<<n, s.node[n].gen>>)
                                      THEN "SKIPPED" ELSE s.node[n].st
               /\ \A t \in Task : r.task[t] = IF Moved(t) THEN "cancelled" ELSE s.task[t]
<1> DEFINE moved == {t \in LiveTasks(s) : Linked(s, t) /\ s.node[t[1]].st = "ENQUEUED"}
           ended == {n \in Node : \/ s.node[n].st \in {"PENDING", "READY"}
                                  \/ s.node[n].st = "ENQUEUED" /\ <<n, s.node[n].gen>> \in moved}
           m == SetTasks(s, moved, "cancelled")
           k == SetNodes(m, ended, "SKIPPED")
<1>1. \A t \in Task : t \in moved <=> /\ s.task[t] \in Live /\ Linked(s, t)
                                      /\ s.node[t[1]].st = "ENQUEUED"
  BY DEF LiveTasks
<1>2. moved \subseteq Task
  BY DEF LiveTasks
<1>3. \A n \in Node :
        n \in ended <=>
          (\/ s.node[n].st \in {"PENDING", "READY"}
           \/ s.node[n].st = "ENQUEUED" /\ <<n, s.node[n].gen>> \in moved)
  OBVIOUS
<1>4. StopWorkflow(s, wf) = [k EXCEPT !.wf = wf]
  BY DEF StopWorkflow
<1> HIDE DEF moved, ended
<1>5. /\ m \in Db /\ m.node = s.node
      /\ \A t \in Task : m.task[t] = IF t \in moved THEN "cancelled" ELSE s.task[t]
  BY SetTasksFacts DEF TaskStatus
<1>6. "SKIPPED" \in NodeStatus
  BY DEF NodeStatus
<1> HIDE DEF m
<1>7. /\ k \in Db /\ k.task = m.task
      /\ \A n \in Node : /\ k.node[n].st = IF n \in ended THEN "SKIPPED" ELSE m.node[n].st
                         /\ k.node[n].gen = m.node[n].gen
  BY <1>5, <1>6, SetNodesFacts
<1> HIDE DEF k
<1> DEFINE r == [k EXCEPT !.wf = wf]
<1>8. r \in Db /\ r.wf = wf /\ r.node = k.node /\ r.task = k.task
  BY <1>7, WfFacts
<1> HIDE DEF r
<1>9. r = StopWorkflow(s, wf)
  BY <1>4 DEF r
<1>10. QED
  BY <1>1, <1>2, <1>3, <1>5, <1>7, <1>8, <1>9

LEMMA CompleteFacts ==
    ASSUME NEW s \in Db
    PROVE  LET r == Complete(s) IN
           /\ r \in Db /\ r.node = s.node /\ r.task = s.task
           /\ r.wf # s.wf => s.wf = "RUNNING" /\ r.wf \in {"COMPLETED", "FAILED"}
<1> DEFINE wf == IF \E n \in Node : s.node[n].st = "FAILED" THEN "FAILED" ELSE "COMPLETED"
           r == [s EXCEPT !.wf = wf]
<1>1. wf \in {"COMPLETED", "FAILED"}
  OBVIOUS
<1>2. Complete(s) # s => s.wf = "RUNNING" /\ Complete(s) = r
  BY DEF Complete
<1> HIDE DEF wf
<1>3. r \in Db /\ r.wf = wf /\ r.node = s.node /\ r.task = s.task
  BY <1>1, WfFacts DEF WorkflowDone
<1> HIDE DEF r
<1>4. QED
  BY <1>1, <1>2, <1>3

-----------------------------------------------------------------------------
(* Sound rows.                                                             *)

Out == {"ENQUEUED", "RUNNING"}
Shown == {"COMPLETED", "FAILED"}

\* A task that lives or ended is the one its node links; a linked task was made and
\* not abandoned; only a stop cancels.
TaskSound(s, t) ==
    /\ s.task[t] \in Live => Linked(s, t) /\ s.node[t[1]].st \in Out
    /\ s.task[t] \in Shown => Linked(s, t) /\ s.node[t[1]].st \in Out \cup {s.task[t]}
    /\ Linked(s, t) => s.task[t] \notin {"unused", "abandoned"}
    /\ s.task[t] = "cancelled" => s.wf \in Stopped

\* A node links a task exactly when it was sent out, shows the outcome of that task,
\* and while the workflow may go on has a task or a result to wait for.
NodeSound(s, results, n) ==
    LET t == <<n, s.node[n].gen>> IN
    /\ s.node[n].st \in {"PENDING", "READY"} => s.node[n].gen = 0
    /\ s.node[n].st \in Out => s.node[n].gen # 0
    /\ s.node[n].st \in Shown => s.node[n].gen # 0 /\ s.task[t] = s.node[n].st /\ t \notin results
    /\ s.wf \in {"RUNNING", "PAUSED"} /\ s.node[n].st \in Out => s.task[t] \in Live \/ t \in results

RowsSound(s, results) ==
    /\ s \in Db
    /\ results \subseteq Task
    /\ \A t \in Task : TaskSound(s, t)
    /\ \A n \in Node : NodeSound(s, results, n)
    /\ \A t \in results : s.task[t] \in Shown

LEMMA TaskParts ==
    /\ \A t \in Task : t[1] \in Node /\ t[2] \in Generation /\ t = <<t[1], t[2]>> /\ t[2] # 0
    /\ \A n \in Node, g \in Generation : <<n, g>> \in Task /\ <<n, g>>[1] = n /\ <<n, g>>[2] = g
    /\ \A s \in Db : \A n \in Node : s.node[n].gen # 0 => s.node[n].gen \in Generation
BY GenerationsTyped DEF Task, Generation, Db

\* A live task stays live: claimed, started, requeued or retried.
LEMMA LiveSound ==
    ASSUME NEW s, NEW results, RowsSound(s, results), NEW t \in Task,
           s.task[t] \in Live, NEW st \in Live
    PROVE  RowsSound(SetTasks(s, {t}, st), results)
<1> DEFINE r == SetTasks(s, {t}, st)
<1>1. /\ r \in Db /\ r.wf = s.wf /\ r.node = s.node
      /\ \A u \in Task : r.task[u] = IF u = t THEN st ELSE s.task[u]
  BY SetTasksFacts DEF TaskStatus, RowsSound
<1> HIDE DEF r
<1>2. ASSUME NEW u \in Task PROVE TaskSound(r, u)
  BY <1>1 DEF RowsSound, TaskSound, Linked, Live, Shown
<1>3. ASSUME NEW n \in Node PROVE NodeSound(r, results, n)
  <2>1. s.node[n].gen # 0 => <<n, s.node[n].gen>> \in Task
    BY TaskParts DEF RowsSound
  <2>2. NodeSound(s, results, n)
    BY DEF RowsSound
  <2>3. QED
    BY <1>1, <2>1, <2>2 DEF NodeSound, Live, Shown
<1>4. \A u \in results : r.task[u] \in Shown
  BY <1>1 DEF RowsSound, Live, Shown
<1>5. QED
  BY <1>1, <1>2, <1>3, <1>4 DEF RowsSound, r

\* A live task ends and leaves its result.
LEMMA SettleSound ==
    ASSUME NEW s, NEW results, RowsSound(s, results), NEW t \in Task,
           s.task[t] \in Live, NEW st \in Shown
    PROVE  RowsSound(SetTasks(s, {t}, st), results \cup {t})
<1> DEFINE r == SetTasks(s, {t}, st)
<1>1. /\ r \in Db /\ r.wf = s.wf /\ r.node = s.node
      /\ \A u \in Task : r.task[u] = IF u = t THEN st ELSE s.task[u]
  BY SetTasksFacts DEF TaskStatus, RowsSound, Shown
<1> HIDE DEF r
<1>2. ASSUME NEW u \in Task PROVE TaskSound(r, u)
  BY <1>1 DEF RowsSound, TaskSound, Linked, Live, Shown
<1>3. ASSUME NEW n \in Node PROVE NodeSound(r, results \cup {t}, n)
  <2>1. s.node[n].gen # 0 => <<n, s.node[n].gen>> \in Task
    BY TaskParts DEF RowsSound
  <2>2. NodeSound(s, results, n)
    BY DEF RowsSound
  <2>3. QED
    BY <1>1, <2>1, <2>2 DEF NodeSound, Live, Shown
<1>4. \A u \in results \cup {t} : r.task[u] \in Shown
  BY <1>1 DEF RowsSound, Live, Shown
<1>5. QED
  BY <1>1, <1>2, <1>3, <1>4 DEF RowsSound, r

\* A claimed row is abandoned and its node made ready; a row abandoned before links
\* nothing any more.
LEMMA AbandonSound ==
    ASSUME NEW s, NEW results, RowsSound(s, results), NEW T \in SUBSET Task,
           \A t \in T : s.task[t] \in {"CLAIMED", "abandoned"}
    PROVE  RowsSound(Abandon(s, T), results)
<1> DEFINE r == Abandon(s, T)
<1>1. /\ r \in Db /\ r.wf = s.wf
      /\ \A n \in Node : r.node[n] = IF <<n, s.node[n].gen>> \in T
                                     THEN [st |-> "READY", gen |-> 0] ELSE s.node[n]
      /\ \A t \in Task : r.task[t] = IF t \in T THEN "abandoned" ELSE s.task[t]
  BY AbandonFacts DEF RowsSound
<1> HIDE DEF r
<1>2. ASSUME NEW u \in Task PROVE TaskSound(r, u)
  <2>1. TaskSound(s, u)
    BY DEF RowsSound
  <2>2. u[1] \in Node /\ u = <<u[1], u[2]>> /\ u[2] # 0
    BY TaskParts
  <2>3. /\ r.node[u[1]].gen \in {0, s.node[u[1]].gen}
        /\ s.node[u[1]].gen = u[2] /\ u \in T => r.node[u[1]].gen = 0
    <3>1. r.node[u[1]] = IF <<u[1], s.node[u[1]].gen>> \in T
                         THEN [st |-> "READY", gen |-> 0] ELSE s.node[u[1]]
      BY <1>1, <2>2
    <3>2. s.node[u[1]].gen = u[2] => <<u[1], s.node[u[1]].gen>> = u
      BY <2>2
    <3>3. QED
      BY <3>1, <3>2
  <2>4. CASE u \in T
    <3>1. ~Linked(r, u)
      BY <2>2, <2>4, <2>3 DEF Linked
    <3>2. QED
      BY <1>1, <2>4, <3>1 DEF TaskSound, Live, Shown
  <2>5. CASE u \notin T
    <3>1. r.task[u] = s.task[u] /\ r.wf = s.wf
      BY <1>1, <2>5
    <3>2. Linked(s, u) => r.node[u[1]] = s.node[u[1]]
      BY <1>1, <2>2, <2>5 DEF Linked
    <3>3. Linked(r, u) => Linked(s, u)
      BY <2>2, <2>3 DEF Linked
    <3>4. QED
      BY <2>1, <3>1, <3>2, <3>3 DEF TaskSound, Linked
  <2>6. QED
    BY <2>4, <2>5
<1>3. ASSUME NEW n \in Node PROVE NodeSound(r, results, n)
  <2>1. s.node[n].gen # 0 => <<n, s.node[n].gen>> \in Task
    BY TaskParts DEF RowsSound
  <2>2. NodeSound(s, results, n)
    BY DEF RowsSound
  <2>3. QED
    BY <1>1, <2>1, <2>2 DEF NodeSound, Live, Shown, Out
<1>4. \A u \in results : r.task[u] \in Shown
  BY <1>1 DEF RowsSound, Shown
<1>5. QED
  BY <1>1, <1>2, <1>3, <1>4 DEF RowsSound, r

\* A workflow that was not stopped changes its status.
LEMMA WfSound ==
    ASSUME NEW s, NEW results, RowsSound(s, results), s.wf \in {"RUNNING", "PAUSED"},
           NEW r \in Db, r.node = s.node, r.task = s.task
    PROVE  RowsSound(r, results)
<1>1. ASSUME NEW u \in Task PROVE TaskSound(r, u)
  BY DEF RowsSound, TaskSound, Linked, Stopped
<1>2. ASSUME NEW n \in Node PROVE NodeSound(r, results, n)
  BY DEF RowsSound, NodeSound
<1>3. QED
  BY <1>1, <1>2 DEF RowsSound

\* The handoff of a linked task: its node runs.
LEMMA HandoffSound ==
    ASSUME NEW s, NEW results, RowsSound(s, results), NEW t \in Task, Runnable(s, t)
    PROVE  RowsSound(SetNodes(s, {t[1]}, "RUNNING"), results)
<1> DEFINE r == SetNodes(s, {t[1]}, "RUNNING")
<1>1. /\ r \in Db /\ r.wf = s.wf /\ r.task = s.task
      /\ \A n \in Node : /\ r.node[n].st = IF n = t[1] THEN "RUNNING" ELSE s.node[n].st
                         /\ r.node[n].gen = s.node[n].gen
  BY SetNodesFacts DEF NodeStatus, RowsSound
<1> HIDE DEF r
<1>2. s.node[t[1]].gen = t[2] /\ t[2] # 0 /\ s.node[t[1]].st \in Out /\ t[1] \in Node
  BY TaskParts DEF Runnable, RowsSound, NodeSound, Linked, Out
<1>3. ASSUME NEW u \in Task PROVE TaskSound(r, u)
  <2>1. TaskSound(s, u) /\ u[1] \in Node
    BY TaskParts DEF RowsSound
  <2>2. QED
    BY <1>1, <1>2, <2>1 DEF TaskSound, Linked, Out
<1>4. ASSUME NEW n \in Node PROVE NodeSound(r, results, n)
  <2>1. NodeSound(s, results, n)
    BY DEF RowsSound
  <2>2. QED
    BY <1>1, <1>2, <2>1 DEF NodeSound, Out, Shown
<1>5. QED
  BY <1>1, <1>3, <1>4 DEF RowsSound, r

\* PENDING nodes are skipped, or one is made ready.
LEMMA SkipSound ==
    ASSUME NEW s, NEW results, RowsSound(s, results), NEW S \in SUBSET Node,
           \A n \in S : s.node[n].st = "PENDING", NEW st \in {"SKIPPED", "READY"}
    PROVE  RowsSound(SetNodes(s, S, st), results)
<1> DEFINE r == SetNodes(s, S, st)
<1>1. /\ r \in Db /\ r.wf = s.wf /\ r.task = s.task
      /\ \A n \in Node : /\ r.node[n].st = IF n \in S THEN st ELSE s.node[n].st
                         /\ r.node[n].gen = s.node[n].gen
  BY SetNodesFacts DEF NodeStatus, RowsSound
<1> HIDE DEF r
<1>2. ASSUME NEW u \in Task PROVE TaskSound(r, u)
  <2>1. TaskSound(s, u) /\ u[1] \in Node /\ u[2] # 0 /\ NodeSound(s, results, u[1])
    BY TaskParts DEF RowsSound
  <2>2. QED
    BY <1>1, <2>1 DEF TaskSound, NodeSound, Linked, Out
<1>3. ASSUME NEW n \in Node PROVE NodeSound(r, results, n)
  <2>1. NodeSound(s, results, n)
    BY DEF RowsSound
  <2>2. QED
    BY <1>1, <2>1 DEF NodeSound, Out, Shown
<1>4. QED
  BY <1>1, <1>2, <1>3 DEF RowsSound, r

\* A result is applied to its node and leaves the outbox.
LEMMA OutcomeSound ==
    ASSUME NEW s, NEW results, RowsSound(s, results), NEW t \in results,
           s.node[t[1]].st \notin NodeDone
    PROVE  RowsSound(SetNodes(s, {t[1]}, s.task[t]), results \ {t})
<1> DEFINE r == SetNodes(s, {t[1]}, s.task[t])
<1>1. /\ t \in Task /\ s.task[t] \in Shown /\ TaskSound(s, t) /\ t = <<t[1], t[2]>>
      /\ t[1] \in Node /\ t[2] # 0
  BY TaskParts DEF RowsSound
<1>2. s.node[t[1]].gen = t[2]
  BY <1>1 DEF TaskSound, Linked
<1>3. /\ r \in Db /\ r.wf = s.wf /\ r.task = s.task
      /\ \A n \in Node : /\ r.node[n].st = IF n = t[1] THEN s.task[t] ELSE s.node[n].st
                         /\ r.node[n].gen = s.node[n].gen
  BY <1>1, SetNodesFacts DEF NodeStatus, Shown, RowsSound
<1> HIDE DEF r
<1>4. ASSUME NEW u \in Task PROVE TaskSound(r, u)
  <2>1. TaskSound(s, u) /\ u[1] \in Node /\ u = <<u[1], u[2]>>
    BY TaskParts DEF RowsSound
  <2>2. CASE u[1] = t[1]
    <3>1. Linked(s, u) => u = t
      BY <1>1, <1>2, <2>1, <2>2 DEF Linked
    <3>2. QED
      BY <1>1, <1>3, <2>1, <3>1 DEF TaskSound, Linked, Live, Shown
  <2>3. CASE u[1] # t[1]
    BY <1>3, <2>1, <2>3 DEF TaskSound, Linked
  <2>4. QED
    BY <2>2, <2>3
<1>5. ASSUME NEW n \in Node PROVE NodeSound(r, results \ {t}, n)
  <2>1. NodeSound(s, results, n)
    BY DEF RowsSound
  <2>2. CASE n = t[1]
    BY <1>1, <1>2, <1>3, <2>2 DEF NodeSound, Out, Shown
  <2>3. CASE n # t[1]
    <3>1. <<n, s.node[n].gen>> # t
      BY <1>1, <2>3
    <3>2. QED
      BY <1>3, <2>1, <2>3, <3>1 DEF NodeSound
  <2>4. QED
    BY <2>2, <2>3
<1>6. QED
  BY <1>3, <1>4, <1>5 DEF RowsSound, r

\* A result that comes too late is dropped.
LEMMA DropSound ==
    ASSUME NEW s, NEW results, RowsSound(s, results), NEW t \in results,
           s.wf \in WorkflowDone \/ s.node[t[1]].st \in NodeDone
    PROVE  RowsSound(s, results \ {t})
<1>1. t \in Task /\ t = <<t[1], t[2]>>
  BY TaskParts DEF RowsSound
<1>2. ASSUME NEW n \in Node PROVE NodeSound(s, results \ {t}, n)
  <2>1. NodeSound(s, results, n)
    BY DEF RowsSound
  <2>2. <<n, s.node[n].gen>> = t => n = t[1]
    BY <1>1
  <2>3. QED
    BY <1>1, <2>1, <2>2 DEF NodeSound, Out, Shown, NodeDone, WorkflowDone
<1>3. QED
  BY <1>2 DEF RowsSound

\* A task of a cancelled workflow is cancelled on its way to execution.
LEMMA CancelSound ==
    ASSUME NEW s, NEW results, RowsSound(s, results), s.wf = "CANCELLED",
           NEW t \in Task, s.task[t] \in Live \cup {"cancelled"}
    PROVE  RowsSound(CancelNode(s, t), results)
<1> DEFINE r == CancelNode(s, t)
           Skips(n) == /\ n = t[1] /\ Linked(s, t)
                       /\ s.node[n].st \in {"PENDING", "READY", "ENQUEUED"}
<1>1. /\ r \in Db /\ r.wf = s.wf
      /\ \A n \in Node : /\ r.node[n].gen = s.node[n].gen
                         /\ r.node[n].st = IF Skips(n) THEN "SKIPPED" ELSE s.node[n].st
      /\ \A u \in Task : r.task[u] = IF u = t THEN "cancelled" ELSE s.task[u]
  BY CancelNodeFacts DEF RowsSound
<1>2. \A n \in Node : Skips(n) => <<n, s.node[n].gen>> = t
  BY TaskParts DEF Linked
<1> HIDE DEF r, Skips
<1>3. ASSUME NEW u \in Task PROVE TaskSound(r, u)
  <2>1. TaskSound(s, u) /\ u[1] \in Node /\ u = <<u[1], u[2]>>
    BY TaskParts DEF RowsSound
  <2>2. Linked(r, u) <=> Linked(s, u)
    BY <1>1, <2>1 DEF Linked
  <2>3. CASE u = t
    BY <1>1, <2>1, <2>3 DEF TaskSound, Live, Shown, Stopped
  <2>4. CASE u # t
    <3>1. Linked(s, u) => r.node[u[1]].st = s.node[u[1]].st
      BY <1>1, <1>2, <2>1, <2>4 DEF Linked
    <3>2. QED
      BY <1>1, <2>1, <2>2, <2>4, <3>1 DEF TaskSound
  <2>5. QED
    BY <2>3, <2>4
<1>4. ASSUME NEW n \in Node PROVE NodeSound(r, results, n)
  <2>1. NodeSound(s, results, n)
    BY DEF RowsSound
  <2>2. s.node[n].gen # 0 => <<n, s.node[n].gen>> \in Task
    BY TaskParts DEF RowsSound
  <2>3. QED
    BY <1>1, <2>1, <2>2 DEF NodeSound, Out, Shown, Live
<1>5. \A u \in results : r.task[u] \in Shown
  BY <1>1 DEF RowsSound, Shown, Live
<1>6. QED
  BY <1>1, <1>3, <1>4, <1>5 DEF RowsSound, r

\* A cancel or an expiry stops the workflow.
LEMMA StopSound ==
    ASSUME NEW s, NEW results, RowsSound(s, results), s.wf \in {"RUNNING", "PAUSED"},
           NEW wf \in Stopped
    PROVE  RowsSound(StopWorkflow(s, wf), results)
<1> DEFINE r == StopWorkflow(s, wf)
           Moved(t) == /\ s.task[t] \in Live /\ Linked(s, t)
                       /\ s.node[t[1]].st = "ENQUEUED"
<1>1. /\ r \in Db /\ r.wf = wf
      /\ \A n \in Node :
           /\ r.node[n].gen = s.node[n].gen
           /\ r.node[n].st \in {s.node[n].st, "SKIPPED"}
           /\ r.node[n].st = "SKIPPED" /\ s.node[n].st # "SKIPPED"
              => \/ s.node[n].st \in {"PENDING", "READY"}
                 \/ /\ s.node[n].st = "ENQUEUED"
                    /\ <<n, s.node[n].gen>> \in Task /\ Moved(<<n, s.node[n].gen>>)
      /\ \A t \in Task : r.task[t] = IF Moved(t) THEN "cancelled" ELSE s.task[t]
  BY StopWorkflowFacts DEF RowsSound, Stopped, WorkflowDone
<1>2. \A t \in Task : Moved(t) => s.task[t] \in Live
  OBVIOUS
<1> HIDE DEF r, Moved
<1>3. ASSUME NEW u \in Task PROVE TaskSound(r, u)
  <2>1. /\ TaskSound(s, u) /\ u[1] \in Node /\ u = <<u[1], u[2]>> /\ u[2] # 0
        /\ NodeSound(s, results, u[1])
    BY TaskParts DEF RowsSound
  <2>2. Linked(r, u) <=> Linked(s, u)
    BY <1>1, <2>1 DEF Linked
  <2>3. CASE Moved(u)
    BY <1>1, <2>1, <2>3 DEF TaskSound, Live, Shown
  <2>4. CASE ~Moved(u)
    <3>1. Linked(s, u) => <<u[1], s.node[u[1]].gen>> = u
      BY <2>1 DEF Linked
    <3>2. Linked(s, u) /\ s.node[u[1]].st \in Out => r.node[u[1]].st = s.node[u[1]].st
      BY <1>1, <2>1, <2>4, <3>1 DEF Out
    <3>3. s.node[u[1]].st \in Shown => r.node[u[1]].st = s.node[u[1]].st
      BY <1>1, <2>1 DEF Shown
    <3>4. s.task[u] = "cancelled" => s.wf \in Stopped
      BY <2>1 DEF TaskSound
    <3>5. r.task[u] = s.task[u] /\ r.wf \in Stopped
      BY <1>1, <2>4
    <3>6. QED
      BY <2>1, <2>2, <3>2, <3>3, <3>5 DEF TaskSound
  <2>5. QED
    BY <2>3, <2>4
<1>4. ASSUME NEW n \in Node PROVE NodeSound(r, results, n)
  <2>1. NodeSound(s, results, n)
    BY DEF RowsSound
  <2>2. s.node[n].gen # 0 => <<n, s.node[n].gen>> \in Task
    BY TaskParts DEF RowsSound
  <2>3. QED
    BY <1>1, <1>2, <2>1, <2>2 DEF NodeSound, Out, Shown, Live, Stopped
<1>5. \A u \in results : r.task[u] \in Shown
  BY <1>1, <1>2 DEF RowsSound, Shown, Live
<1>6. QED
  BY <1>1, <1>3, <1>4, <1>5 DEF RowsSound, r

\* Nodes without a link get a task nobody has seen.
LEMMA EnqueueSound ==
    ASSUME NEW s, NEW results, RowsSound(s, results), NEW S \in SUBSET Node, Spare(s, S),
           \A n \in S : s.node[n].st \in {"PENDING", "READY"}
    PROVE  RowsSound(Enqueue(s, S), results)
<1> DEFINE r == Enqueue(s, S)
           New(t) == t[1] \in S /\ t[2] = Fresh(s, t[1])
<1>1. /\ r \in Db /\ r.wf = s.wf
      /\ \A n \in Node : r.node[n] = IF n \in S THEN [st |-> "ENQUEUED", gen |-> Fresh(s, n)]
                                     ELSE s.node[n]
      /\ \A t \in Task : r.task[t] = IF New(t) THEN "PENDING" ELSE s.task[t]
  BY EnqueueFacts DEF RowsSound
<1>2. \A n \in S : Fresh(s, n) \in Generation /\ s.task[<<n, Fresh(s, n)>>] = "unused"
  BY FreshUnused DEF Spare
<1> HIDE DEF r, New
<1>3. ASSUME NEW n \in S
      PROVE  r.node[n].st = "ENQUEUED" /\ r.node[n].gen = Fresh(s, n)
  <2>1. r.node[n] = [st |-> "ENQUEUED", gen |-> Fresh(s, n)]
    BY <1>1
  <2>2. QED
    BY <2>1
<1>4. \A n \in Node \ S : r.node[n] = s.node[n]
  BY <1>1
<1>5. \A t \in Task : New(t) => s.task[t] = "unused"
  BY <1>2, TaskParts DEF New
<1>6. \A t \in Task : New(t) <=> t[1] \in S /\ t[2] = Fresh(s, t[1])
  BY DEF New
<1>7. ASSUME NEW u \in Task PROVE TaskSound(r, u)
  <2>1. /\ TaskSound(s, u) /\ u[1] \in Node /\ u = <<u[1], u[2]>> /\ u[2] # 0
        /\ NodeSound(s, results, u[1])
    BY TaskParts DEF RowsSound
  <2>2. CASE u[1] \in S
    <3>1. ~Linked(s, u)
      BY <2>1, <2>2 DEF NodeSound, Linked
    <3>2. s.task[u] \notin Live \cup Shown
      BY <2>1, <3>1 DEF TaskSound
    <3>3. Linked(r, u) <=> New(u)
      BY <1>3, <1>6, <2>2 DEF Linked
    <3>4. QED
      BY <1>1, <1>3, <2>1, <2>2, <3>2, <3>3 DEF TaskSound, Live, Shown, Out
  <2>3. CASE u[1] \notin S
    BY <1>1, <1>4, <1>6, <2>1, <2>3 DEF TaskSound, Linked
  <2>4. QED
    BY <2>2, <2>3
<1>8. ASSUME NEW n \in Node PROVE NodeSound(r, results, n)
  <2>1. NodeSound(s, results, n)
    BY DEF RowsSound
  <2>2. s.node[n].gen # 0 => <<n, s.node[n].gen>> \in Task /\ <<n, s.node[n].gen>>[1] = n
    BY TaskParts DEF RowsSound
  <2>3. CASE n \in S
    <3>1. /\ <<n, Fresh(s, n)>> \in Task /\ Fresh(s, n) # 0
          /\ <<n, Fresh(s, n)>>[1] = n /\ <<n, Fresh(s, n)>>[2] = Fresh(s, n)
      BY <1>2, <2>3, TaskParts
    <3>2. New(<<n, Fresh(s, n)>>)
      BY <1>6, <2>3, <3>1
    <3>3. QED
      BY <1>1, <1>3, <2>3, <3>1, <3>2 DEF NodeSound, Out, Shown, Live
  <2>4. CASE n \notin S
    <3>1. s.node[n].gen # 0 => ~New(<<n, s.node[n].gen>>)
      BY <1>6, <2>2, <2>4
    <3>2. QED
      BY <1>1, <1>4, <2>1, <2>2, <2>4, <3>1 DEF NodeSound, Out, Shown
  <2>5. QED
    BY <2>3, <2>4
<1>9. \A u \in results : r.task[u] \in Shown
  BY <1>1, <1>5 DEF RowsSound, Shown
<1>10. QED
  BY <1>1, <1>7, <1>8, <1>9 DEF RowsSound, r

-----------------------------------------------------------------------------
(* Joins: what a verdict says of the ways the dependencies can turn out.   *)

Statuses == [Node -> NodeStatus]

LEMMA NodesTyped ==
    /\ IsFiniteSet(Node)
    /\ \A n \in Node : Deps[n] \subseteq Node /\ IsFiniteSet(Deps[n])
    /\ \A n \in Node : Join[n] \in {"all", "any", "quorum"} /\ MinSuccess[n] \in Nat
    /\ \A n \in Node : Context[n] \subseteq Deps[n]
<1>1. /\ IsFiniteSet(Node)
      /\ \A n \in Node : Deps[n] \subseteq Node
      /\ \A n \in Node : Join[n] \in {"all", "any", "quorum"} /\ MinSuccess[n] \in Nat
      /\ \A n \in Node : Context[n] \subseteq Deps[n]
  BY NodesAssumption
<1>2. QED
  BY <1>1, FS_Subset

LEMMA StatusTyped ==
    ASSUME NEW s \in Db
    PROVE  Status(s) \in Statuses /\ \A n \in Node : Status(s)[n] = s.node[n].st
BY DEF Status, Statuses, Db

LEMMA DepsCounted ==
    ASSUME NEW n \in Node, NEW S, S \subseteq Deps[n]
    PROVE  IsFiniteSet(S) /\ Cardinality(S) \in Nat
BY NodesTyped, FS_Subset, FS_CardinalityType

\* A join that is met stays met however the open dependencies turn out.
LEMMA CanRunMet ==
    ASSUME NEW st \in Statuses, NEW n \in Node, CanRun(st, n),
           NEW f \in Futures(st, n)
    PROVE  Met(f, n)
<1> DEFINE won == {m \in Deps[n] : f[m] = "COMPLETED"}
<1>1. Succeeded(st, n) \subseteq won /\ won \subseteq Deps[n]
  BY DEF Succeeded, Futures, NodeDone
<1>2. Open(st, n) = {} => won = Succeeded(st, n)
  BY DEF Succeeded, Futures, NodeDone, Open
<1>3. /\ Cardinality(Succeeded(st, n)) <= Cardinality(won)
      /\ Cardinality(won) \in Nat /\ Cardinality(Succeeded(st, n)) \in Nat
  BY <1>1, DepsCounted, FS_Subset
<1>4. Met(f, n) <=> \/ Join[n] = "all" /\ (n \in AllowFailed \/ won = Deps[n])
                    \/ Join[n] = "any" /\ won # {}
                    \/ Join[n] = "quorum" /\ Cardinality(won) >= MinSuccess[n]
  BY DEF Met
<1> HIDE DEF won
<1>5. JoinMet(st, n)
  BY DEF CanRun
<1>6. QED
  BY <1>1, <1>2, <1>3, <1>4, <1>5, NodesTyped DEF JoinMet

\* All that a node waits for has ended.
LEMMA CanRunAwaited ==
    ASSUME NEW st, NEW n \in Node, CanRun(st, n)
    PROVE  Awaited(n) \cap Open(st, n) = {}
BY NodesTyped DEF CanRun, JoinMet, Awaited

\* A join that is lost stays lost however the open dependencies turn out.
LEMMA CannotRunLost ==
    ASSUME NEW st \in Statuses, NEW n \in Node, CannotRun(st, n),
           NEW f \in Futures(st, n)
    PROVE  ~Met(f, n)
<1> DEFINE won == {m \in Deps[n] : f[m] = "COMPLETED"}
           ok == Succeeded(st, n)
           open == Open(st, n)
<1>1. won \subseteq ok \cup open /\ ok \subseteq Deps[n] /\ open \subseteq Deps[n]
  BY DEF Succeeded, Futures, NodeDone, Open
<1>2. open = {} => won = ok
  BY DEF Succeeded, Futures, NodeDone, Open
<1>3. Met(f, n) <=> \/ Join[n] = "all" /\ (n \in AllowFailed \/ won = Deps[n])
                    \/ Join[n] = "any" /\ won # {}
                    \/ Join[n] = "quorum" /\ Cardinality(won) >= MinSuccess[n]
  BY DEF Met
<1>4. \/ Join[n] = "all" /\ open = {} /\ n \notin AllowFailed /\ ok # Deps[n]
      \/ Join[n] = "any" /\ open = {} /\ ok = {}
      \/ Join[n] = "quorum" /\ Cardinality(ok) + Cardinality(open) < MinSuccess[n]
  BY DEF CannotRun
<1> HIDE DEF won, ok, open
<1>5. IsFiniteSet(ok) /\ IsFiniteSet(open) /\ Cardinality(ok) \in Nat /\ Cardinality(open) \in Nat
  BY <1>1, DepsCounted
<1>6. /\ IsFiniteSet(ok \cup open)
      /\ Cardinality(ok \cup open) = Cardinality(ok) + Cardinality(open) - Cardinality(ok \cap open)
  BY <1>5, FS_Union
<1>7. Cardinality(ok \cap open) \in Nat
  BY <1>1, DepsCounted
<1>8. Cardinality(won) \in Nat /\ Cardinality(won) <= Cardinality(ok \cup open)
  BY <1>1, <1>6, FS_Subset, FS_CardinalityType
<1>9. Cardinality(won) <= Cardinality(ok) + Cardinality(open)
  BY <1>5, <1>6, <1>7, <1>8
<1>10. QED
  BY <1>2, <1>3, <1>4, <1>5, <1>8, <1>9, NodesTyped

\* What has ended stays: fewer ways are left, and fewer dependencies are open.
LEMMA FuturesShrink ==
    ASSUME NEW st, NEW st2, NEW n \in Node,
           \A m \in Node : st[m] \in NodeDone => st2[m] = st[m]
    PROVE  /\ Futures(st2, n) \subseteq Futures(st, n)
           /\ Open(st2, n) \subseteq Open(st, n)
BY NodesTyped DEF Futures, Open

\* A verdict looks at what ended only.
LEMMA VerdictSame ==
    ASSUME NEW st, NEW st2, NEW n \in Node,
           \A m \in Node : st2[m] = st[m] \/ {st[m], st2[m]} \cap NodeDone = {}
    PROVE  (CanRun(st2, n) <=> CanRun(st, n)) /\ (CannotRun(st2, n) <=> CannotRun(st, n))
<1>1. Succeeded(st2, n) = Succeeded(st, n)
  BY NodesTyped DEF Succeeded, NodeDone
<1>2. Open(st2, n) = Open(st, n)
  BY NodesTyped DEF Open
<1>3. QED
  BY <1>1, <1>2 DEF CanRun, JoinMet, CannotRun

\* Skipping more nodes revokes no verdict that a node cannot run.
LEMMA CannotRunMonotone ==
    ASSUME NEW st \in Statuses, NEW n \in Node,
           NEW X \in SUBSET Node, NEW Y \in SUBSET Node, X \subseteq Y,
           \A m \in Y : st[m] = "PENDING",
           CannotRun(Skipped(st, X), n)
    PROVE  CannotRun(Skipped(st, Y), n)
<1> DEFINE a == Skipped(st, X)
           b == Skipped(st, Y)
<1>1. \A m \in Node : /\ a[m] = IF m \in X THEN "SKIPPED" ELSE st[m]
                      /\ b[m] = IF m \in Y THEN "SKIPPED" ELSE st[m]
  BY DEF Skipped
<1> HIDE DEF a, b
<1>2. Succeeded(a, n) = Succeeded(b, n)
  BY <1>1, NodesTyped DEF Succeeded
<1>3. Open(b, n) \subseteq Open(a, n) /\ Open(a, n) \subseteq Deps[n] /\ Succeeded(a, n) \subseteq Deps[n]
  BY <1>1, NodesTyped DEF Open, NodeDone, Succeeded
<1>4. /\ Cardinality(Open(b, n)) <= Cardinality(Open(a, n))
      /\ Cardinality(Open(b, n)) \in Nat /\ Cardinality(Open(a, n)) \in Nat
      /\ Cardinality(Succeeded(a, n)) \in Nat
  BY <1>3, DepsCounted, FS_Subset
<1>5. CannotRun(a, n)
  BY DEF a
<1>6. CannotRun(b, n)
  BY <1>2, <1>3, <1>4, <1>5, NodesTyped DEF CannotRun
<1>7. QED
  BY <1>6 DEF b

\* Phase 2 skips a node only if the nodes it skips together leave it no way to run:
\* the skipped set is a fixed point of one round, not only closed under it.
LEMMA SkippedCannotRun ==
    ASSUME NEW st \in Statuses, NEW source
    PROVE  /\ SkipSet(st, source) \subseteq {n \in Node : st[n] = "PENDING"}
           /\ \A n \in SkipSet(st, source) : CannotRun(Skipped(st, SkipSet(st, source)), n)
           /\ SkipClosed(st, source, SkipSet(st, source))
<1> DEFINE pending == {n \in Node : st[n] = "PENDING"}
           K == SkipSet(st, source)
           Round(S) == {n \in PendingAfter(st, source, S) : CannotRun(Skipped(st, S), n)}
<1>1. /\ K \subseteq pending
      /\ \A n \in pending : n \in K <=> \A S \in SUBSET pending : SkipClosed(st, source, S) => n \in S
  BY DEF SkipSet
<1>2. \A S : SkipClosed(st, source, S) <=> Round(S) \subseteq S
  BY DEF SkipClosed
<1>3. \A S : Round(S) \subseteq pending
  BY DEF PendingAfter
<1>4. pending \subseteq Node /\ \A m \in pending : st[m] = "PENDING"
  OBVIOUS
<1> HIDE DEF K, pending
<1>5. ASSUME NEW X \in SUBSET pending, NEW Y \in SUBSET pending, X \subseteq Y
      PROVE  Round(X) \subseteq Round(Y)
  <2>1. ASSUME NEW n \in Round(X) PROVE n \in Round(Y)
    <3>1. n \in PendingAfter(st, source, X) /\ CannotRun(Skipped(st, X), n)
      OBVIOUS
    <3>2. n \in PendingAfter(st, source, Y) /\ n \in Node
      BY <1>5, <3>1 DEF PendingAfter
    <3>3. CannotRun(Skipped(st, Y), n)
      BY <1>4, <1>5, <3>1, <3>2, CannotRunMonotone
    <3>4. QED
      BY <3>2, <3>3
  <2>2. QED
    BY <2>1
<1> HIDE DEF Round
<1>6. \A S \in SUBSET pending : SkipClosed(st, source, S) => K \subseteq S
  BY <1>1
<1>7. Round(K) \subseteq K
  <2>1. ASSUME NEW S \in SUBSET pending, SkipClosed(st, source, S)
        PROVE  Round(K) \subseteq S
    <3>1. Round(K) \subseteq Round(S)
      BY <1>1, <1>5, <1>6, <2>1
    <3>2. QED
      BY <1>2, <2>1, <3>1
  <2>2. QED
    BY <1>1, <1>3, <2>1
<1>8. K \subseteq Round(K)
  <2>1. Round(K) \in SUBSET pending
    BY <1>3
  <2>2. Round(Round(K)) \subseteq Round(K)
    BY <1>1, <1>5, <1>7, <2>1
  <2>3. QED
    BY <1>2, <1>6, <2>1, <2>2
<1>9. \A n \in K : CannotRun(Skipped(st, K), n)
  BY <1>8 DEF Round
<1>10. SkipClosed(st, source, K)
  BY <1>2, <1>7
<1>11. QED
  BY <1>1, <1>9, <1>10 DEF K, pending

-----------------------------------------------------------------------------
(* Justified starts and skips.                                             *)

Justified(s) == \A n \in Node : StartJustified(s, n) /\ SkipJustified(s, n)

\* A step keeps the joins respected if what ended stays, a stop is final, and
\* every node it starts or skips is one whose verdict holds.
LEMMA JoinStep ==
    ASSUME NEW s \in Db, NEW r \in Db, Justified(s),
           s.wf \in Stopped => r.wf \in Stopped,
           \A n \in Node : s.node[n].st \in NodeDone => r.node[n].st = s.node[n].st,
           \A n \in Node :
               \/ r.node[n].st \in {"PENDING", "SKIPPED"}
               \/ s.node[n].st \notin {"PENDING", "SKIPPED"}
               \/ Deps[n] = {}
               \/ CanRun(Status(r), n),
           \A n \in Node :
               \/ r.node[n].st # "SKIPPED"
               \/ r.wf \in Stopped
               \/ s.node[n].st = "SKIPPED"
               \/ CannotRun(Status(r), n)
    PROVE  Justified(r)
<1> DEFINE ss == Status(s)
           rr == Status(r)
<1>1. /\ ss \in Statuses /\ rr \in Statuses
      /\ \A n \in Node : ss[n] = s.node[n].st /\ rr[n] = r.node[n].st
  BY StatusTyped
<1> HIDE DEF ss, rr
<1>2. \A n \in Node : Futures(rr, n) \subseteq Futures(ss, n) /\ Open(rr, n) \subseteq Open(ss, n)
  BY <1>1, FuturesShrink
<1>3. ASSUME NEW n \in Node PROVE StartJustified(r, n)
  <2>1. CASE CanRun(rr, n)
    <3>1. \A f \in Futures(rr, n) : Met(f, n)
      BY <1>1, <2>1, CanRunMet
    <3>2. Awaited(n) \cap Open(rr, n) = {}
      BY <2>1, CanRunAwaited
    <3>3. QED
      BY <3>1, <3>2 DEF StartJustified, rr
  <2>2. CASE ~CanRun(rr, n)
    <3>1. StartJustified(s, n)
      BY DEF Justified
    <3>2. \/ r.node[n].st \in {"PENDING", "SKIPPED"}
          \/ s.node[n].st \notin {"PENDING", "SKIPPED"}
          \/ Deps[n] = {}
      BY <2>2 DEF rr
    <3>3. QED
      BY <1>2, <3>1, <3>2 DEF StartJustified, rr, ss
  <2>3. QED
    BY <2>1, <2>2
<1>4. ASSUME NEW n \in Node PROVE SkipJustified(r, n)
  <2>1. CASE CannotRun(rr, n)
    <3>1. \A f \in Futures(rr, n) : ~Met(f, n)
      BY <1>1, <2>1, CannotRunLost
    <3>2. QED
      BY <3>1 DEF SkipJustified, rr
  <2>2. CASE ~CannotRun(rr, n)
    <3>1. SkipJustified(s, n)
      BY DEF Justified
    <3>2. r.node[n].st # "SKIPPED" \/ r.wf \in Stopped \/ s.node[n].st = "SKIPPED"
      BY <2>2 DEF rr
    <3>3. QED
      BY <1>2, <3>1, <3>2 DEF SkipJustified, rr, ss
  <2>3. QED
    BY <2>1, <2>2
<1>5. QED
  BY <1>3, <1>4 DEF Justified

\* The steps that decide no join: a node that was started goes on, or a stop skips it.
LEMMA JoinKept ==
    ASSUME NEW s \in Db, NEW r \in Db, Justified(s),
           s.wf \in Stopped => r.wf \in Stopped,
           \A n \in Node :
               \/ r.node[n].st = s.node[n].st
               \/ s.node[n].st \in {"READY"} \cup Out /\ r.node[n].st \in {"READY"} \cup Out \cup Shown
               \/ s.node[n].st \notin NodeDone /\ r.node[n].st = "SKIPPED" /\ r.wf \in Stopped
    PROVE  Justified(r)
<1>1. \A n \in Node : s.node[n].st \in NodeDone => r.node[n].st = s.node[n].st
  BY DEF NodeDone, Out
<1>2. \A n \in Node : \/ r.node[n].st \in {"PENDING", "SKIPPED"}
                      \/ s.node[n].st \notin {"PENDING", "SKIPPED"}
  BY DEF Out
<1>3. \A n \in Node : \/ r.node[n].st # "SKIPPED"
                      \/ r.wf \in Stopped
                      \/ s.node[n].st = "SKIPPED"
  BY DEF Out, Shown
<1>4. QED
  BY <1>1, <1>2, <1>3, JoinStep

-----------------------------------------------------------------------------
(* The transactions: each keeps good rows good and is lawful.              *)

Good(s, results) == RowsSound(s, results) /\ Justified(s)

\* What StoppedAdvancesNothing says of a step from s to r.
Lawful(s, r) ==
    /\ \A t \in Task : s.task[t] = "unused" /\ r.task[t] # "unused" => s.wf = "RUNNING"
    /\ s.wf \in WorkflowDone =>
        /\ r.wf = s.wf
        /\ \A n \in Node : s.node[n].st \notin {"COMPLETED", "FAILED"}
                           => r.node[n].st \notin {"COMPLETED", "FAILED"}

LEMMA LawfulRefl == \A s : Lawful(s, s)
BY DEF Lawful

LEMMA LiveGood ==
    ASSUME NEW s, NEW results, Good(s, results), NEW t \in Task,
           s.task[t] \in Live, NEW st \in Live
    PROVE  Good(SetTasks(s, {t}, st), results) /\ Lawful(s, SetTasks(s, {t}, st))
<1> DEFINE r == SetTasks(s, {t}, st)
<1>1. RowsSound(r, results) /\ s \in Db
  BY LiveSound DEF Good, RowsSound
<1>2. /\ r \in Db /\ r.wf = s.wf /\ r.node = s.node
      /\ \A u \in Task : r.task[u] = IF u = t THEN st ELSE s.task[u]
  BY <1>1, SetTasksFacts DEF TaskStatus
<1> HIDE DEF r
<1>3. Justified(r)
  BY <1>1, <1>2, JoinKept DEF Good
<1>4. Lawful(s, r)
  BY <1>2 DEF Lawful, Live
<1>5. QED
  BY <1>1, <1>3, <1>4 DEF Good, r

LEMMA SettleGood ==
    ASSUME NEW s, NEW results, Good(s, results), NEW t \in Task,
           s.task[t] \in Live, NEW st \in Shown
    PROVE  Good(SetTasks(s, {t}, st), results \cup {t}) /\ Lawful(s, SetTasks(s, {t}, st))
<1> DEFINE r == SetTasks(s, {t}, st)
<1>1. RowsSound(r, results \cup {t}) /\ s \in Db
  BY SettleSound DEF Good, RowsSound
<1>2. /\ r \in Db /\ r.wf = s.wf /\ r.node = s.node
      /\ \A u \in Task : r.task[u] = IF u = t THEN st ELSE s.task[u]
  BY <1>1, SetTasksFacts DEF TaskStatus, Shown
<1> HIDE DEF r
<1>3. Justified(r)
  BY <1>1, <1>2, JoinKept DEF Good
<1>4. Lawful(s, r)
  BY <1>2 DEF Lawful, Live
<1>5. QED
  BY <1>1, <1>3, <1>4 DEF Good, r

LEMMA AbandonGood ==
    ASSUME NEW s, NEW results, Good(s, results), NEW T \in SUBSET Task,
           \A t \in T : s.task[t] \in {"CLAIMED", "abandoned"}
    PROVE  Good(Abandon(s, T), results) /\ Lawful(s, Abandon(s, T))
<1> DEFINE r == Abandon(s, T)
<1>1. RowsSound(r, results) /\ s \in Db
  BY AbandonSound DEF Good, RowsSound
<1>2. /\ r \in Db /\ r.wf = s.wf
      /\ \A n \in Node : r.node[n] = IF <<n, s.node[n].gen>> \in T
                                     THEN [st |-> "READY", gen |-> 0] ELSE s.node[n]
      /\ \A t \in Task : r.task[t] = IF t \in T THEN "abandoned" ELSE s.task[t]
  BY <1>1, AbandonFacts
<1> HIDE DEF r
<1>3. ASSUME NEW n \in Node
      PROVE  \/ r.node[n].st = s.node[n].st
             \/ s.node[n].st \in Out /\ r.node[n].st = "READY"
  <2>1. CASE <<n, s.node[n].gen>> \in T
    <3>1. TaskSound(s, <<n, s.node[n].gen>>) /\ Linked(s, <<n, s.node[n].gen>>)
      BY <2>1 DEF Good, RowsSound, Linked
    <3>2. s.node[n].st \in Out
      BY <2>1, <3>1 DEF TaskSound, Live
    <3>3. QED
      BY <1>2, <2>1, <3>2
  <2>2. CASE <<n, s.node[n].gen>> \notin T
    BY <1>2, <2>2
  <2>3. QED
    BY <2>1, <2>2
<1>4. Justified(r)
  BY <1>1, <1>2, <1>3, JoinKept DEF Good
<1>5. Lawful(s, r)
  BY <1>2, <1>3 DEF Lawful
<1>6. QED
  BY <1>1, <1>4, <1>5 DEF Good, r

LEMMA HandoffGood ==
    ASSUME NEW s, NEW results, Good(s, results), NEW t \in Task, Runnable(s, t)
    PROVE  Good(SetNodes(s, {t[1]}, "RUNNING"), results) /\ Lawful(s, SetNodes(s, {t[1]}, "RUNNING"))
<1> DEFINE r == SetNodes(s, {t[1]}, "RUNNING")
<1>1. RowsSound(r, results) /\ s \in Db /\ t[1] \in Node /\ t[2] # 0 /\ NodeSound(s, results, t[1])
  BY HandoffSound, TaskParts DEF Good, RowsSound
<1>2. /\ r \in Db /\ r.wf = s.wf /\ r.task = s.task
      /\ \A n \in Node : r.node[n].st = IF n = t[1] THEN "RUNNING" ELSE s.node[n].st
  BY <1>1, SetNodesFacts DEF NodeStatus
<1> HIDE DEF r
<1>3. s.node[t[1]].st \in Out
  BY <1>1 DEF Runnable, Linked, NodeSound, Out
<1>4. Justified(r)
  BY <1>1, <1>2, <1>3, JoinKept DEF Good, Out
<1>5. Lawful(s, r)
  BY <1>2 DEF Lawful
<1>6. QED
  BY <1>1, <1>4, <1>5 DEF Good, r

LEMMA CancelGood ==
    ASSUME NEW s, NEW results, Good(s, results), s.wf = "CANCELLED",
           NEW t \in Task, s.task[t] \in Live \cup {"cancelled"}
    PROVE  Good(CancelNode(s, t), results) /\ Lawful(s, CancelNode(s, t))
<1> DEFINE r == CancelNode(s, t)
<1>1. RowsSound(r, results) /\ s \in Db
  BY CancelSound DEF Good, RowsSound
<1>2. /\ r \in Db /\ r.wf = s.wf
      /\ \A n \in Node :
           \/ r.node[n].st = s.node[n].st
           \/ s.node[n].st \in {"PENDING", "READY", "ENQUEUED"} /\ r.node[n].st = "SKIPPED"
      /\ \A u \in Task : r.task[u] = IF u = t THEN "cancelled" ELSE s.task[u]
  BY <1>1, CancelNodeFacts
<1> HIDE DEF r
<1>3. Justified(r)
  BY <1>1, <1>2, JoinKept DEF Good, NodeDone, Stopped
<1>4. Lawful(s, r)
  BY <1>2 DEF Lawful, Live
<1>5. QED
  BY <1>1, <1>3, <1>4 DEF Good, r

LEMMA StopGood ==
    ASSUME NEW s, NEW results, Good(s, results), s.wf \in {"RUNNING", "PAUSED"},
           NEW wf \in Stopped
    PROVE  Good(StopWorkflow(s, wf), results) /\ Lawful(s, StopWorkflow(s, wf))
<1> DEFINE r == StopWorkflow(s, wf)
           Moved(t) == /\ s.task[t] \in Live /\ Linked(s, t)
                       /\ s.node[t[1]].st = "ENQUEUED"
<1>1. RowsSound(r, results) /\ s \in Db
  BY StopSound DEF Good, RowsSound
<1>2. /\ r \in Db /\ r.wf = wf
      /\ \A n \in Node :
           /\ r.node[n].st \in {s.node[n].st, "SKIPPED"}
           /\ r.node[n].st = "SKIPPED" /\ s.node[n].st # "SKIPPED"
              => s.node[n].st \in {"PENDING", "READY", "ENQUEUED"}
      /\ \A t \in Task : r.task[t] = s.task[t] \/ s.task[t] \in Live
  <2>1. /\ r \in Db /\ r.wf = wf
        /\ \A n \in Node :
             /\ r.node[n].gen = s.node[n].gen
             /\ r.node[n].st \in {s.node[n].st, "SKIPPED"}
             /\ r.node[n].st = "SKIPPED" /\ s.node[n].st # "SKIPPED"
                => \/ s.node[n].st \in {"PENDING", "READY"}
                   \/ /\ s.node[n].st = "ENQUEUED"
                      /\ <<n, s.node[n].gen>> \in Task /\ Moved(<<n, s.node[n].gen>>)
        /\ \A t \in Task : r.task[t] = IF Moved(t) THEN "cancelled" ELSE s.task[t]
    BY <1>1, StopWorkflowFacts DEF Stopped, WorkflowDone
  <2> HIDE DEF r
  <2>2. QED
    BY <2>1
<1> HIDE DEF r, Moved
<1>3. Justified(r)
  BY <1>1, <1>2, JoinKept DEF Good, NodeDone, Stopped
<1>4. Lawful(s, r)
  BY <1>2 DEF Lawful, Live, WorkflowDone
<1>5. QED
  BY <1>1, <1>3, <1>4 DEF Good, r

\* A workflow that was not stopped is paused, resumed or completed.
LEMMA WfGood ==
    ASSUME NEW s, NEW results, Good(s, results), s.wf \in {"RUNNING", "PAUSED"},
           NEW r \in Db, r.node = s.node, r.task = s.task
    PROVE  Good(r, results) /\ Lawful(s, r)
<1>1. RowsSound(r, results) /\ s \in Db
  BY WfSound DEF Good, RowsSound
<1>2. Justified(r)
  BY <1>1, JoinKept DEF Good, Stopped
<1>3. Lawful(s, r)
  BY DEF Lawful, WorkflowDone
<1>4. QED
  BY <1>1, <1>2, <1>3 DEF Good

LEMMA CompleteGood ==
    ASSUME NEW s, NEW results, Good(s, results)
    PROVE  Good(Complete(s), results) /\ Lawful(s, Complete(s))
<1>1. s \in Db
  BY DEF Good, RowsSound
<1>2. CASE s.wf = "RUNNING"
  BY <1>1, <1>2, CompleteFacts, WfGood
<1>3. CASE s.wf # "RUNNING"
  <2>1. Complete(s) = s
    BY <1>3 DEF Complete
  <2>2. QED
    BY <2>1, LawfulRefl
<1>4. QED
  BY <1>2, <1>3

LEMMA RunningLawful == \A s, r : s.wf = "RUNNING" => Lawful(s, r)
BY DEF Lawful, WorkflowDone

\* Nodes whose verdict holds are sent out by a running workflow.
LEMMA EnqueueGood ==
    ASSUME NEW s, NEW results, Good(s, results), NEW S \in SUBSET Node, Spare(s, S),
           \A n \in S : \/ s.node[n].st = "READY"
                        \/ s.node[n].st = "PENDING" /\ (CanRun(Status(s), n) \/ Deps[n] = {})
    PROVE  Good(Enqueue(s, S), results)
<1> DEFINE r == Enqueue(s, S)
<1>1. RowsSound(r, results) /\ s \in Db
  BY EnqueueSound DEF Good, RowsSound
<1>2. /\ r \in Db /\ r.wf = s.wf
      /\ \A n \in Node : r.node[n] = IF n \in S THEN [st |-> "ENQUEUED", gen |-> Fresh(s, n)]
                                     ELSE s.node[n]
  BY <1>1, EnqueueFacts
<1> HIDE DEF r
<1>3. ASSUME NEW n \in Node
      PROVE  r.node[n].st = IF n \in S THEN "ENQUEUED" ELSE s.node[n].st
  <2>1. r.node[n] = IF n \in S THEN [st |-> "ENQUEUED", gen |-> Fresh(s, n)] ELSE s.node[n]
    BY <1>2
  <2>2. QED
    BY <2>1
<1>4. /\ \A n \in Node : Status(s)[n] = s.node[n].st /\ Status(r)[n] = r.node[n].st
      /\ Status(s) \in Statuses /\ Status(r) \in Statuses
  BY <1>1, <1>2, StatusTyped
<1>5. \A n \in Node : CanRun(Status(r), n) <=> CanRun(Status(s), n)
  <2>1. \A m \in Node : \/ Status(r)[m] = Status(s)[m]
                        \/ {Status(s)[m], Status(r)[m]} \cap NodeDone = {}
    BY <1>3, <1>4 DEF NodeDone
  <2>2. QED
    BY <2>1, VerdictSame
<1>6. Justified(r)
  <2>1. \A n \in Node : s.node[n].st \in NodeDone => r.node[n].st = s.node[n].st
    BY <1>3 DEF NodeDone
  <2>2. \A n \in Node : \/ r.node[n].st \in {"PENDING", "SKIPPED"}
                        \/ s.node[n].st \notin {"PENDING", "SKIPPED"}
                        \/ Deps[n] = {}
                        \/ CanRun(Status(r), n)
    BY <1>3, <1>5
  <2>3. \A n \in Node : r.node[n].st # "SKIPPED" \/ s.node[n].st = "SKIPPED"
    BY <1>3
  <2>4. QED
    BY <1>1, <1>2, <2>1, <2>2, <2>3, JoinStep DEF Good
<1>7. QED
  BY <1>1, <1>6 DEF Good, r

\* Nodes that cannot run once all of them are skipped are skipped.
LEMMA SkipGood ==
    ASSUME NEW s, NEW results, Good(s, results), NEW S \in SUBSET Node,
           \A n \in S : s.node[n].st = "PENDING" /\ CannotRun(Skipped(Status(s), S), n)
    PROVE  LET r == SetNodes(s, S, "SKIPPED") IN
           /\ Good(r, results) /\ r.task = s.task /\ r.wf = s.wf
           /\ Status(r) = Skipped(Status(s), S)
           /\ \A n \in Node : r.node[n].st = IF n \in S THEN "SKIPPED" ELSE s.node[n].st
<1> DEFINE r == SetNodes(s, S, "SKIPPED")
<1>1. RowsSound(r, results) /\ s \in Db
  BY SkipSound DEF Good, RowsSound
<1>2. /\ r \in Db /\ r.wf = s.wf /\ r.task = s.task
      /\ \A n \in Node : r.node[n].st = IF n \in S THEN "SKIPPED" ELSE s.node[n].st
  BY <1>1, SetNodesFacts DEF NodeStatus
<1> HIDE DEF r
<1>3. Status(r) = Skipped(Status(s), S)
  BY <1>2 DEF Status, Skipped
<1>4. Justified(r)
  <2>1. \A n \in Node : s.node[n].st \in NodeDone => r.node[n].st = s.node[n].st
    BY <1>2 DEF NodeDone
  <2>2. \A n \in Node : \/ r.node[n].st \in {"PENDING", "SKIPPED"}
                        \/ s.node[n].st \notin {"PENDING", "SKIPPED"}
    BY <1>2
  <2>3. \A n \in Node : \/ r.node[n].st # "SKIPPED"
                        \/ s.node[n].st = "SKIPPED"
                        \/ CannotRun(Status(r), n)
    BY <1>2, <1>3
  <2>4. QED
    BY <1>1, <1>2, <2>1, <2>2, <2>3, JoinStep DEF Good
<1>5. QED
  BY <1>1, <1>2, <1>3, <1>4 DEF Good, r

\* A node found enqueueable while the workflow does not run waits as READY.
LEMMA ReadyGood ==
    ASSUME NEW s, NEW results, Good(s, results), NEW n \in Node,
           s.node[n].st = "PENDING", CanRun(Status(s), n)
    PROVE  Good(SetNodes(s, {n}, "READY"), results) /\ Lawful(s, SetNodes(s, {n}, "READY"))
<1> DEFINE r == SetNodes(s, {n}, "READY")
<1>1. RowsSound(r, results) /\ s \in Db
  BY SkipSound DEF Good, RowsSound
<1>2. /\ r \in Db /\ r.wf = s.wf /\ r.task = s.task
      /\ \A m \in Node : r.node[m].st = IF m = n THEN "READY" ELSE s.node[m].st
  BY <1>1, SetNodesFacts DEF NodeStatus
<1> HIDE DEF r
<1>3. \A m \in Node : Status(s)[m] = s.node[m].st /\ Status(r)[m] = r.node[m].st
  BY <1>1, <1>2, StatusTyped
<1>4. CanRun(Status(r), n)
  <2>1. \A m \in Node : \/ Status(r)[m] = Status(s)[m]
                        \/ {Status(s)[m], Status(r)[m]} \cap NodeDone = {}
    BY <1>2, <1>3 DEF NodeDone
  <2>2. QED
    BY <2>1, VerdictSame
<1>5. Justified(r)
  <2>1. \A m \in Node : s.node[m].st \in NodeDone => r.node[m].st = s.node[m].st
    BY <1>2 DEF NodeDone
  <2>2. \A m \in Node : \/ r.node[m].st \in {"PENDING", "SKIPPED"}
                        \/ s.node[m].st \notin {"PENDING", "SKIPPED"}
                        \/ CanRun(Status(r), m)
    BY <1>2, <1>4
  <2>3. \A m \in Node : r.node[m].st # "SKIPPED" \/ s.node[m].st = "SKIPPED"
    BY <1>2
  <2>4. QED
    BY <1>1, <1>2, <2>1, <2>2, <2>3, JoinStep DEF Good
<1>6. Lawful(s, r)
  BY <1>2 DEF Lawful
<1>7. QED
  BY <1>1, <1>5, <1>6 DEF Good, r

\* Phase 2 promotes the dependents of a node: skips what is lost, enqueues what is met.
LEMMA PromoteGood ==
    ASSUME NEW s, NEW results, Good(s, results), NEW source \in Node,
           Spare(s, RunSet(Status(s), source))
    PROVE  Good(Promote(s, source), results)
<1> DEFINE st == Status(s)
           skip == SkipSet(st, source)
           run == RunSet(st, source)
           m == SetNodes(s, skip, "SKIPPED")
<1>1. s \in Db /\ st \in Statuses /\ \A n \in Node : st[n] = s.node[n].st
  BY StatusTyped DEF Good, RowsSound
<1>2. Promote(s, source) = Enqueue(m, run)
  BY DEF Promote
<1>3. run = {n \in PendingAfter(st, source, skip) \ skip : CanRun(Skipped(st, skip), n)}
  BY DEF RunSet
<1> HIDE DEF run
<1>4. /\ skip \subseteq {n \in Node : st[n] = "PENDING"}
      /\ \A n \in skip : CannotRun(Skipped(st, skip), n)
  BY <1>1, SkippedCannotRun
<1> HIDE DEF skip
<1>5. /\ skip \in SUBSET Node
      /\ \A n \in skip : s.node[n].st = "PENDING" /\ CannotRun(Skipped(Status(s), skip), n)
  BY <1>1, <1>4
<1>6. /\ Good(m, results) /\ m.task = s.task
      /\ Status(m) = Skipped(st, skip)
      /\ \A n \in Node : m.node[n].st = IF n \in skip THEN "SKIPPED" ELSE s.node[n].st
  BY <1>5, SkipGood
<1> HIDE DEF m
<1>7. run \in SUBSET Node /\ \A n \in run : n \notin skip /\ st[n] = "PENDING"
  BY <1>3 DEF PendingAfter
<1>8. \A n \in run : m.node[n].st = "PENDING" /\ CanRun(Status(m), n)
  BY <1>1, <1>3, <1>6, <1>7
<1>9. Spare(m, run)
  BY <1>6 DEF Spare, Unused, run
<1>10. QED
  BY <1>2, <1>6, <1>7, <1>8, <1>9, EnqueueGood

LEMMA SkipOneGood ==
    ASSUME NEW s, NEW results, Good(s, results), NEW n \in Node,
           s.node[n].st = "PENDING", CannotRun(Status(s), n)
    PROVE  Good(SetNodes(s, {n}, "SKIPPED"), results) /\ Lawful(s, SetNodes(s, {n}, "SKIPPED"))
<1>1. s \in Db /\ Status(s) \in Statuses /\ Status(s)[n] = "PENDING"
  BY StatusTyped DEF Good, RowsSound
<1>2. Skipped(Status(s), {}) = Status(s)
  BY <1>1 DEF Skipped, Status
<1>3. CannotRun(Skipped(Status(s), {n}), n)
  BY <1>1, <1>2, CannotRunMonotone
<1> DEFINE S == {n}
           r == SetNodes(s, S, "SKIPPED")
<1>4. /\ S \in SUBSET Node
      /\ \A m \in S : s.node[m].st = "PENDING" /\ CannotRun(Skipped(Status(s), S), m)
  BY <1>3
<1> HIDE DEF S
<1>5. /\ Good(r, results) /\ r.task = s.task /\ r.wf = s.wf
      /\ \A m \in Node : r.node[m].st = IF m \in S THEN "SKIPPED" ELSE s.node[m].st
  BY <1>4, SkipGood
<1> HIDE DEF r
<1>6. Lawful(s, r)
  BY <1>5 DEF Lawful
<1>7. QED
  BY <1>5, <1>6 DEF r, S

LEMMA OutcomeGood ==
    ASSUME NEW s, NEW results, Good(s, results), NEW t \in results,
           s.node[t[1]].st \notin NodeDone
    PROVE  LET r == SetNodes(s, {t[1]}, s.task[t]) IN
           Good(r, results \ {t}) /\ r.wf = s.wf /\ r.task = s.task
<1> DEFINE r == SetNodes(s, {t[1]}, s.task[t])
<1>1. RowsSound(r, results \ {t}) /\ s \in Db
  BY OutcomeSound DEF Good, RowsSound
<1>2. s.task[t] \in Shown /\ TaskSound(s, t) /\ t[1] \in Node
  BY TaskParts DEF Good, RowsSound
<1>3. /\ r \in Db /\ r.wf = s.wf /\ r.task = s.task
      /\ \A n \in Node : r.node[n].st = IF n = t[1] THEN s.task[t] ELSE s.node[n].st
  BY <1>1, <1>2, SetNodesFacts DEF NodeStatus, Shown
<1> HIDE DEF r
<1>4. s.node[t[1]].st \in Out
  BY <1>2 DEF TaskSound, Shown, NodeDone
<1>5. Justified(r)
  BY <1>1, <1>2, <1>3, <1>4, JoinKept DEF Good
<1>6. QED
  BY <1>1, <1>3, <1>5 DEF Good, r

LEMMA DropGood ==
    ASSUME NEW s, NEW results, Good(s, results), NEW t \in results,
           s.wf \in WorkflowDone \/ s.node[t[1]].st \in NodeDone
    PROVE  Good(s, results \ {t})
BY DropSound DEF Good

\* A pause relocates the claimed rows it finds unlocked.
LEMMA PauseGood ==
    ASSUME NEW s, NEW results, Good(s, results), s.wf = "RUNNING",
           NEW T \in SUBSET Relocatable(s)
    PROVE  Good(PauseTree(s, T), results) /\ Lawful(s, PauseTree(s, T))
<1> DEFINE m == [s EXCEPT !.wf = "PAUSED"]
<1>1. s \in Db
  BY DEF Good, RowsSound
<1>2. m \in Db /\ m.node = s.node /\ m.task = s.task
  BY <1>1, WfFacts
<1>3. PauseTree(s, T) = Abandon(m, T)
  BY DEF PauseTree
<1> HIDE DEF m
<1>4. Good(m, results)
  BY <1>2, WfGood
<1>5. T \in SUBSET Task /\ \A t \in T : m.task[t] = "CLAIMED"
  BY <1>2 DEF Relocatable
<1>6. QED
  BY <1>3, <1>4, <1>5, AbandonGood, RunningLawful

-----------------------------------------------------------------------------
(* The inductive invariant.                                                *)

StopStep == {"filterCancelled", "stopCancelled"}

\* A dispatch is on its way to cancel a node only if the workflow was cancelled.
StopsCancelled == \A d \in disp : d.step \in StopStep => db.wf = "CANCELLED"

IInv == TypeOK /\ Good(db, outbox) /\ StopsCancelled

\* What a step has to show: its transaction is good and lawful, the dispatches it
\* leaves are sound, the counters stay within their bounds.
RowsStep == Good(db', outbox') /\ Lawful(db, db')
DispStep == \A d \in disp' : d \in Dispatch /\ (d.step \in StopStep => db.wf = "CANCELLED")
CountStep ==
    /\ retries' \in [Task -> 0 .. MaxRetries]
    /\ eval' \in Node \cup {NoNode}
    /\ controls' \in 0 .. MaxControls
    /\ faults' \in 0 .. MaxFaults

LEMMA StepSuffices ==
    ASSUME IInv, RowsStep, DispStep, CountStep
    PROVE  IInv' /\ Lawful(db, db')
BY DEF IInv, TypeOK, RowsStep, DispStep, CountStep, Good, RowsSound, StopsCancelled, Lawful,
       WorkflowDone

LEMMA DispSame ==
    ASSUME IInv, disp' \subseteq disp
    PROVE  DispStep
BY DEF IInv, TypeOK, StopsCancelled, DispStep

LEMMA DispGoto ==
    ASSUME IInv, NEW d \in disp,
           NEW step \in {"filterPaused", "filterCancelled", "handoff", "start", "refused",
                         "stopPaused", "stopCancelled", "user"},
           step \in StopStep => db.wf = "CANCELLED", Goto(d, step)
    PROVE  DispStep
<1>1. d \in Dispatch
  BY DEF IInv, TypeOK
<1>2. [d EXCEPT !.step = step] \in Dispatch /\ [d EXCEPT !.step = step].step = step
  BY <1>1 DEF Dispatch
<1>3. QED
  BY <1>2 DEF IInv, TypeOK, StopsCancelled, DispStep, Goto

LEMMA DispUnfence ==
    ASSUME IInv, NEW t, Unfence(t)
    PROVE  DispStep
<1>1. ASSUME NEW d \in disp
      PROVE  LET e == [d EXCEPT !.fresh = d.fresh /\ d.t # t] IN e \in Dispatch /\ e.step = d.step
  <2>1. d \in Dispatch
    BY DEF IInv, TypeOK
  <2>2. (d.fresh /\ d.t # t) \in BOOLEAN
    OBVIOUS
  <2>3. QED
    BY <2>1, <2>2 DEF Dispatch
<1>2. QED
  BY <1>1 DEF IInv, TypeOK, StopsCancelled, DispStep, Unfence

LEMMA CountFault ==
    ASSUME IInv, Fault, UNCHANGED <<retries, eval, controls>>
    PROVE  CountStep
<1>1. faults \in Nat /\ faults < MaxFaults /\ faults' = faults + 1
  BY DEF IInv, TypeOK, Fault
<1>2. faults' \in 0 .. MaxFaults
  BY <1>1, NodesAssumption
<1>3. QED
  BY <1>2 DEF IInv, TypeOK, CountStep

LEMMA CountSame ==
    ASSUME IInv, UNCHANGED <<retries, eval, controls, faults>>
    PROVE  CountStep
BY DEF IInv, TypeOK, CountStep

LEMMA CountRetry ==
    ASSUME IInv, NEW t \in Task, Retry(t), UNCHANGED <<eval, controls>>, faults' \in 0 .. MaxFaults
    PROVE  CountStep
<1>1. retries \in [Task -> 0 .. MaxRetries] /\ retries[t] < MaxRetries
      /\ retries' = [retries EXCEPT ![t] = retries[t] + 1]
  BY DEF IInv, TypeOK, Retry
<1>2. retries[t] + 1 \in 0 .. MaxRetries
  BY <1>1, NodesAssumption
<1>3. retries' \in [Task -> 0 .. MaxRetries]
  BY <1>1, <1>2
<1>4. QED
  BY <1>3 DEF IInv, TypeOK, CountStep

-----------------------------------------------------------------------------
(* The steps of a dispatch.                                                *)

LEMMA OwnedClaimed ==
    ASSUME IInv, NEW d \in disp
    PROVE  /\ d.t \in Task /\ d.t[1] \in Node /\ {d.t} \in SUBSET Task
           /\ Owned(d) => db.task[d.t] = "CLAIMED" /\ db.task[d.t] \in Live
BY TaskParts DEF IInv, TypeOK, Dispatch, Owned, Live

LEMMA RowsSame ==
    ASSUME IInv, db' = db, outbox' = outbox
    PROVE  RowsStep
BY LawfulRefl DEF IInv, RowsStep

LEMMA FilterStep ==
    ASSUME IInv, NEW d \in disp, Filter(d)
    PROVE  IInv' /\ Lawful(db, db')
<1>1. RowsStep /\ CountStep
  BY RowsSame, CountSame DEF Filter
<1>2. DispStep
  BY DispGoto DEF Filter, StopStep
<1>3. QED
  BY <1>1, <1>2, StepSuffices

LEMMA FilterPausedStep ==
    ASSUME IInv, NEW d \in disp, FilterPaused(d)
    PROVE  IInv' /\ Lawful(db, db')
<1>1. DispStep /\ CountStep
  BY DispSame, CountSame DEF FilterPaused, Drop
<1>2. CASE Owned(d)
  <2>1. db' = Abandon(db, {d.t}) /\ outbox' = outbox
    BY <1>2 DEF FilterPaused
  <2>2. RowsStep
    BY <1>2, <2>1, OwnedClaimed, AbandonGood DEF RowsStep, IInv
  <2>3. QED
    BY <1>1, <2>2, StepSuffices
<1>3. CASE ~Owned(d)
  <2>1. RowsStep
    BY <1>3, RowsSame DEF FilterPaused
  <2>2. QED
    BY <1>1, <2>1, StepSuffices
<1>4. QED
  BY <1>2, <1>3

LEMMA FilterCancelledStep ==
    ASSUME IInv, NEW d \in disp, FilterCancelled(d)
    PROVE  IInv' /\ Lawful(db, db')
<1>1. DispStep /\ CountStep
  BY DispSame, CountSame DEF FilterCancelled, Drop
<1>2. CASE Owned(d)
  <2>1. db' = CancelNode(db, d.t) /\ outbox' = outbox
    BY <1>2 DEF FilterCancelled
  <2>2. db.wf = "CANCELLED"
    BY DEF FilterCancelled, IInv, StopsCancelled, StopStep
  <2>3. RowsStep
    BY <1>2, <2>1, <2>2, OwnedClaimed, CancelGood DEF RowsStep, IInv
  <2>4. QED
    BY <1>1, <2>3, StepSuffices
<1>3. CASE ~Owned(d)
  <2>1. RowsStep
    BY <1>3, RowsSame DEF FilterCancelled
  <2>2. QED
    BY <1>1, <2>1, StepSuffices
<1>4. QED
  BY <1>2, <1>3

\* The orphan arm of the handoff is never taken: an owned claim is runnable.
LEMMA OwnedRunnable ==
    ASSUME IInv, NEW d \in disp, Owned(d)
    PROVE  Runnable(db, d.t)
BY OwnedClaimed DEF IInv, Good, RowsSound, TaskSound, Runnable, Out

LEMMA HandoffStep ==
    ASSUME IInv, NEW d \in disp, Handoff(d)
    PROVE  IInv' /\ Lawful(db, db')
<1>1. outbox' = outbox /\ CountStep
  BY CountSame DEF Handoff
<1>2. CASE Runnable(db, d.t)
  <2>1. db' = SetNodes(db, {d.t[1]}, "RUNNING") /\ Goto(d, "start")
    BY <1>2 DEF Handoff
  <2>2. RowsStep
    BY <1>1, <1>2, <2>1, OwnedClaimed, HandoffGood DEF RowsStep, IInv
  <2>3. DispStep
    BY <2>1, DispGoto DEF StopStep
  <2>4. QED
    BY <1>1, <2>2, <2>3, StepSuffices
<1>3. CASE ~Runnable(db, d.t)
  <2>1. db' = db /\ Goto(d, "start")
    BY <1>3, OwnedRunnable DEF Handoff
  <2>2. RowsStep
    BY <1>1, <2>1, RowsSame
  <2>3. DispStep
    BY <2>1, DispGoto DEF StopStep
  <2>4. QED
    BY <1>1, <2>2, <2>3, StepSuffices
<1>4. QED
  BY <1>2, <1>3

LEMMA HandoffFailsStep ==
    ASSUME IInv, NEW d \in disp, HandoffFails(d)
    PROVE  IInv' /\ Lawful(db, db')
<1>1. RowsStep /\ CountStep
  BY RowsSame, CountFault DEF HandoffFails
<1>2. DispStep
  BY DispGoto DEF HandoffFails, StopStep
<1>3. QED
  BY <1>1, <1>2, StepSuffices

LEMMA SetRunningStep ==
    ASSUME IInv, NEW d \in disp, SetRunning(d)
    PROVE  IInv' /\ Lawful(db, db')
<1>1. outbox' = outbox /\ CountStep
  BY CountSame DEF SetRunning
<1>2. CASE Startable(d)
  <2>1. db' = SetTasks(db, {d.t}, "RUNNING") /\ Goto(d, "user")
    BY <1>2 DEF SetRunning
  <2>2. RowsStep
    BY <1>1, <1>2, <2>1, OwnedClaimed, LiveGood DEF RowsStep, IInv, Startable, Live
  <2>3. DispStep
    BY <2>1, DispGoto DEF StopStep
  <2>4. QED
    BY <1>1, <2>2, <2>3, StepSuffices
<1>3. CASE ~Startable(d)
  <2>1. db' = db /\ Goto(d, "refused")
    BY <1>3 DEF SetRunning
  <2>2. RowsStep
    BY <1>1, <2>1, RowsSame
  <2>3. DispStep
    BY <2>1, DispGoto DEF StopStep
  <2>4. QED
    BY <1>1, <2>2, <2>3, StepSuffices
<1>4. QED
  BY <1>2, <1>3

LEMMA SetRunningFailsStep ==
    ASSUME IInv, NEW d \in disp, SetRunningFails(d)
    PROVE  IInv' /\ Lawful(db, db')
<1>1. outbox' = outbox /\ DispStep /\ CountStep
  BY DispSame, CountFault DEF SetRunningFails, Drop
<1>2. RowsStep
  <2>1. CASE Owned(d)
    BY <1>1, <2>1, OwnedClaimed, LiveGood DEF SetRunningFails, RowsStep, IInv, Live
  <2>2. CASE ~Owned(d)
    BY <1>1, <2>2, RowsSame DEF SetRunningFails
  <2>3. QED
    BY <2>1, <2>2
<1>3. QED
  BY <1>1, <1>2, StepSuffices

LEMMA ReadStatusStep ==
    ASSUME IInv, NEW d \in disp, ReadStatus(d)
    PROVE  IInv' /\ Lawful(db, db')
<1>1. RowsStep /\ CountStep
  BY RowsSame, CountSame DEF ReadStatus
<1>2. \/ Goto(d, "stopPaused")
      \/ db.wf = "CANCELLED" /\ Goto(d, "stopCancelled")
      \/ Drop(d)
  BY DEF ReadStatus
<1>3. DispStep
  <2>1. CASE Goto(d, "stopPaused")
    BY <2>1, DispGoto DEF StopStep
  <2>2. CASE db.wf = "CANCELLED" /\ Goto(d, "stopCancelled")
    BY <2>2, DispGoto
  <2>3. CASE Drop(d)
    BY <2>3, DispSame DEF Drop
  <2>4. QED
    BY <1>2, <2>1, <2>2, <2>3
<1>4. QED
  BY <1>1, <1>3, StepSuffices

LEMMA StopPausedStep ==
    ASSUME IInv, NEW d \in disp, StopPaused(d)
    PROVE  IInv' /\ Lawful(db, db')
<1>1. outbox' = outbox /\ DispStep /\ CountStep
  BY DispSame, CountSame DEF StopPaused, Drop
<1>2. RowsStep
  <2>1. CASE Owned(d) \/ db.task[d.t] = "abandoned"
    <3>1. \A t \in {d.t} : db.task[t] \in {"CLAIMED", "abandoned"}
      BY <2>1, OwnedClaimed
    <3>2. db' = Abandon(db, {d.t})
      BY <2>1 DEF StopPaused
    <3>3. QED
      BY <1>1, <3>1, <3>2, OwnedClaimed, AbandonGood DEF RowsStep, IInv
  <2>2. CASE ~(Owned(d) \/ db.task[d.t] = "abandoned")
    BY <1>1, <2>2, RowsSame DEF StopPaused
  <2>3. QED
    BY <2>1, <2>2
<1>3. QED
  BY <1>1, <1>2, StepSuffices

LEMMA StopCancelledStep ==
    ASSUME IInv, NEW d \in disp, StopCancelled(d)
    PROVE  IInv' /\ Lawful(db, db')
<1>1. outbox' = outbox /\ DispStep /\ CountStep
  BY DispSame, CountSame DEF StopCancelled, Drop
<1>2. RowsStep
  <2>1. CASE Owned(d) \/ db.task[d.t] \in {"PENDING", "cancelled"}
    <3>1. db.task[d.t] \in Live \cup {"cancelled"}
      BY <2>1, OwnedClaimed DEF Live
    <3>2. db.wf = "CANCELLED"
      BY DEF StopCancelled, IInv, StopsCancelled, StopStep
    <3>3. db' = CancelNode(db, d.t)
      BY <2>1 DEF StopCancelled
    <3>4. QED
      BY <1>1, <3>1, <3>2, <3>3, OwnedClaimed, CancelGood DEF RowsStep, IInv
  <2>2. CASE ~(Owned(d) \/ db.task[d.t] \in {"PENDING", "cancelled"})
    BY <1>1, <2>2, RowsSame DEF StopCancelled
  <2>3. QED
    BY <2>1, <2>2
<1>3. QED
  BY <1>1, <1>2, StepSuffices

LEMMA CrashStep ==
    ASSUME IInv, NEW d \in disp, Crash(d)
    PROVE  IInv' /\ Lawful(db, db')
<1>1. RowsStep /\ DispStep /\ CountStep
  BY RowsSame, DispSame, CountFault DEF Crash, Drop
<1>2. QED
  BY <1>1, StepSuffices

LEMMA ClaimStep ==
    ASSUME IInv, NEW t \in Task, Claim(t)
    PROVE  IInv' /\ Lawful(db, db')
<1>1. outbox' = outbox /\ CountStep
  BY CountSame DEF Claim
<1>2. RowsStep
  BY <1>1, LiveGood DEF Claim, RowsStep, IInv, Live
<1>3. DispStep
  <2> DEFINE new == [t |-> t, fresh |-> TRUE, step |-> "filter"]
  <2>1. new \in Dispatch /\ new.step = "filter"
    BY DEF Dispatch
  <2>2. disp' = disp \cup {new}
    BY DEF Claim
  <2> HIDE DEF new
  <2>3. QED
    BY <2>1, <2>2 DEF DispStep, IInv, TypeOK, StopsCancelled, StopStep
<1>4. QED
  BY <1>1, <1>2, <1>3, StepSuffices

-----------------------------------------------------------------------------
(* The end of an attempt, phase 2, controls, re-evaluation, the reaper.    *)

LEMMA SettleStep ==
    ASSUME IInv, NEW t \in Task, db.task[t] = "RUNNING", NEW outcome \in Shown,
           Settle(t, outcome)
    PROVE  RowsStep
BY SettleGood DEF Settle, RowsStep, IInv, Live

LEMMA RetryStep ==
    ASSUME IInv, NEW t \in Task, db.task[t] = "RUNNING", Retry(t)
    PROVE  RowsStep
BY LiveGood DEF Retry, RowsStep, IInv, Live

\* The end of the attempt of a running task, of the finalizer or of the reaper.
LEMMA AttemptEnds ==
    ASSUME IInv, NEW t \in Task, db.task[t] = "RUNNING",
           Settle(t, "COMPLETED") \/ Settle(t, "FAILED") \/ Retry(t),
           UNCHANGED <<eval, controls>>, faults' \in 0 .. MaxFaults
    PROVE  RowsStep /\ CountStep
<1>1. RowsStep
  BY SettleStep, RetryStep DEF Shown
<1>2. CASE Retry(t)
  BY <1>1, <1>2, CountRetry
<1>3. CASE ~Retry(t)
  BY <1>1, <1>3 DEF Settle, IInv, TypeOK, CountStep
<1>4. QED
  BY <1>2, <1>3

LEMMA FinishStep ==
    ASSUME IInv, NEW d \in disp, Finish(d)
    PROVE  IInv' /\ Lawful(db, db')
<1>1. DispStep
  BY DispSame DEF Finish, Drop
<1>2. faults' \in 0 .. MaxFaults
  BY DEF Finish, IInv, TypeOK
<1>3. RowsStep /\ CountStep
  BY <1>2, OwnedClaimed, AttemptEnds DEF Finish
<1>4. QED
  BY <1>1, <1>3, StepSuffices

LEMMA FinalizeMissStep ==
    ASSUME IInv, NEW d \in disp, FinalizeMiss(d)
    PROVE  IInv' /\ Lawful(db, db')
<1>1. RowsStep /\ DispStep /\ CountStep
  BY RowsSame, DispSame, CountSame DEF FinalizeMiss, Drop
<1>2. QED
  BY <1>1, StepSuffices

LEMMA ConsumeStep ==
    ASSUME IInv, NEW t \in Task, Consume(t)
    PROVE  IInv' /\ Lawful(db, db')
<1> DEFINE n == t[1]
           applied == SetNodes(db, {n}, db.task[t])
           late == db.wf \in WorkflowDone \/ db.node[n].st \in NodeDone
<1>1. /\ t \in outbox /\ outbox' = outbox \ {t} /\ n \in Node /\ Good(db, outbox)
      /\ db \in Db /\ db.wf \in {"RUNNING", "PAUSED"} \cup WorkflowDone
  BY TaskParts DEF Consume, IInv, TypeOK, Db
<1>2. DispStep /\ CountStep
  BY DispSame, CountSame DEF Consume
<1>3. CASE late
  <2>1. db' = db
    BY <1>3 DEF Consume
  <2>2. RowsStep
    BY <1>1, <1>3, <2>1, DropGood, LawfulRefl DEF RowsStep
  <2>3. QED
    BY <1>2, <2>2, StepSuffices
<1>4. CASE ~late
  <2>1. Good(applied, outbox') /\ applied.wf = db.wf /\ applied.task = db.task
    BY <1>1, <1>4, OutcomeGood
  <2>2. \/ /\ db.wf = "RUNNING"
           /\ \E T \in SUBSET Relocatable(applied) : db' = PauseTree(applied, T)
        \/ db.wf = "PAUSED" /\ db' = applied
        \/ /\ db.wf = "RUNNING"
           /\ Spare(db, RunSet(Status(applied), n))
           /\ db' = Complete(Promote(applied, n))
    BY <1>1, <1>4 DEF Consume
  <2> HIDE DEF applied, n
  <2>3. Good(db', outbox')
    <3>1. CASE /\ db.wf = "RUNNING"
               /\ \E T \in SUBSET Relocatable(applied) : db' = PauseTree(applied, T)
      BY <2>1, <3>1, PauseGood
    <3>2. CASE db' = applied
      BY <2>1, <3>2
    <3>3. CASE /\ Spare(db, RunSet(Status(applied), n))
               /\ db' = Complete(Promote(applied, n))
      <4>1. Spare(applied, RunSet(Status(applied), n))
        BY <2>1, <3>3 DEF Spare, Unused
      <4>2. Good(Promote(applied, n), outbox')
        BY <1>1, <2>1, <4>1, PromoteGood
      <4>3. QED
        BY <3>3, <4>2, CompleteGood
    <3>4. QED
      BY <2>2, <3>1, <3>2, <3>3
  <2>4. Lawful(db, db')
    <3>1. CASE db.wf = "RUNNING"
      BY <3>1, RunningLawful
    <3>2. CASE db.wf = "PAUSED" /\ db' = applied
      BY <2>1, <3>2 DEF Lawful, WorkflowDone
    <3>3. QED
      BY <2>2, <3>1, <3>2
  <2>5. QED
    BY <1>2, <2>3, <2>4, StepSuffices DEF RowsStep
<1>5. QED
  BY <1>3, <1>4

LEMMA ControlStep ==
    ASSUME IInv, Control, RowsStep
    PROVE  IInv' /\ Lawful(db, db')
<1>1. controls \in Nat /\ controls < MaxControls /\ controls' = controls + 1
  BY DEF IInv, TypeOK, Control
<1>2. controls' \in 0 .. MaxControls
  BY <1>1, NodesAssumption
<1>3. CountStep
  BY <1>2 DEF IInv, TypeOK, CountStep, Control
<1>4. DispStep
  BY DispSame DEF Control
<1>5. QED
  BY <1>3, <1>4, StepSuffices

LEMMA PauseStep ==
    ASSUME IInv, Pause
    PROVE  IInv' /\ Lawful(db, db')
<1>1. RowsStep
  BY PauseGood DEF Pause, Control, RowsStep, IInv
<1>2. QED
  BY <1>1, ControlStep DEF Pause

LEMMA ResumeStep ==
    ASSUME IInv, Resume
    PROVE  IInv' /\ Lawful(db, db')
<1> DEFINE r == [db EXCEPT !.wf = "RUNNING"]
<1>1. r \in Db /\ r.node = db.node /\ r.task = db.task
  BY WfFacts DEF IInv, TypeOK
<1>2. db' = r /\ outbox' = outbox /\ db.wf = "PAUSED"
  BY DEF Resume, Control
<1> HIDE DEF r
<1>3. RowsStep
  BY <1>1, <1>2, WfGood DEF RowsStep, IInv
<1>4. QED
  BY <1>3, ControlStep DEF Resume

LEMMA CancelStep ==
    ASSUME IInv, Cancel
    PROVE  IInv' /\ Lawful(db, db')
<1>1. RowsStep
  BY StopGood DEF Cancel, Control, RowsStep, IInv, Stopped
<1>2. QED
  BY <1>1, ControlStep DEF Cancel

LEMMA ExpireStep ==
    ASSUME IInv, ExpirePaused
    PROVE  IInv' /\ Lawful(db, db')
<1>1. RowsStep
  BY StopGood DEF ExpirePaused, Control, RowsStep, IInv, Stopped
<1>2. QED
  BY <1>1, ControlStep DEF ExpirePaused

LEMMA BeginEvalStep ==
    ASSUME IInv, NEW n \in Node, BeginEval(n)
    PROVE  IInv' /\ Lawful(db, db')
<1>1. RowsStep /\ DispStep
  BY RowsSame, DispSame DEF BeginEval
<1>2. CountStep
  BY DEF BeginEval, IInv, TypeOK, CountStep
<1>3. QED
  BY <1>1, <1>2, StepSuffices

LEMMA EndEvalStep ==
    ASSUME IInv, NEW n \in Node, EndEval(n)
    PROVE  IInv' /\ Lawful(db, db')
<1>1. DispStep /\ CountStep /\ outbox' = outbox
  BY DispSame DEF EndEval, IInv, TypeOK, CountStep
<1>2. RowsStep
  <2>1. CASE db' = db
    BY <1>1, <2>1, RowsSame
  <2>2. CASE /\ db.node[n].st = "PENDING"
             /\ CannotRun(Status(db), n)
             /\ db' = SetNodes(db, {n}, "SKIPPED")
    BY <1>1, <2>2, SkipOneGood DEF RowsStep, IInv
  <2>3. CASE /\ db.node[n].st = "PENDING"
             /\ CanRun(Status(db), n)
             /\ ~EnqueueGuard(db)
             /\ db' = SetNodes(db, {n}, "READY")
    BY <1>1, <2>3, ReadyGood DEF RowsStep, IInv
  <2>4. CASE /\ db.node[n].st = "PENDING"
             /\ CanRun(Status(db), n)
             /\ EnqueueGuard(db) /\ Spare(db, {n})
             /\ db' = Enqueue(db, {n})
    <3>1. Good(Enqueue(db, {n}), outbox)
      BY <2>4, EnqueueGood DEF IInv
    <3>2. Lawful(db, db')
      BY <2>4, RunningLawful DEF EnqueueGuard
    <3>3. QED
      BY <1>1, <2>4, <3>1, <3>2 DEF RowsStep
  <2>5. QED
    BY <2>1, <2>2, <2>3, <2>4 DEF EndEval
<1>3. QED
  BY <1>1, <1>2, StepSuffices

LEMMA EnqueueReadyStep ==
    ASSUME IInv, NEW n \in Node, EnqueueReady(n)
    PROVE  IInv' /\ Lawful(db, db')
<1>1. DispStep /\ CountStep
  BY DispSame, CountSame DEF EnqueueReady
<1>2. Good(Enqueue(db, {n}), outbox) /\ Lawful(db, db')
  BY EnqueueGood, RunningLawful DEF EnqueueReady, IInv
<1>3. RowsStep
  BY <1>2 DEF RowsStep, EnqueueReady
<1>4. QED
  BY <1>1, <1>3, StepSuffices

LEMMA CheckCompletionStep ==
    ASSUME IInv, CheckCompletion
    PROVE  IInv' /\ Lawful(db, db')
<1>1. RowsStep /\ DispStep /\ CountStep
  BY CompleteGood, DispSame, CountSame DEF CheckCompletion, RowsStep, IInv
<1>2. QED
  BY <1>1, StepSuffices

LEMMA TakenFromTyped ==
    ASSUME IInv, NEW t, NEW steps, TakenFrom(t, steps)
    PROVE  faults' \in 0 .. MaxFaults
<1>1. /\ faults \in Nat
      /\ faults' # faults => faults < MaxFaults /\ faults' = faults + 1
  BY DEF IInv, TypeOK, TakenFrom, Fault
<1>2. QED
  BY <1>1, NodesAssumption DEF IInv, TypeOK

LEMMA RequeueStaleClaimedStep ==
    ASSUME IInv, NEW t \in Task, RequeueStaleClaimed(t)
    PROVE  IInv' /\ Lawful(db, db')
<1>1. DispStep
  BY DispUnfence DEF RequeueStaleClaimed
<1>2. CountStep
  BY TakenFromTyped DEF RequeueStaleClaimed, IInv, TypeOK, CountStep
<1>3. RowsStep
  BY LiveGood DEF RequeueStaleClaimed, RowsStep, IInv, Live
<1>4. QED
  BY <1>1, <1>2, <1>3, StepSuffices

LEMMA ReapStaleRunningStep ==
    ASSUME IInv, NEW t \in Task, ReapStaleRunning(t)
    PROVE  IInv' /\ Lawful(db, db')
<1>1. DispStep
  BY DispUnfence DEF ReapStaleRunning
<1>2. RowsStep /\ CountStep
  BY TakenFromTyped, AttemptEnds DEF ReapStaleRunning
<1>3. QED
  BY <1>1, <1>2, StepSuffices

-----------------------------------------------------------------------------
(* The induction, and what follows from the invariant.                     *)

NoRows == [wf |-> "RUNNING",
           node |-> [n \in Node |-> [st |-> "PENDING", gen |-> 0]],
           task |-> [t \in Task |-> "unused"]]
Roots == {n \in Node : Deps[n] = {}}

LEMMA NoRowsGood ==
    /\ Good(NoRows, {}) /\ Spare(NoRows, Roots) /\ NoRows.wf = "RUNNING"
    /\ \A n \in Node : NoRows.node[n].st = "PENDING" /\ NoRows.node[n].gen = 0
<1>1. /\ NoRows \in Db /\ NoRows.wf = "RUNNING"
      /\ \A n \in Node : NoRows.node[n].st = "PENDING" /\ NoRows.node[n].gen = 0
      /\ \A t \in Task : NoRows.task[t] = "unused"
  <2>1. \A n \in Node : [st |-> "PENDING", gen |-> 0] \in [st : NodeStatus, gen : 0 .. MaxGen]
    BY GenerationsTyped DEF NodeStatus
  <2>2. QED
    BY <2>1 DEF NoRows, Db, TaskStatus
<1>2. ASSUME NEW t \in Task PROVE TaskSound(NoRows, t)
  BY <1>1, TaskParts DEF TaskSound, Linked, Live, Shown
<1>3. ASSUME NEW n \in Node PROVE NodeSound(NoRows, {}, n)
  BY <1>1 DEF NodeSound, Out, Shown
<1>4. Justified(NoRows)
  BY <1>1 DEF Justified, StartJustified, SkipJustified
<1>5. Spare(NoRows, Roots)
  <2>1. 1 \in Generation
    BY GenerationsTyped DEF Generation
  <2>2. \A n \in Roots : 1 \in Unused(NoRows, n)
    BY <1>1, <2>1, TaskParts DEF Unused, Roots
  <2>3. QED
    BY <2>2 DEF Spare
<1>6. QED
  BY <1>1, <1>2, <1>3, <1>4, <1>5 DEF Good, RowsSound

LEMMA InitGood == Init => IInv
<1> SUFFICES ASSUME Init PROVE IInv
  OBVIOUS
<1>1. db = Enqueue(NoRows, Roots)
  BY DEF Init, NoRows, Roots
<1>2. Roots \in SUBSET Node /\ \A n \in Roots : Deps[n] = {}
  BY DEF Roots
<1>3. Good(db, {})
  BY <1>1, <1>2, NoRowsGood, EnqueueGood
<1>4. 0 \in 0 .. MaxRetries /\ 0 \in 0 .. MaxControls /\ 0 \in 0 .. MaxFaults
  BY NodesAssumption
<1>5. QED
  BY <1>3, <1>4 DEF Init, IInv, TypeOK, StopsCancelled, Good, RowsSound

LEMMA DispatchNextStep ==
    ASSUME IInv, DispatchNext
    PROVE  IInv' /\ Lawful(db, db')
<1>1. PICK d \in disp : Step(d) \/ HandoffFails(d) \/ SetRunningFails(d) \/ Crash(d)
  BY DEF DispatchNext
<1>2. CASE Filter(d)
  BY <1>2, FilterStep
<1>3. CASE FilterPaused(d)
  BY <1>3, FilterPausedStep
<1>4. CASE FilterCancelled(d)
  BY <1>4, FilterCancelledStep
<1>5. CASE Handoff(d)
  BY <1>5, HandoffStep
<1>6. CASE SetRunning(d)
  BY <1>6, SetRunningStep
<1>7. CASE ReadStatus(d)
  BY <1>7, ReadStatusStep
<1>8. CASE StopPaused(d)
  BY <1>8, StopPausedStep
<1>9. CASE StopCancelled(d)
  BY <1>9, StopCancelledStep
<1>10. CASE Finish(d)
  BY <1>10, FinishStep
<1>11. CASE FinalizeMiss(d)
  BY <1>11, FinalizeMissStep
<1>12. CASE HandoffFails(d)
  BY <1>12, HandoffFailsStep
<1>13. CASE SetRunningFails(d)
  BY <1>13, SetRunningFailsStep
<1>14. CASE Crash(d)
  BY <1>14, CrashStep
<1>15. QED
  BY <1>1, <1>2, <1>3, <1>4, <1>5, <1>6, <1>7, <1>8, <1>9, <1>10, <1>11, <1>12, <1>13, <1>14
     DEF Step

LEMMA NextStep ==
    ASSUME IInv, [Next]_vars
    PROVE  IInv' /\ Lawful(db, db')
<1>1. CASE DispatchNext
  BY <1>1, DispatchNextStep
<1>2. CASE TaskNext
  BY <1>2, ClaimStep, ConsumeStep, RequeueStaleClaimedStep, ReapStaleRunningStep DEF TaskNext
<1>3. CASE NodeNext
  BY <1>3, BeginEvalStep, EndEvalStep, EnqueueReadyStep DEF NodeNext
<1>4. CASE Pause \/ Resume \/ Cancel \/ ExpirePaused \/ CheckCompletion
  BY <1>4, PauseStep, ResumeStep, CancelStep, ExpireStep, CheckCompletionStep
<1>5. CASE UNCHANGED vars
  <2>1. RowsStep /\ DispStep /\ CountStep
    BY <1>5, RowsSame, DispSame, CountSame DEF vars
  <2>2. QED
    BY <2>1, StepSuffices
<1>6. QED
  BY <1>1, <1>2, <1>3, <1>4, <1>5 DEF Next

\* The rows and the outbox agree at every step, and so do the joins.
THEOREM InvariantHolds == Spec => []IInv
<1>1. Init => IInv
  BY InitGood
<1>2. IInv /\ [Next]_vars => IInv'
  BY NextStep
<1>3. QED
  BY <1>1, <1>2, PTL DEF Spec

\* Every row, dispatch and counter keeps its type, whatever the graph.
THEOREM TypeCorrect == Spec => []TypeOK
<1>1. IInv => TypeOK
  BY DEF IInv
<1>2. QED
  BY <1>1, InvariantHolds, PTL

\* A backing task that can still run is the one its node links and waits for.
THEOREM LiveTasksLinked == Spec => []LiveTaskLinked
<1>1. IInv => LiveTaskLinked
  BY DEF IInv, Good, RowsSound, TaskSound, LiveTaskLinked, LiveTasks, Out
<1>2. QED
  BY <1>1, InvariantHolds, PTL

\* No crash, lost claim or race of a stop with a dispatch leaves a node of a workflow
\* that may go on waiting for nothing.
THEOREM NoNodeStranded == Spec => []NodeNeverStranded
<1>1. IInv => NodeNeverStranded
  <2> SUFFICES ASSUME IInv, NEW n \in Node, db.wf \in {"RUNNING", "PAUSED"}, db.node[n].st \in Out
               PROVE  <<n, db.node[n].gen>> \in LiveTasks(db) \cup outbox
    BY DEF NodeNeverStranded, Out
  <2>1. NodeSound(db, outbox, n) /\ db \in Db
    BY DEF IInv, Good, RowsSound
  <2>2. <<n, db.node[n].gen>> \in Task
    BY <2>1, TaskParts DEF NodeSound
  <2>3. QED
    BY <2>1, <2>2 DEF NodeSound, LiveTasks
<1>2. QED
  BY <1>1, InvariantHolds, PTL

\* Among all the tasks a node ever had at most one ran to the end, and a finished
\* node shows the outcome of that one.
THEOREM OneOutcome == Spec => []OneOutcomePerNode
<1>1. IInv => OneOutcomePerNode
  <2> SUFFICES ASSUME IInv, NEW n \in Node
               PROVE  LET ended == {g \in Generation : db.task[<<n, g>>] \in {"COMPLETED", "FAILED"}} IN
                      /\ Cardinality(ended) <= 1
                      /\ db.node[n].st \in {"COMPLETED", "FAILED"}
                         => \E g \in ended : /\ db.node[n] = [st |-> db.task[<<n, g>>], gen |-> g]
                                             /\ <<n, g>> \notin outbox
    BY DEF OneOutcomePerNode
  <2> DEFINE ended == {g \in Generation : db.task[<<n, g>>] \in {"COMPLETED", "FAILED"}}
  <2>1. NodeSound(db, outbox, n) /\ db \in Db
    BY DEF IInv, Good, RowsSound
  <2>2. ASSUME NEW g \in ended PROVE g = db.node[n].gen
    <3>1. TaskSound(db, <<n, g>>) /\ <<n, g>> \in Task
      BY TaskParts DEF IInv, Good, RowsSound
    <3>2. QED
      BY <3>1 DEF TaskSound, Linked, Shown
  <2>3. Cardinality(ended) <= 1
    <3> DEFINE linked == {db.node[n].gen}
    <3>1. ended \in SUBSET linked
      BY <2>2
    <3>2. IsFiniteSet(linked) /\ Cardinality(linked) = 1
      BY FS_Singleton
    <3> HIDE DEF ended, linked
    <3>3. QED
      BY <3>1, <3>2, FS_Subset
  <2>4. ASSUME db.node[n].st \in Shown
        PROVE  \E g \in ended : /\ db.node[n] = [st |-> db.task[<<n, g>>], gen |-> g]
                                /\ <<n, g>> \notin outbox
    <3>1. /\ db.node[n].gen # 0 /\ db.task[<<n, db.node[n].gen>>] = db.node[n].st
          /\ <<n, db.node[n].gen>> \notin outbox
      BY <2>1, <2>4 DEF NodeSound
    <3>2. db.node[n].gen \in Generation
      BY <2>1, <3>1, TaskParts
    <3>3. db.node[n] = [st |-> db.node[n].st, gen |-> db.node[n].gen]
      BY <2>1 DEF Db
    <3>4. db.node[n].gen \in ended
      BY <2>4, <3>1, <3>2 DEF Shown
    <3> HIDE DEF ended
    <3>5. QED
      BY <3>1, <3>3, <3>4
  <2>5. QED
    BY <2>3, <2>4 DEF Shown
<1>2. QED
  BY <1>1, InvariantHolds, PTL

\* A node starts only if its join is met however the open dependencies turn out, and
\* is skipped without a stop only if it cannot be met: for every graph, every kind of
\* join and every interleaving of phase 2, resume and recovery.
THEOREM JoinsRespected == Spec => []JoinRespected
<1>1. IInv => JoinRespected
  BY DEF IInv, Good, Justified, JoinRespected
<1>2. QED
  BY <1>1, InvariantHolds, PTL

\* Backing tasks are made only while the workflow runs, and a workflow that ended keeps
\* its status and takes no outcome.
THEOREM StoppedStays == Spec => StoppedAdvancesNothing
<1>1. IInv /\ [Next]_vars => Lawful(db, db')
  BY NextStep
<1>2. Spec => [][Lawful(db, db')]_vars
  BY <1>1, InvariantHolds, PTL DEF Spec
<1>3. QED
  BY <1>2 DEF StoppedAdvancesNothing, Lawful

-----------------------------------------------------------------------------
(* The refinement of WorkflowContract.  The contract sees of a row its     *)
(* View, and of the tasks of a node the one it links: no other executes or *)
(* has a result.                                                           *)

\* The status of the task that n links.
LinkedTask(s, n) ==
    IF s.node[n].gen = 0 THEN "unused" ELSE s.task[<<n, s.node[n].gen>>]

\* Only the linked task of a node executes or has a result.
LEMMA LinkedTaskTells ==
    ASSUME NEW s, NEW results, RowsSound(s, results), NEW n \in Node
    PROVE  /\ n \in Executing(s) <=> LinkedTask(s, n) = "RUNNING"
           /\ Result(s, n) = IF LinkedTask(s, n) \in Shown THEN LinkedTask(s, n) ELSE "none"
<1> DEFINE g == s.node[n].gen
<1>1. g # 0 => g \in Generation
  BY TaskParts DEF RowsSound
<1>2. 0 \notin Generation
  BY GenerationsTyped DEF Generation
<1>3. ASSUME NEW h \in Generation, s.task[<<n, h>>] \in {"RUNNING"} \cup Shown
      PROVE  h = g
  <2>1. <<n, h>> \in Task /\ <<n, h>>[1] = n /\ <<n, h>>[2] = h
    BY TaskParts
  <2>2. TaskSound(s, <<n, h>>)
    BY <2>1 DEF RowsSound
  <2>3. QED
    BY <1>3, <2>1, <2>2 DEF TaskSound, Linked, Live
<1>4. ASSUME NEW st \in {"RUNNING"} \cup Shown
      PROVE  HasTask(s, n, st) <=> LinkedTask(s, n) = st
  <2>1. HasTask(s, n, st) <=> g \in Generation /\ s.task[<<n, g>>] = st
    BY <1>3, <1>4 DEF HasTask
  <2>2. "unused" \notin {"RUNNING"} \cup Shown
    BY DEF Shown
  <2>3. QED
    BY <1>1, <1>2, <1>4, <2>1, <2>2 DEF LinkedTask
<1>5. /\ HasTask(s, n, "RUNNING") <=> LinkedTask(s, n) = "RUNNING"
      /\ HasTask(s, n, "COMPLETED") <=> LinkedTask(s, n) = "COMPLETED"
      /\ HasTask(s, n, "FAILED") <=> LinkedTask(s, n) = "FAILED"
  BY <1>4 DEF Shown
<1>6. QED
  BY <1>5 DEF Executing, Result, Shown


\* A stopped workflow has no node to decide on, one that ended by itself none that
\* has not ended.
EndedSound(s) ==
    /\ s.wf \in Stopped => \A n \in Node : s.node[n].st # "PENDING"
    /\ s.wf \in Shown => \A n \in Node : s.node[n].st \in NodeDone

Simulates == EndedSound(db') /\ [Contract!Next]_(Contract!cvars)

LEMMA EndedKept ==
    ASSUME NEW s, NEW r, EndedSound(s), r.wf = s.wf,
           \A n \in Node : /\ s.node[n].st \in NodeDone => r.node[n].st \in NodeDone
                           /\ r.node[n].st = "PENDING" => s.node[n].st = "PENDING"
    PROVE  EndedSound(r)
BY DEF EndedSound

LEMMA ViewTells ==
    ASSUME NEW st \in NodeStatus
    PROVE  /\ View(st) = "waiting" <=> st \in {"PENDING", "READY"}
           /\ View(st) = "out" <=> st \in Out
           /\ View(st) \in NodeDone <=> st \in NodeDone
           /\ st \in NodeDone => View(st) = st
           /\ View(st) \in NodeDone \cup {"waiting", "out"}
BY DEF View, NodeStatus, NodeDone, Out

\* The nodes of one view look the same in another.
SameNode(s, r, n) ==
    /\ View(r.node[n].st) = View(s.node[n].st)
    /\ n \in Executing(r) <=> n \in Executing(s)
    /\ Result(r, n) = Result(s, n)

LEMMA Stutter ==
    ASSUME db'.wf = db.wf, \A n \in Node : SameNode(db, db', n)
    PROVE  UNCHANGED Contract!cvars
<1>1. Executing(db') = Executing(db)
  BY DEF SameNode, Executing
<1>2. QED
  BY <1>1 DEF Contract!cvars, SameNode

LEMMA RowsStutter ==
    ASSUME EndedSound(db), db' = db
    PROVE  Simulates
<1>1. UNCHANGED Contract!cvars
  BY Stutter DEF SameNode
<1>2. QED
  BY <1>1 DEF Simulates

\* What executes and what came of it is in the task rows.
LEMMA TasksTell ==
    ASSUME NEW s, NEW r, r.task = s.task
    PROVE  /\ \A n \in Node : n \in Executing(r) <=> n \in Executing(s)
           /\ \A n \in Node : Result(r, n) = Result(s, n)
BY DEF Executing, Result, HasTask

\* One task that lives moves on; its node is out and had no result.
LEMMA TaskMoves ==
    ASSUME IInv, IInv', EndedSound(db), NEW t \in Task, db.task[t] \in Live,
           NEW st \in TaskStatus, db' = SetTasks(db, {t}, st)
    PROVE  /\ t[1] \in Node /\ View(db.node[t[1]].st) = "out"
           /\ db.node[t[1]].st \in Out
           /\ t[1] \in Executing(db) <=> db.task[t] = "RUNNING"
           /\ Result(db, t[1]) = "none"
           /\ t[1] \in Executing(db') <=> st = "RUNNING"
           /\ Result(db', t[1]) = IF st \in Shown THEN st ELSE "none"
           /\ EndedSound(db') /\ db'.wf = db.wf
           /\ \A n \in Node : View(db'.node[n].st) = View(db.node[n].st)
           /\ \A n \in Node \ {t[1]} : SameNode(db, db', n)
<1>1. /\ db'.wf = db.wf /\ db'.node = db.node
      /\ \A u \in Task : db'.task[u] = IF u = t THEN st ELSE db.task[u]
      /\ RowsSound(db, outbox) /\ RowsSound(db', outbox') /\ db \in Db
  <2>1. RowsSound(db, outbox) /\ RowsSound(db', outbox') /\ db \in Db
    BY DEF IInv, Good, RowsSound
  <2>2. QED
    BY <2>1, SetTasksFacts
<1>2. /\ t[1] \in Node /\ t = <<t[1], t[2]>> /\ t[2] # 0
      /\ db.node[t[1]].gen = t[2] /\ db.node[t[1]].st \in Out
  BY <1>1, TaskParts DEF RowsSound, TaskSound, Linked
<1>3. LinkedTask(db, t[1]) = db.task[t] /\ LinkedTask(db', t[1]) = st
  BY <1>1, <1>2 DEF LinkedTask
<1>4. ASSUME NEW n \in Node \ {t[1]} PROVE LinkedTask(db', n) = LinkedTask(db, n)
  <2>1. db.node[n].gen # 0 => <<n, db.node[n].gen>> \in Task
    BY <1>1, TaskParts
  <2>2. <<n, db.node[n].gen>> # t
    BY <1>2
  <2>3. QED
    BY <1>1, <2>1, <2>2 DEF LinkedTask
<1>5. View(db.node[t[1]].st) = "out"
  BY <1>2 DEF View, Out
<1>6. /\ t[1] \in Executing(db) <=> db.task[t] = "RUNNING"
      /\ Result(db, t[1]) = "none"
      /\ t[1] \in Executing(db') <=> st = "RUNNING"
      /\ Result(db', t[1]) = IF st \in Shown THEN st ELSE "none"
  <2>1. db.task[t] \notin Shown
    BY DEF Live, Shown
  <2>2. QED
    BY <1>1, <1>2, <1>3, <2>1, LinkedTaskTells
<1>7. \A n \in Node \ {t[1]} : SameNode(db, db', n)
  BY <1>1, <1>4, LinkedTaskTells DEF SameNode
<1>8. EndedSound(db')
  BY <1>1, EndedKept
<1>9. QED
  BY <1>1, <1>2, <1>5, <1>6, <1>7, <1>8

\* It is claimed, released or requeued: the contract does not see it.
LEMMA WaitingTaskMoves ==
    ASSUME IInv, IInv', EndedSound(db), NEW t \in Task, NEW st \in {"PENDING", "CLAIMED"},
           db.task[t] \in {"PENDING", "CLAIMED"}, db' = SetTasks(db, {t}, st)
    PROVE  Simulates
<1>1. db.task[t] \in Live /\ st \in TaskStatus /\ st \notin Shown
  BY DEF Live, TaskStatus, Shown
<1>2. EndedSound(db') /\ db'.wf = db.wf /\ \A n \in Node : SameNode(db, db', n)
  BY <1>1, TaskMoves DEF SameNode
<1>3. QED
  BY <1>2, Stutter DEF Simulates

\* A start is the contract's Begin: the owner of a claim holds the linked task, and the
\* workflow has not ended by itself, because its node is still out.
LEMMA StartSimulates ==
    ASSUME IInv, IInv', EndedSound(db), NEW t \in Task, db.task[t] = "CLAIMED",
           ~(Linked(db, t) /\ db.wf \in {"PAUSED", "CANCELLED"}),
           db' = SetTasks(db, {t}, "RUNNING")
    PROVE  Simulates
<1> DEFINE n == t[1]
<1>1. db.task[t] \in Live /\ "RUNNING" \in TaskStatus /\ "RUNNING" \notin Shown
  BY DEF Live, TaskStatus, Shown
<1>2. /\ n \in Node /\ View(db.node[n].st) = "out" /\ db.node[n].st \in Out
      /\ n \notin Executing(db) /\ Result(db, n) = "none"
      /\ n \in Executing(db') /\ Result(db', n) = "none"
      /\ EndedSound(db') /\ db'.wf = db.wf
      /\ \A m \in Node : View(db'.node[m].st) = View(db.node[m].st)
      /\ \A m \in Node \ {n} : SameNode(db, db', m)
  BY <1>1, TaskMoves
<1> HIDE DEF n
<1>3. db.wf \in {"RUNNING", "EXPIRED"}
  <2>1. Linked(db, t) /\ db \in Db
    BY <1>1 DEF IInv, Good, RowsSound, TaskSound
  <2>2. db.wf \notin Shown
    BY <1>2 DEF EndedSound, Out, NodeDone
  <2>3. QED
    BY <2>1, <2>2 DEF Db, WorkflowDone, Shown
<1>4. Executing(db') = Executing(db) \cup {n}
  BY <1>2 DEF SameNode, Executing
<1>5. \A m \in Node : Result(db', m) = Result(db, m)
  BY <1>2 DEF SameNode
<1>6. Contract!Begin(n)
  BY <1>2, <1>3, <1>4, <1>5 DEF Contract!Begin, Contract!Idle
<1>7. QED
  BY <1>2, <1>6 DEF Simulates, Contract!Next

\* The end of an attempt is Return or TryAgain.
LEMMA AttemptSimulates ==
    ASSUME IInv, IInv', EndedSound(db), NEW t \in Task, db.task[t] = "RUNNING",
           Settle(t, "COMPLETED") \/ Settle(t, "FAILED") \/ Retry(t)
    PROVE  Simulates
<1> DEFINE n == t[1]
<1>1. PICK st \in Shown \cup {"PENDING"} : db' = SetTasks(db, {t}, st)
  BY DEF Settle, Retry, Shown
<1>2. db.task[t] \in Live /\ st \in TaskStatus /\ st # "RUNNING"
  BY DEF Live, TaskStatus, Shown
<1>3. /\ n \in Node /\ n \in Executing(db) /\ Result(db, n) = "none"
      /\ n \notin Executing(db') /\ Result(db', n) = IF st \in Shown THEN st ELSE "none"
      /\ EndedSound(db') /\ db'.wf = db.wf
      /\ \A m \in Node : View(db'.node[m].st) = View(db.node[m].st)
      /\ \A m \in Node \ {n} : SameNode(db, db', m)
  BY <1>1, <1>2, TaskMoves
<1> HIDE DEF n
<1>4. Executing(db') = Executing(db) \ {n}
  BY <1>3 DEF SameNode, Executing
<1>5. CASE st \in Shown
  <2>1. \A m \in Node : Result(db', m) = IF m = n THEN st ELSE Result(db, m)
    BY <1>3, <1>5 DEF SameNode
  <2>2. [m \in Node |-> Result(db', m)] = [[m \in Node |-> Result(db, m)] EXCEPT ![n] = st]
    BY <1>3, <2>1
  <2>3. Contract!Return(n, st)
    BY <1>3, <1>4, <2>2 DEF Contract!Return
  <2>4. st \in Contract!Outcome
    BY <1>5 DEF Contract!Outcome, Shown
  <2>5. QED
    BY <1>3, <2>3, <2>4 DEF Simulates, Contract!Next
<1>6. CASE st \notin Shown
  <2>1. \A m \in Node : Result(db', m) = Result(db, m)
    BY <1>3, <1>6 DEF SameNode
  <2>2. Contract!TryAgain(n)
    BY <1>3, <1>4, <2>1 DEF Contract!TryAgain
  <2>3. QED
    BY <1>3, <2>2 DEF Simulates, Contract!Next
<1>7. QED
  BY <1>5, <1>6

\* A handoff turns a node that is out, because only such a node links a task.
LEMMA HandoffSimulates ==
    ASSUME IInv, IInv', EndedSound(db), NEW t \in Task, Runnable(db, t),
           db' = SetNodes(db, {t[1]}, "RUNNING")
    PROVE  Simulates
<1>1. RowsSound(db, outbox) /\ db \in Db
  BY DEF IInv, Good, RowsSound
<1>2. /\ db'.wf = db.wf /\ db'.task = db.task
      /\ \A n \in Node : /\ db'.node[n].st = IF n = t[1] THEN "RUNNING" ELSE db.node[n].st
                         /\ db'.node[n].gen = db.node[n].gen
  BY <1>1, SetNodesFacts DEF NodeStatus
<1>3. t[1] \in Node /\ db.node[t[1]].st \in Out
  BY <1>1, TaskParts DEF Runnable, RowsSound, NodeSound, Linked, Out
<1>4. \A n \in Node : View(db'.node[n].st) = View(db.node[n].st)
  BY <1>2, <1>3 DEF View, Out
<1>5. \A n \in Node : SameNode(db, db', n)
  BY <1>2, <1>4, TasksTell DEF SameNode
<1>6. EndedSound(db')
  <2>1. ASSUME NEW n \in Node
        PROVE  /\ db.node[n].st \in NodeDone => db'.node[n].st \in NodeDone
               /\ db'.node[n].st = "PENDING" => db.node[n].st = "PENDING"
    BY <1>2, <1>3 DEF Out, NodeDone
  <2>2. db'.wf = db.wf
    BY <1>2
  <2>3. QED
    BY <2>1, <2>2 DEF EndedSound
<1>7. QED
  BY <1>2, <1>5, <1>6, Stutter DEF Simulates

\* What abandoning claimed rows takes back: nodes that are out, with no run and no
\* result.
LEMMA AbandonView ==
    ASSUME NEW s, NEW results, RowsSound(s, results), NEW T \in SUBSET Task,
           \A t \in T : s.task[t] \in {"CLAIMED", "abandoned"}
    PROVE  LET r == Abandon(s, T)
               K == {n \in Node : <<n, s.node[n].gen>> \in T}
           IN  /\ r.wf = s.wf
               /\ \A n \in K : /\ s.node[n].st \in Out /\ r.node[n].st = "READY"
                               /\ n \notin Executing(s) /\ Result(s, n) = "none"
               /\ \A n \in Node \ K : r.node[n] = s.node[n]
               /\ \A n \in Node : /\ n \in Executing(r) <=> n \in Executing(s)
                                  /\ Result(r, n) = Result(s, n)
<1> DEFINE r == Abandon(s, T)
           K == {n \in Node : <<n, s.node[n].gen>> \in T}
<1>1. RowsSound(r, results) /\ s \in Db
  BY AbandonSound DEF RowsSound
<1>2. /\ r.wf = s.wf
      /\ \A n \in Node : r.node[n] = IF n \in K THEN [st |-> "READY", gen |-> 0] ELSE s.node[n]
      /\ \A t \in Task : r.task[t] = IF t \in T THEN "abandoned" ELSE s.task[t]
  BY <1>1, AbandonFacts
<1> HIDE DEF r
<1>3. ASSUME NEW n \in K
      PROVE  /\ s.node[n].st \in Out /\ s.node[n].gen # 0
             /\ s.task[<<n, s.node[n].gen>>] = "CLAIMED"
  <2> DEFINE t == <<n, s.node[n].gen>>
  <2>1. t \in Task /\ t \in T /\ t[1] = n /\ t[2] = s.node[n].gen
    OBVIOUS
  <2> HIDE DEF t
  <2>2. TaskSound(s, t) /\ Linked(s, t) /\ t[2] # 0
    BY <2>1, TaskParts DEF RowsSound, Linked
  <2>3. s.task[t] = "CLAIMED"
    BY <2>1, <2>2 DEF TaskSound
  <2>4. QED
    BY <2>1, <2>2, <2>3 DEF TaskSound, Live, t
<1>4. ASSUME NEW n \in K
      PROVE  /\ LinkedTask(s, n) = "CLAIMED" /\ LinkedTask(r, n) = "unused"
             /\ r.node[n].st = "READY"
  <2>1. r.node[n] = [st |-> "READY", gen |-> 0]
    BY <1>2
  <2>2. QED
    BY <1>3, <2>1 DEF LinkedTask
<1>5. ASSUME NEW n \in Node \ K
      PROVE  r.node[n] = s.node[n] /\ LinkedTask(r, n) = LinkedTask(s, n)
  <2>1. s.node[n].gen # 0 => <<n, s.node[n].gen>> \in Task
    BY <1>1, TaskParts
  <2>2. QED
    BY <1>2, <2>1 DEF LinkedTask
<1> HIDE DEF K
<1>6. K \subseteq Node
  BY DEF K
<1>7. \A n \in K : n \notin Executing(s) /\ Result(s, n) = "none"
  BY <1>4, <1>6, LinkedTaskTells DEF Shown
<1>8. \A n \in K : n \notin Executing(r) /\ Result(r, n) = "none"
  BY <1>1, <1>4, <1>6, LinkedTaskTells DEF Shown
<1>9. \A n \in Node \ K : /\ n \in Executing(r) <=> n \in Executing(s)
                          /\ Result(r, n) = Result(s, n)
  BY <1>1, <1>5, LinkedTaskTells
<1>10. QED
  BY <1>2, <1>3, <1>4, <1>5, <1>7, <1>8, <1>9 DEF r, K

\* A late release takes back its own node, or the row of an earlier one that no node
\* links any more.
LEMMA ReleaseSimulates ==
    ASSUME IInv, EndedSound(db), NEW t \in Task, db.task[t] \in {"CLAIMED", "abandoned"},
           db' = Abandon(db, {t})
    PROVE  Simulates
<1> DEFINE T == {t}
           K == {n \in Node : <<n, db.node[n].gen>> \in T}
<1>1. /\ RowsSound(db, outbox) /\ T \in SUBSET Task
      /\ \A u \in T : db.task[u] \in {"CLAIMED", "abandoned"}
  BY DEF IInv, Good
<1>2. db' = Abandon(db, T)
  OBVIOUS
<1>3. K \subseteq Node /\ \A m \in K, n \in K : m = n
  BY TaskParts
<1> HIDE DEF T
<1>4. /\ db'.wf = db.wf
      /\ \A n \in K : /\ db.node[n].st \in Out /\ db'.node[n].st = "READY"
                      /\ n \notin Executing(db) /\ Result(db, n) = "none"
      /\ \A n \in Node \ K : db'.node[n] = db.node[n]
      /\ \A n \in Node : /\ n \in Executing(db') <=> n \in Executing(db)
                         /\ Result(db', n) = Result(db, n)
  <2> DEFINE r == Abandon(db, T)
  <2>1. /\ r.wf = db.wf
        /\ \A n \in K : /\ db.node[n].st \in Out /\ r.node[n].st = "READY"
                        /\ n \notin Executing(db) /\ Result(db, n) = "none"
        /\ \A n \in Node \ K : r.node[n] = db.node[n]
        /\ \A n \in Node : /\ n \in Executing(r) <=> n \in Executing(db)
                           /\ Result(r, n) = Result(db, n)
    BY <1>1, AbandonView
  <2>2. QED
    BY <1>2, <2>1
<1> HIDE DEF K
<1>5. EndedSound(db')
  <2>1. ASSUME NEW n \in Node
        PROVE  /\ db.node[n].st \in NodeDone => db'.node[n].st \in NodeDone
               /\ db'.node[n].st = "PENDING" => db.node[n].st = "PENDING"
    BY <1>4 DEF Out, NodeDone
  <2>2. QED
    BY <1>4, <2>1, EndedKept
<1>6. CASE K = {}
  <2>1. \A n \in Node : SameNode(db, db', n)
    BY <1>4, <1>6 DEF SameNode
  <2>2. QED
    BY <1>4, <1>5, <2>1, Stutter DEF Simulates
<1>7. CASE K # {}
  <2>1. PICK n \in Node : n \in K
    BY <1>3, <1>7
  <2>2. K = {n}
    BY <1>3, <2>1
  <2>3. db.wf \notin Contract!Outcome
    BY <1>4, <2>1 DEF EndedSound, Out, NodeDone, Shown, Contract!Outcome
  <2>4. View(db.node[n].st) = "out" /\ View(db'.node[n].st) = "waiting"
    BY <1>4, <2>1 DEF View, Out
  <2>5. n \in Contract!Idle
    BY <1>4, <2>1, <2>4 DEF Contract!Idle
  <2>6. [m \in Node |-> View(db'.node[m].st)]
        = Contract!TakenBack([m \in Node |-> View(db.node[m].st)], {n})
    BY <1>4, <2>2, <2>4 DEF Contract!TakenBack
  <2>7. Executing(db') = Executing(db)
    BY <1>4 DEF Executing
  <2>8. Contract!TakeBack(n)
    BY <1>4, <2>3, <2>5, <2>6, <2>7 DEF Contract!TakeBack
  <2>9. QED
    BY <1>5, <2>8 DEF Simulates, Contract!Next
<1>8. QED
  BY <1>6, <1>7

\* A pause takes back some of them and pauses.
LEMMA PauseView ==
    ASSUME NEW s, NEW results, RowsSound(s, results), s.wf = "RUNNING",
           NEW T \in SUBSET Relocatable(s)
    PROVE  LET r == PauseTree(s, T)
               K == {n \in Node : <<n, s.node[n].gen>> \in T}
           IN  /\ r.wf = "PAUSED"
               /\ \A n \in K : /\ s.node[n].st \in Out /\ r.node[n].st = "READY"
                               /\ n \notin Executing(s) /\ Result(s, n) = "none"
               /\ \A n \in Node \ K : r.node[n] = s.node[n]
               /\ \A n \in Node : /\ n \in Executing(r) <=> n \in Executing(s)
                                  /\ Result(r, n) = Result(s, n)
<1> DEFINE m == [s EXCEPT !.wf = "PAUSED"]
           r == Abandon(m, T)
           K == {n \in Node : <<n, s.node[n].gen>> \in T}
           L == {n \in Node : <<n, m.node[n].gen>> \in T}
<1>1. m \in Db /\ m.wf = "PAUSED" /\ m.node = s.node /\ m.task = s.task
  BY WfFacts DEF RowsSound
<1>2. PauseTree(s, T) = r
  BY DEF PauseTree
<1> HIDE DEF m
<1>3. RowsSound(m, results)
  BY <1>1, WfSound
<1>4. T \in SUBSET Task /\ \A t \in T : m.task[t] \in {"CLAIMED", "abandoned"}
  BY <1>1 DEF Relocatable
<1>5. /\ r.wf = m.wf
      /\ \A n \in L : /\ m.node[n].st \in Out /\ r.node[n].st = "READY"
                      /\ n \notin Executing(m) /\ Result(m, n) = "none"
      /\ \A n \in Node \ L : r.node[n] = m.node[n]
      /\ \A n \in Node : /\ n \in Executing(r) <=> n \in Executing(m)
                         /\ Result(r, n) = Result(m, n)
  BY <1>3, <1>4, AbandonView
<1>6. K = L /\ K \subseteq Node
  BY <1>1
<1> HIDE DEF K, L, r
<1>7. \A n \in Node : /\ n \in Executing(m) <=> n \in Executing(s)
                      /\ Result(m, n) = Result(s, n)
  BY <1>1, TasksTell
<1>8. QED
  BY <1>1, <1>2, <1>5, <1>6, <1>7 DEF K

\* A cancelled workflow has one of its tasks cancelled on the way to execution.
LEMMA CancelView ==
    ASSUME NEW s, NEW results, RowsSound(s, results), s.wf = "CANCELLED",
           NEW t \in Task, s.task[t] \in {"PENDING", "CLAIMED", "cancelled"}
    PROVE  LET r == CancelNode(s, t)
               Late(n) == n = t[1] /\ Linked(s, t) /\ s.node[n].st = "ENQUEUED"
           IN  /\ r.wf = s.wf
               /\ \A n \in Node : r.node[n].st = IF Late(n) THEN "SKIPPED" ELSE s.node[n].st
               /\ \A n \in Node : Late(n) => n \notin Executing(s) /\ Result(s, n) = "none"
               /\ \A n \in Node : /\ n \in Executing(r) <=> n \in Executing(s)
                                  /\ Result(r, n) = Result(s, n)
<1> DEFINE r == CancelNode(s, t)
           Late(n) == n = t[1] /\ Linked(s, t) /\ s.node[n].st = "ENQUEUED"
<1>1. RowsSound(r, results) /\ s \in Db
  BY CancelSound DEF RowsSound, Live
<1>2. /\ r.wf = s.wf
      /\ \A n \in Node :
           /\ r.node[n].gen = s.node[n].gen
           /\ r.node[n].st = IF /\ n = t[1] /\ Linked(s, t)
                                /\ s.node[n].st \in {"PENDING", "READY", "ENQUEUED"}
                             THEN "SKIPPED" ELSE s.node[n].st
      /\ \A u \in Task : r.task[u] = IF u = t THEN "cancelled" ELSE s.task[u]
  BY <1>1, CancelNodeFacts
<1> HIDE DEF r
<1>3. t[1] \in Node /\ t = <<t[1], t[2]>> /\ t[2] # 0
  BY TaskParts
<1>4. Linked(s, t) => s.node[t[1]].st \notin {"PENDING", "READY"}
  BY <1>3 DEF RowsSound, NodeSound, Linked
<1>5. \A n \in Node : r.node[n].st = IF Late(n) THEN "SKIPPED" ELSE s.node[n].st
  BY <1>2, <1>4
<1>6. ASSUME NEW n \in Node
      PROVE  \/ LinkedTask(r, n) = LinkedTask(s, n) /\ ~Late(n)
             \/ {LinkedTask(r, n), LinkedTask(s, n)} \cap ({"RUNNING"} \cup Shown) = {}
  <2>1. CASE n = t[1] /\ Linked(s, t)
    <3>1. LinkedTask(r, n) = "cancelled" /\ LinkedTask(s, n) = s.task[t]
      BY <1>2, <1>3, <2>1 DEF LinkedTask, Linked
    <3>2. QED
      BY <3>1 DEF Shown
  <2>2. CASE ~(n = t[1] /\ Linked(s, t))
    <3>1. s.node[n].gen # 0 => <<n, s.node[n].gen>> \in Task
      BY <1>1, TaskParts
    <3>2. <<n, s.node[n].gen>> # t
      BY <1>3, <2>2 DEF Linked
    <3>3. QED
      BY <1>2, <2>2, <3>1, <3>2 DEF LinkedTask
  <2>3. QED
    BY <2>1, <2>2
<1>7. ASSUME NEW n \in Node
      PROVE  /\ n \in Executing(r) <=> n \in Executing(s)
             /\ Result(r, n) = Result(s, n)
             /\ Late(n) => n \notin Executing(s) /\ Result(s, n) = "none"
  BY <1>1, <1>6, LinkedTaskTells
<1>8. QED
  BY <1>2, <1>5, <1>7 DEF r

\* Nodes that are sent out have neither a run nor a result.
LEMMA EnqueueView ==
    ASSUME NEW s, NEW results, RowsSound(s, results), NEW S \in SUBSET Node, Spare(s, S),
           \A n \in S : s.node[n].st \in {"PENDING", "READY"}
    PROVE  LET r == Enqueue(s, S) IN
           /\ r.wf = s.wf
           /\ \A n \in Node : r.node[n].st = IF n \in S THEN "ENQUEUED" ELSE s.node[n].st
           /\ \A n \in Node : /\ n \in Executing(r) <=> n \in Executing(s)
                              /\ Result(r, n) = Result(s, n)
<1> DEFINE r == Enqueue(s, S)
<1>1. RowsSound(r, results) /\ s \in Db
  BY EnqueueSound DEF RowsSound
<1>2. /\ r.wf = s.wf
      /\ \A n \in Node : r.node[n] = IF n \in S THEN [st |-> "ENQUEUED", gen |-> Fresh(s, n)]
                                     ELSE s.node[n]
      /\ \A t \in Task : r.task[t] = IF t[1] \in S /\ t[2] = Fresh(s, t[1]) THEN "PENDING"
                                     ELSE s.task[t]
  BY <1>1, EnqueueFacts
<1> HIDE DEF r
<1>3. ASSUME NEW n \in S
      PROVE  /\ LinkedTask(s, n) = "unused" /\ LinkedTask(r, n) = "PENDING"
             /\ r.node[n].st = "ENQUEUED"
  <2>1. s.node[n].gen = 0
    BY DEF RowsSound, NodeSound
  <2>2. Fresh(s, n) \in Generation
    BY FreshUnused DEF Spare
  <2>3. /\ <<n, Fresh(s, n)>> \in Task /\ Fresh(s, n) # 0
        /\ <<n, Fresh(s, n)>>[1] = n /\ <<n, Fresh(s, n)>>[2] = Fresh(s, n)
    BY <2>2, TaskParts
  <2>4. r.node[n].st = "ENQUEUED" /\ r.node[n].gen = Fresh(s, n)
    <3>1. r.node[n] = [st |-> "ENQUEUED", gen |-> Fresh(s, n)]
      BY <1>2
    <3>2. QED
      BY <3>1
  <2>5. r.task[<<n, Fresh(s, n)>>] = "PENDING"
    BY <1>2, <2>3
  <2>6. QED
    BY <2>1, <2>3, <2>4, <2>5 DEF LinkedTask
<1>4. ASSUME NEW n \in Node \ S
      PROVE  LinkedTask(r, n) = LinkedTask(s, n) /\ r.node[n] = s.node[n]
  <2>1. s.node[n].gen # 0 => <<n, s.node[n].gen>> \in Task /\ <<n, s.node[n].gen>>[1] = n
    BY <1>1, TaskParts
  <2>2. QED
    BY <1>2, <2>1 DEF LinkedTask
<1>5. ASSUME NEW n \in Node
      PROVE  /\ n \in Executing(r) <=> n \in Executing(s)
             /\ Result(r, n) = Result(s, n)
  <2>1. \/ LinkedTask(r, n) = LinkedTask(s, n)
        \/ {LinkedTask(r, n), LinkedTask(s, n)} \cap ({"RUNNING"} \cup Shown) = {}
    BY <1>3, <1>4 DEF Shown
  <2>2. QED
    BY <1>1, <2>1, LinkedTaskTells
<1>6. QED
  BY <1>2, <1>3, <1>4, <1>5 DEF r

\* A pause is the contract's Pause.
LEMMA PauseSimulates ==
    ASSUME IInv, EndedSound(db), db.wf = "RUNNING", NEW T \in SUBSET Relocatable(db),
           db' = PauseTree(db, T)
    PROVE  Simulates
<1> DEFINE K == {n \in Node : <<n, db.node[n].gen>> \in T}
           r == PauseTree(db, T)
<1>1. RowsSound(db, outbox) /\ K \subseteq Node
  BY DEF IInv, Good
<1>2. /\ r.wf = "PAUSED"
      /\ \A n \in K : /\ db.node[n].st \in Out /\ r.node[n].st = "READY"
                      /\ n \notin Executing(db) /\ Result(db, n) = "none"
      /\ \A n \in Node \ K : r.node[n] = db.node[n]
      /\ \A n \in Node : /\ n \in Executing(r) <=> n \in Executing(db)
                         /\ Result(r, n) = Result(db, n)
  BY <1>1, PauseView
<1>3. db' = r
  OBVIOUS
<1> HIDE DEF K, r
<1>4. \A n \in Node : View(db'.node[n].st) = IF n \in K THEN "waiting" ELSE View(db.node[n].st)
  BY <1>2, <1>3 DEF View
<1>5. \A n \in K : View(db.node[n].st) = "out"
  BY <1>2 DEF View, Out
<1>6. K \in SUBSET Contract!Idle
  BY <1>1, <1>2, <1>5 DEF Contract!Idle
<1>7. [n \in Node |-> View(db'.node[n].st)]
      = Contract!TakenBack([n \in Node |-> View(db.node[n].st)], K)
  BY <1>4 DEF Contract!TakenBack
<1>8. Executing(db') = Executing(db) /\ \A n \in Node : Result(db', n) = Result(db, n)
  BY <1>2, <1>3 DEF Executing
<1>9. db'.wf = "PAUSED"
  BY <1>2, <1>3
<1>10. Contract!Pause
  BY <1>6, <1>7, <1>8, <1>9 DEF Contract!Pause
<1>11. EndedSound(db')
  BY <1>9 DEF EndedSound, Stopped, Shown
<1>12. QED
  BY <1>10, <1>11 DEF Simulates, Contract!Next

\* A late cancel of a task is the contract's StopLate, unless its node started or ended.
LEMMA CancelSimulates ==
    ASSUME IInv, EndedSound(db), db.wf = "CANCELLED", NEW t \in Task,
           db.task[t] \in {"PENDING", "CLAIMED", "cancelled"}, db' = CancelNode(db, t)
    PROVE  Simulates
<1> DEFINE n == t[1]
           late == Linked(db, t) /\ db.node[n].st = "ENQUEUED"
           r == CancelNode(db, t)
<1>1. RowsSound(db, outbox) /\ n \in Node
  BY TaskParts DEF IInv, Good
<1>2. /\ r.wf = db.wf
      /\ \A m \in Node : r.node[m].st = IF m = n /\ late THEN "SKIPPED" ELSE db.node[m].st
      /\ late => n \notin Executing(db) /\ Result(db, n) = "none"
      /\ \A m \in Node : /\ m \in Executing(r) <=> m \in Executing(db)
                         /\ Result(r, m) = Result(db, m)
  BY <1>1, CancelView
<1>3. db' = r /\ (late => View(db.node[n].st) = "out")
  BY DEF View
<1> HIDE DEF n, late, r
<1>4. EndedSound(db')
  <2>1. ASSUME NEW m \in Node
        PROVE  /\ db.node[m].st \in NodeDone => db'.node[m].st \in NodeDone
               /\ db'.node[m].st = "PENDING" => db.node[m].st = "PENDING"
    BY <1>2, <1>3 DEF NodeDone
  <2>2. db'.wf = db.wf
    BY <1>2, <1>3
  <2>3. QED
    BY <2>1, <2>2 DEF EndedSound
<1>5. CASE ~late
  <2>1. \A m \in Node : SameNode(db, db', m)
    BY <1>2, <1>3, <1>5 DEF SameNode
  <2>2. QED
    BY <1>2, <1>3, <1>4, <2>1, Stutter DEF Simulates
<1>6. CASE late
  <2>1. \A m \in Node : View(db'.node[m].st) = IF m = n THEN "SKIPPED" ELSE View(db.node[m].st)
    BY <1>2, <1>3, <1>6 DEF View
  <2>2. [m \in Node |-> View(db'.node[m].st)]
        = [[m \in Node |-> View(db.node[m].st)] EXCEPT ![n] = "SKIPPED"]
    BY <2>1
  <2>3. Executing(db') = Executing(db) /\ \A m \in Node : Result(db', m) = Result(db, m)
    BY <1>2, <1>3 DEF Executing
  <2>4. n \in Contract!Idle
    BY <1>1, <1>2, <1>3, <1>6 DEF Contract!Idle
  <2>5. Contract!StopLate(n)
    BY <1>2, <1>3, <2>2, <2>3, <2>4 DEF Contract!StopLate
  <2>6. QED
    BY <1>1, <1>4, <2>5 DEF Simulates, Contract!Next
<1>7. QED
  BY <1>5, <1>6

\* A stop ends what waits, and what is out with a task nobody started.
LEMMA StopView ==
    ASSUME NEW s, NEW results, RowsSound(s, results), s.wf \in {"RUNNING", "PAUSED"},
           NEW wf \in Stopped
    PROVE  LET r == StopWorkflow(s, wf)
               K == {n \in Node : s.node[n].st = "ENQUEUED" /\ LinkedTask(s, n) \in Live}
           IN  /\ r.wf = wf
               /\ \A n \in Node :
                    r.node[n].st = IF s.node[n].st \in {"PENDING", "READY"} \/ n \in K
                                   THEN "SKIPPED" ELSE s.node[n].st
               /\ \A n \in K : Result(s, n) = "none"
               /\ \A n \in Node : /\ n \in Executing(r) <=> n \in Executing(s) /\ n \notin K
                                  /\ Result(r, n) = Result(s, n)
<1> DEFINE r == StopWorkflow(s, wf)
           Moved(t) == s.task[t] \in Live /\ Linked(s, t) /\ s.node[t[1]].st = "ENQUEUED"
           K == {n \in Node : s.node[n].st = "ENQUEUED" /\ LinkedTask(s, n) \in Live}
<1>1. RowsSound(r, results) /\ s \in Db /\ wf \in WorkflowDone
  BY StopSound DEF RowsSound, Stopped, WorkflowDone
<1>2. /\ r.wf = wf
      /\ \A n \in Node :
           /\ r.node[n].gen = s.node[n].gen
           /\ r.node[n].st = IF \/ s.node[n].st \in {"PENDING", "READY"}
                                \/ /\ s.node[n].st = "ENQUEUED"
                                   /\ <<n, s.node[n].gen>> \in Task
                                   /\ Moved(<<n, s.node[n].gen>>)
                             THEN "SKIPPED" ELSE s.node[n].st
      /\ \A t \in Task : r.task[t] = IF Moved(t) THEN "cancelled" ELSE s.task[t]
  BY <1>1, StopWorkflowFacts
<1> HIDE DEF r
<1>3. ASSUME NEW n \in Node
      PROVE  /\ n \in K <=> /\ s.node[n].st = "ENQUEUED" /\ <<n, s.node[n].gen>> \in Task
                            /\ Moved(<<n, s.node[n].gen>>)
             /\ LinkedTask(r, n) = IF n \in K THEN "cancelled" ELSE LinkedTask(s, n)
  <2> DEFINE t == <<n, s.node[n].gen>>
  <2>1. s.node[n].gen # 0 => t \in Task
    BY <1>1, TaskParts
  <2>2. "unused" \notin Live /\ 0 \notin Generation
    BY GenerationsTyped DEF Live, Generation
  <2>3. t \in Task => s.node[n].gen # 0
    BY TaskParts
  <2>4. t[1] = n /\ Linked(s, t)
    BY DEF Linked
  <2>5. LinkedTask(s, n) = IF s.node[n].gen = 0 THEN "unused" ELSE s.task[t]
    BY DEF LinkedTask
  <2>6. LinkedTask(r, n) = IF s.node[n].gen = 0 THEN "unused" ELSE r.task[t]
    BY <1>2 DEF LinkedTask
  <2> HIDE DEF t
  <2>7. n \in K <=> s.node[n].st = "ENQUEUED" /\ t \in Task /\ Moved(t)
    BY <2>1, <2>2, <2>3, <2>4, <2>5
  <2>8. t \in Task => r.task[t] = IF Moved(t) THEN "cancelled" ELSE s.task[t]
    BY <1>2
  <2>9. Moved(t) => s.node[n].st = "ENQUEUED"
    BY <2>4
  <2> HIDE DEF Moved, K
  <2>10. LinkedTask(r, n) = IF n \in K THEN "cancelled" ELSE LinkedTask(s, n)
    BY <2>1, <2>3, <2>5, <2>6, <2>7, <2>8, <2>9
  <2>11. QED
    BY <2>7, <2>10 DEF t
<1>4. \A n \in K : LinkedTask(s, n) \in Live
  OBVIOUS
<1> HIDE DEF Moved, K
<1>5. ASSUME NEW n \in Node
      PROVE  /\ n \in Executing(r) <=> n \in Executing(s) /\ n \notin K
             /\ Result(r, n) = Result(s, n)
             /\ n \in K => Result(s, n) = "none"
  <2>1. n \in K => LinkedTask(s, n) \notin Shown
    BY <1>4 DEF Live, Shown
  <2>2. QED
    BY <1>1, <1>3, <2>1, LinkedTaskTells DEF Shown
<1>6. \A n \in Node : r.node[n].st = IF s.node[n].st \in {"PENDING", "READY"} \/ n \in K
                                     THEN "SKIPPED" ELSE s.node[n].st
  BY <1>2, <1>3
<1>7. K \subseteq Node
  BY DEF K
<1>8. QED
  BY <1>2, <1>5, <1>6, <1>7 DEF r, K

\* A cancel and an expiry are the contract's Stop.
LEMMA StopSimulates ==
    ASSUME IInv, EndedSound(db), NEW wf \in Stopped, db' = StopWorkflow(db, wf),
           \/ wf = "CANCELLED" /\ db.wf \in {"RUNNING", "PAUSED"}
           \/ wf = "EXPIRED" /\ db.wf = "PAUSED"
    PROVE  Simulates
<1> DEFINE r == StopWorkflow(db, wf)
           K == {n \in Node : db.node[n].st = "ENQUEUED" /\ LinkedTask(db, n) \in Live}
<1>1. RowsSound(db, outbox) /\ db.wf \in {"RUNNING", "PAUSED"}
  BY DEF IInv, Good
<1>2. /\ r.wf = wf
      /\ \A n \in Node :
           r.node[n].st = IF db.node[n].st \in {"PENDING", "READY"} \/ n \in K
                          THEN "SKIPPED" ELSE db.node[n].st
      /\ \A n \in K : Result(db, n) = "none"
      /\ \A n \in Node : /\ n \in Executing(r) <=> n \in Executing(db) /\ n \notin K
                         /\ Result(r, n) = Result(db, n)
  BY <1>1, StopView
<1>3. db' = r /\ K \subseteq Node /\ \A n \in K : View(db.node[n].st) = "out"
  BY DEF View
<1> HIDE DEF r, K
<1>4. ASSUME NEW n \in Node
      PROVE  View(db.node[n].st) = "waiting" <=> db.node[n].st \in {"PENDING", "READY"}
  <2>1. db.node[n].st \in NodeStatus
    BY <1>1 DEF RowsSound, Db
  <2>2. QED
    BY <2>1, ViewTells
<1>5. ASSUME NEW n \in Node
      PROVE  View(db'.node[n].st) = IF n \in K \/ View(db.node[n].st) = "waiting"
                                    THEN "SKIPPED" ELSE View(db.node[n].st)
  <2>1. View("SKIPPED") = "SKIPPED"
    BY DEF View
  <2>2. QED
    BY <1>2, <1>3, <1>4, <2>1
<1>6. Executing(db') = Executing(db) \ K
  BY <1>2, <1>3 DEF Executing
<1>7. \A n \in Node : Result(db', n) = Result(db, n)
  BY <1>2, <1>3
<1>8. Contract!Stop(wf)
  BY <1>2, <1>3, <1>5, <1>6, <1>7 DEF Contract!Stop
<1>9. EndedSound(db')
  BY <1>2, <1>3 DEF EndedSound, Stopped, Shown
<1>10. QED
  BY <1>8, <1>9 DEF Simulates, Contract!Next, Stopped

LEMMA ResumeSimulates ==
    ASSUME IInv, EndedSound(db), Resume
    PROVE  Simulates
<1>1. db \in Db /\ db.wf = "PAUSED" /\ db' = [db EXCEPT !.wf = "RUNNING"]
  BY DEF Resume, IInv, TypeOK
<1>2. db'.wf = "RUNNING" /\ db'.node = db.node /\ db'.task = db.task
  BY <1>1, WfFacts
<1>3. Executing(db') = Executing(db) /\ \A n \in Node : Result(db', n) = Result(db, n)
  BY <1>2, TasksTell DEF Executing
<1>4. Contract!Resume
  BY <1>1, <1>2, <1>3 DEF Contract!Resume
<1>5. EndedSound(db')
  BY <1>2 DEF EndedSound, Stopped, Shown
<1>6. QED
  BY <1>4, <1>5 DEF Simulates, Contract!Next

\* The contract decides about a node by what ended among its dependencies.
Views(s) == [n \in Node |-> View(s.node[n].st)]

LEMMA ContractDecides ==
    ASSUME NEW s \in Db, NEW n \in Node
    PROVE  /\ Contract!MayStart(Views(s), n) <=>
                (Deps[n] # {} => /\ \A f \in Futures(Status(s), n) : Met(f, n)
                                 /\ Awaited(n) \cap Open(Status(s), n) = {})
           /\ Contract!Lost(Views(s), n) <=> \A f \in Futures(Status(s), n) : ~Met(f, n)
<1> DEFINE v == Views(s)
           st == Status(s)
<1>1. \A m \in Node : /\ st[m] = s.node[m].st /\ st[m] \in NodeStatus /\ v[m] = View(st[m])
  BY StatusTyped DEF Statuses, Views
<1>2. Contract!Ended = NodeDone
  BY DEF Contract!Ended, NodeDone
<1>3. \A m \in Node : /\ v[m] \in NodeDone <=> st[m] \in NodeDone
                      /\ st[m] \in NodeDone => v[m] = st[m]
  BY <1>1, ViewTells
<1> HIDE DEF v, st
<1>4. Contract!Futures(v, n) = Futures(st, n)
  BY <1>2, <1>3, NodesTyped DEF Contract!Futures, Futures
<1>5. \A f : Contract!Met(f, n) <=> Met(f, n)
  <2>1. \A S : Contract!Cardinality(S) = Cardinality(S)
    BY DEF Contract!Cardinality, Cardinality
  <2>2. QED
    BY <2>1 DEF Contract!Met, Met
<1>6. Awaited(n) \subseteq Node /\ Awaited(n) \subseteq Deps[n] /\ Contract!Awaited(n) = Awaited(n)
  BY NodesTyped DEF Awaited, Contract!Awaited
<1>7. (\A m \in Awaited(n) : v[m] \in NodeDone) <=> Awaited(n) \cap Open(st, n) = {}
  BY <1>3, <1>6 DEF Open
<1>8. QED
  BY <1>2, <1>4, <1>5, <1>6, <1>7 DEF Contract!MayStart, Contract!Lost, v, st

\* Verdicts of the engine are verdicts of the contract, and what was ready or started
\* stays decided.
LEMMA VerdictsAgree ==
    ASSUME NEW s \in Db, NEW n \in Node
    PROVE  /\ CanRun(Status(s), n) => Contract!MayStart(Views(s), n)
           /\ CannotRun(Status(s), n) => Contract!Lost(Views(s), n)
           /\ StartJustified(s, n) /\ s.node[n].st \notin {"PENDING", "SKIPPED"}
              => Contract!MayStart(Views(s), n)
           /\ SkipJustified(s, n) /\ s.node[n].st = "SKIPPED" /\ s.wf \notin Stopped
              => Contract!Lost(Views(s), n)
<1>1. Status(s) \in Statuses
  BY StatusTyped
<1>2. CanRun(Status(s), n) => Contract!MayStart(Views(s), n)
  <2>1. CanRun(Status(s), n) => \A f \in Futures(Status(s), n) : Met(f, n)
    BY <1>1, CanRunMet
  <2>2. CanRun(Status(s), n) => Awaited(n) \cap Open(Status(s), n) = {}
    BY CanRunAwaited
  <2>3. QED
    BY <2>1, <2>2, ContractDecides
<1>3. CannotRun(Status(s), n) => Contract!Lost(Views(s), n)
  <2>1. CannotRun(Status(s), n) => \A f \in Futures(Status(s), n) : ~Met(f, n)
    BY <1>1, CannotRunLost
  <2>2. QED
    BY <2>1, ContractDecides
<1>4. StartJustified(s, n) /\ s.node[n].st \notin {"PENDING", "SKIPPED"}
      => Contract!MayStart(Views(s), n)
  BY ContractDecides DEF StartJustified
<1>5. SkipJustified(s, n) /\ s.node[n].st = "SKIPPED" /\ s.wf \notin Stopped
      => Contract!Lost(Views(s), n)
  BY ContractDecides DEF SkipJustified
<1>6. QED
  BY <1>2, <1>3, <1>4, <1>5

\* The completion check is the contract's Finish.
LEMMA CompleteView ==
    ASSUME NEW s \in Db
    PROVE  LET r == Complete(s) IN
           /\ r.node = s.node /\ r.task = s.task
           /\ s.wf = "RUNNING" =>
                r.wf = IF \E n \in Node : s.node[n].st \notin NodeDone THEN "RUNNING"
                       ELSE IF \E n \in Node : s.node[n].st = "FAILED" THEN "FAILED"
                       ELSE "COMPLETED"
           /\ s.wf # "RUNNING" => r = s
<1> DEFINE wf == IF \E n \in Node : s.node[n].st = "FAILED" THEN "FAILED" ELSE "COMPLETED"
           r == [s EXCEPT !.wf = wf]
<1>1. r.wf = wf /\ r.node = s.node /\ r.task = s.task
  BY WfFacts DEF WorkflowDone
<1>2. Complete(s) = IF s.wf = "RUNNING" /\ \A n \in Node : s.node[n].st \in NodeDone
                    THEN r ELSE s
  BY DEF Complete
<1> HIDE DEF r
<1>3. QED
  BY <1>1, <1>2

LEMMA CompletionSimulates ==
    ASSUME IInv, EndedSound(db), db' = Complete(db), db' # db
    PROVE  Simulates
<1>1. db \in Db
  BY DEF IInv, TypeOK
<1>2. /\ db'.node = db.node /\ db'.task = db.task
      /\ db.wf = "RUNNING" /\ \A n \in Node : db.node[n].st \in NodeDone
      /\ db'.wf = IF \E n \in Node : db.node[n].st = "FAILED" THEN "FAILED" ELSE "COMPLETED"
  <2>1. db.wf = "RUNNING" /\ \A n \in Node : db.node[n].st \in NodeDone
    BY DEF Complete
  <2>2. QED
    BY <1>1, <2>1, CompleteView
<1>3. \A n \in Node : View(db.node[n].st) = db.node[n].st
  BY <1>2 DEF View, NodeDone
<1>4. Executing(db') = Executing(db) /\ \A n \in Node : Result(db', n) = Result(db, n)
  BY <1>2, TasksTell DEF Executing
<1>5. Contract!Finish
  BY <1>2, <1>3, <1>4 DEF Contract!Finish, Contract!Ended, NodeDone
<1>6. EndedSound(db')
  BY <1>2 DEF EndedSound, Stopped
<1>7. QED
  BY <1>5, <1>6 DEF Simulates, Contract!Next

\* A node sent out by a resume or recovery is the contract's Send.
LEMMA SendSimulates ==
    ASSUME IInv, EndedSound(db), NEW n \in Node, db.wf = "RUNNING", Spare(db, {n}),
           \/ db.node[n].st = "READY"
           \/ db.node[n].st = "PENDING" /\ CanRun(Status(db), n),
           db' = Enqueue(db, {n})
    PROVE  Simulates
<1> DEFINE S == {n}
           r == Enqueue(db, S)
<1>1. /\ RowsSound(db, outbox) /\ db \in Db /\ StartJustified(db, n)
      /\ S \in SUBSET Node /\ \A m \in S : db.node[m].st \in {"PENDING", "READY"}
      /\ Spare(db, S)
  BY DEF IInv, TypeOK, Good, Justified
<1>2. db' = r /\ \A m \in Node : m \in S <=> m = n
  OBVIOUS
<1> HIDE DEF S
<1>3. /\ r.wf = db.wf
      /\ \A m \in Node : r.node[m].st = IF m \in S THEN "ENQUEUED" ELSE db.node[m].st
      /\ \A m \in Node : /\ m \in Executing(r) <=> m \in Executing(db)
                         /\ Result(r, m) = Result(db, m)
  BY <1>1, EnqueueView
<1> HIDE DEF r
<1>4. Contract!MayStart(Views(db), n) /\ View(db.node[n].st) = "waiting"
  BY <1>1, VerdictsAgree DEF View
<1>5. \A m \in Node : View(db'.node[m].st) = IF m = n THEN "out" ELSE View(db.node[m].st)
  BY <1>2, <1>3 DEF View
<1>6. [m \in Node |-> View(db'.node[m].st)]
      = [[m \in Node |-> View(db.node[m].st)] EXCEPT ![n] = "out"]
  BY <1>5
<1>7. Executing(db') = Executing(db) /\ \A m \in Node : Result(db', m) = Result(db, m)
  BY <1>2, <1>3 DEF Executing
<1>8. db'.wf = "RUNNING"
  BY <1>2, <1>3
<1>9. Contract!Send(n)
  BY <1>4, <1>6, <1>7, <1>8 DEF Contract!Send, Views
<1>10. EndedSound(db')
  BY <1>8 DEF EndedSound, Stopped, Shown
<1>11. QED
  BY <1>9, <1>10 DEF Simulates, Contract!Next

\* A skip is the contract's Skip: a stopped workflow has nothing left to skip.
LEMMA SkipSimulates ==
    ASSUME IInv, EndedSound(db), NEW n \in Node, db.node[n].st = "PENDING",
           CannotRun(Status(db), n), db' = SetNodes(db, {n}, "SKIPPED")
    PROVE  Simulates
<1>1. db \in Db
  BY DEF IInv, TypeOK
<1>2. /\ db'.wf = db.wf /\ db'.task = db.task
      /\ \A m \in Node : db'.node[m].st = IF m = n THEN "SKIPPED" ELSE db.node[m].st
  BY <1>1, SetNodesFacts DEF NodeStatus
<1>3. db.wf \in {"RUNNING", "PAUSED"}
  BY <1>1 DEF EndedSound, Db, WorkflowDone, Stopped, Shown, NodeDone
<1>4. Contract!Lost(Views(db), n) /\ View(db.node[n].st) = "waiting"
  BY <1>1, VerdictsAgree DEF View
<1>5. \A m \in Node : View(db'.node[m].st) = IF m = n THEN "SKIPPED" ELSE View(db.node[m].st)
  BY <1>2 DEF View
<1>6. [m \in Node |-> View(db'.node[m].st)]
      = [[m \in Node |-> View(db.node[m].st)] EXCEPT ![n] = "SKIPPED"]
  BY <1>5
<1>7. Executing(db') = Executing(db) /\ \A m \in Node : Result(db', m) = Result(db, m)
  BY <1>2, TasksTell DEF Executing
<1>8. Contract!Skip(n)
  BY <1>2, <1>3, <1>4, <1>6, <1>7 DEF Contract!Skip, Views
<1>9. EndedSound(db')
  BY <1>2, <1>3 DEF EndedSound, Stopped, Shown
<1>10. QED
  BY <1>8, <1>9 DEF Simulates, Contract!Next

\* A node that is found startable in a workflow that does not run waits on.
LEMMA ReadySimulates ==
    ASSUME IInv, EndedSound(db), NEW n \in Node, db.node[n].st = "PENDING",
           db' = SetNodes(db, {n}, "READY")
    PROVE  Simulates
<1>1. db \in Db
  BY DEF IInv, TypeOK
<1>2. /\ db'.wf = db.wf /\ db'.task = db.task
      /\ \A m \in Node : db'.node[m].st = IF m = n THEN "READY" ELSE db.node[m].st
  BY <1>1, SetNodesFacts DEF NodeStatus
<1>3. \A m \in Node : SameNode(db, db', m)
  BY <1>2, TasksTell DEF SameNode, View
<1>4. EndedSound(db')
  BY <1>2 DEF EndedSound, NodeDone
<1>5. QED
  BY <1>2, <1>3, <1>4, Stutter DEF Simulates

-----------------------------------------------------------------------------
(* Phase 2.                                                                *)

\* Once its dependencies ended, a node can run or cannot.
LEMMA Decided ==
    ASSUME NEW st, NEW n \in Node, Open(st, n) = {}
    PROVE  CanRun(st, n) \/ CannotRun(st, n)
<1>1. Cardinality(Succeeded(st, n)) \in Nat /\ Cardinality(Open(st, n)) = 0
  BY DepsCounted, FS_EmptySet DEF Succeeded
<1>2. QED
  BY <1>1, NodesTyped DEF CanRun, JoinMet, CannotRun

\* r is s after the result of task t, which was out, was applied to its node.
Applied(s, t, r) ==
    /\ s.node[t[1]].st \in Out /\ s.task[t] \in Shown
    /\ t[1] \notin Executing(s) /\ Result(s, t[1]) = s.task[t]
    /\ r.wf = s.wf /\ r.task = s.task
    /\ \A n \in Node : r.node[n].st = IF n = t[1] THEN s.task[t] ELSE s.node[n].st

\* What the contract sees of a result that is applied.
LEMMA OutcomeView ==
    ASSUME NEW s, NEW results, RowsSound(s, results), NEW t \in results,
           s.node[t[1]].st \notin NodeDone
    PROVE  Applied(s, t, SetNodes(s, {t[1]}, s.task[t]))
<1>1. /\ t \in Task /\ t[1] \in Node /\ t = <<t[1], t[2]>> /\ t[2] # 0
      /\ s.task[t] \in Shown /\ s \in Db
  BY TaskParts DEF RowsSound
<1>2. s.node[t[1]].gen = t[2] /\ s.node[t[1]].st \in Out
  BY <1>1 DEF RowsSound, TaskSound, Linked, Shown, NodeDone
<1>3. LinkedTask(s, t[1]) = s.task[t]
  BY <1>1, <1>2 DEF LinkedTask
<1>4. t[1] \notin Executing(s) /\ Result(s, t[1]) = s.task[t]
  BY <1>1, <1>3, LinkedTaskTells DEF Shown
<1>5. s.task[t] \in NodeStatus
  BY <1>1 DEF Shown, NodeStatus
<1>6. QED
  BY <1>1, <1>2, <1>4, <1>5, SetNodesFacts DEF Applied

\* What it sees of the propagation: dependents are sent out or skipped, and none goes
\* on to wait whose last dependency ended with this step.
LEMMA PromoteView ==
    ASSUME NEW s, NEW results, Good(s, results), NEW source \in Node,
           Spare(s, RunSet(Status(s), source))
    PROVE  LET r == Promote(s, source) IN
           /\ r \in Db /\ r.wf = s.wf
           /\ \A n \in Node :
                \/ r.node[n].st = s.node[n].st
                \/ s.node[n].st = "PENDING" /\ r.node[n].st \in {"SKIPPED", "ENQUEUED"}
           /\ \A n \in Node : /\ n \in Executing(r) <=> n \in Executing(s)
                              /\ Result(r, n) = Result(s, n)
           /\ \A n \in Node :
                r.node[n].st = "PENDING" /\ (\A d \in Deps[n] : r.node[d].st \in NodeDone)
                => \A d \in Deps[n] : d # source /\ s.node[d].st \in NodeDone
<1> DEFINE st == Status(s)
           skip == SkipSet(st, source)
           run == RunSet(st, source)
           m == SetNodes(s, skip, "SKIPPED")
           r == Enqueue(m, run)
           sk == Skipped(st, skip)
<1>1. s \in Db /\ st \in Statuses /\ \A n \in Node : st[n] = s.node[n].st
  BY StatusTyped DEF Good, RowsSound
<1>2. Promote(s, source) = r
  BY DEF Promote
<1>3. run = {n \in PendingAfter(st, source, skip) \ skip : CanRun(sk, n)}
  BY DEF RunSet
<1>4. /\ skip \subseteq {n \in Node : st[n] = "PENDING"}
      /\ \A n \in skip : CannotRun(sk, n)
      /\ SkipClosed(st, source, skip)
  BY <1>1, SkippedCannotRun
<1>5. \A n \in Node : sk[n] = IF n \in skip THEN "SKIPPED" ELSE st[n]
  BY DEF Skipped
<1>6. \A n : n \in PendingAfter(st, source, skip) <=>
             n \in Node /\ st[n] = "PENDING" /\ Deps[n] \cap ({source} \cup skip) # {}
  BY DEF PendingAfter
<1>7. run \in SUBSET Node /\ \A n \in run : n \notin skip /\ st[n] = "PENDING"
  BY <1>3, <1>6
<1>8. Spare(s, run)
  OBVIOUS
<1> HIDE DEF run, skip
<1>9. /\ skip \in SUBSET Node
      /\ \A n \in skip : s.node[n].st = "PENDING" /\ CannotRun(Skipped(Status(s), skip), n)
  BY <1>1, <1>4
<1>10. /\ Good(m, results) /\ m.task = s.task /\ m.wf = s.wf
       /\ \A n \in Node : m.node[n].st = IF n \in skip THEN "SKIPPED" ELSE s.node[n].st
  BY <1>9, SkipGood
<1> HIDE DEF m, st, sk
<1>11. \A n \in Node : /\ n \in Executing(m) <=> n \in Executing(s)
                       /\ Result(m, n) = Result(s, n)
  BY <1>10, TasksTell
<1>12. Spare(m, run)
  BY <1>8, <1>10 DEF Spare, Unused
<1>13. /\ RowsSound(m, results) /\ m \in Db
       /\ \A n \in run : m.node[n].st \in {"PENDING", "READY"}
  BY <1>1, <1>7, <1>10 DEF Good, RowsSound
<1>14. /\ r.wf = m.wf /\ r \in Db
       /\ \A n \in Node : r.node[n].st = IF n \in run THEN "ENQUEUED" ELSE m.node[n].st
       /\ \A n \in Node : /\ n \in Executing(r) <=> n \in Executing(m)
                          /\ Result(r, n) = Result(m, n)
  BY <1>7, <1>12, <1>13, EnqueueView, EnqueueFacts
<1> HIDE DEF r
<1>15. ASSUME NEW n \in Node, r.node[n].st = "PENDING",
              \A d \in Deps[n] : r.node[d].st \in NodeDone
       PROVE  \A d \in Deps[n] : d # source /\ s.node[d].st \in NodeDone
  <2>1. st[n] = "PENDING" /\ n \notin skip /\ n \notin run
    BY <1>1, <1>10, <1>14, <1>15
  <2>2. \A d \in Deps[n] : d \in Node /\ sk[d] \in NodeDone
    <3>1. ASSUME NEW d \in Deps[n] PROVE d \in Node /\ sk[d] \in NodeDone
      <4>1. d \in Node /\ r.node[d].st \in NodeDone
        BY <1>15, NodesTyped
      <4>2. d \notin run
        BY <1>14, <4>1 DEF NodeDone
      <4>3. QED
        BY <1>1, <1>5, <1>10, <1>14, <4>1, <4>2 DEF NodeDone
    <3>2. QED
      BY <3>1
  <2>3. Open(sk, n) = {}
    BY <2>2 DEF Open
  <2>4. CanRun(sk, n) \/ CannotRun(sk, n)
    BY <2>3, Decided
  <2>5. n \notin PendingAfter(st, source, skip)
    <3>1. CASE CanRun(sk, n)
      BY <1>3, <2>1, <3>1
    <3>2. CASE CannotRun(sk, n)
      BY <1>4, <2>1, <3>2 DEF SkipClosed, sk
    <3>3. QED
      BY <2>4, <3>1, <3>2
  <2>6. Deps[n] \cap ({source} \cup skip) = {}
    BY <1>6, <2>1, <2>5
  <2>7. QED
    BY <1>1, <1>5, <2>2, <2>6
<1>16. \A n \in Node : \/ r.node[n].st = s.node[n].st
                       \/ s.node[n].st = "PENDING" /\ r.node[n].st \in {"SKIPPED", "ENQUEUED"}
  BY <1>1, <1>7, <1>9, <1>10, <1>14
<1>17. QED
  BY <1>2, <1>10, <1>11, <1>14, <1>15, <1>16

\* A result that a paused workflow takes is the contract's Note.
LEMMA NoteSimulates ==
    ASSUME IInv, EndedSound(db), NEW t \in outbox, db.node[t[1]].st \notin NodeDone,
           db.wf = "PAUSED", db' = SetNodes(db, {t[1]}, db.task[t])
    PROVE  Simulates
<1> DEFINE n == t[1]
<1>1. RowsSound(db, outbox) /\ n \in Node
  BY TaskParts DEF IInv, TypeOK, Good
<1>2. /\ db.node[n].st \in Out /\ db.task[t] \in Shown
      /\ n \notin Executing(db) /\ Result(db, n) = db.task[t]
      /\ db'.wf = db.wf /\ db'.task = db.task
      /\ \A m \in Node : db'.node[m].st = IF m = n THEN db.task[t] ELSE db.node[m].st
  <2>1. Applied(db, t, db')
    BY <1>1, OutcomeView
  <2>2. QED
    BY <2>1 DEF Applied
<1> HIDE DEF n
<1>3. /\ View(db.node[n].st) = "out" /\ Result(db, n) # "none"
      /\ \A m \in Node : View(db'.node[m].st) = IF m = n THEN Result(db, n) ELSE View(db.node[m].st)
  BY <1>2 DEF View, Out, Shown
<1>4. [m \in Node |-> View(db'.node[m].st)]
      = [[m \in Node |-> View(db.node[m].st)] EXCEPT ![n] = Result(db, n)]
  BY <1>3
<1>5. Executing(db') = Executing(db) /\ \A m \in Node : Result(db', m) = Result(db, m)
  BY <1>2, TasksTell DEF Executing
<1>6. Contract!Note(n)
  BY <1>1, <1>2, <1>3, <1>4, <1>5 DEF Contract!Note, Contract!Shows, Contract!Shown
<1>7. EndedSound(db')
  BY <1>2 DEF EndedSound, Stopped, Shown
<1>8. QED
  BY <1>1, <1>6, <1>7 DEF Simulates, Contract!Next

\* A failure that pauses the workflow is its Halt.
LEMMA HaltSimulates ==
    ASSUME IInv, EndedSound(db), NEW t \in outbox, db.node[t[1]].st \notin NodeDone,
           db.wf = "RUNNING", db.task[t] = "FAILED", OnError = "pause",
           NEW T \in SUBSET Relocatable(SetNodes(db, {t[1]}, db.task[t])),
           db' = PauseTree(SetNodes(db, {t[1]}, db.task[t]), T)
    PROVE  Simulates
<1> DEFINE n == t[1]
           s == SetNodes(db, {n}, db.task[t])
           r == PauseTree(s, T)
           K == {m \in Node : <<m, s.node[m].gen>> \in T}
<1>1. Good(db, outbox) /\ RowsSound(db, outbox) /\ n \in Node
  BY TaskParts DEF IInv, TypeOK, Good
<1>2. /\ db.node[n].st \in Out
      /\ n \notin Executing(db) /\ Result(db, n) = db.task[t]
      /\ s.wf = db.wf /\ s.task = db.task
      /\ \A m \in Node : s.node[m].st = IF m = n THEN db.task[t] ELSE db.node[m].st
  <2>1. Applied(db, t, s)
    BY <1>1, OutcomeView
  <2>2. QED
    BY <2>1 DEF Applied
<1>3. RowsSound(s, outbox \ {t})
  BY <1>1, OutcomeSound
<1>4. db' = r /\ K \subseteq Node
  OBVIOUS
<1> HIDE DEF n, s
<1>5. /\ r.wf = "PAUSED"
      /\ \A m \in K : /\ s.node[m].st \in Out /\ r.node[m].st = "READY"
                      /\ m \notin Executing(s) /\ Result(s, m) = "none"
      /\ \A m \in Node \ K : r.node[m] = s.node[m]
      /\ \A m \in Node : /\ m \in Executing(r) <=> m \in Executing(s)
                         /\ Result(r, m) = Result(s, m)
  <2>1. T \in SUBSET Relocatable(s) /\ s.wf = "RUNNING"
    BY <1>2 DEF s, n
  <2>2. QED
    BY <1>3, <2>1, PauseView
<1> HIDE DEF K, r
<1>6. \A m \in Node : /\ m \in Executing(s) <=> m \in Executing(db)
                      /\ Result(s, m) = Result(db, m)
  BY <1>2, TasksTell
<1>7. \A m \in K : db.node[m].st \in Out /\ m # n
  BY <1>2, <1>4, <1>5 DEF Out
<1>8. K \in SUBSET Contract!Idle
  BY <1>4, <1>5, <1>6, <1>7 DEF Contract!Idle, View, Out
<1>9. \A m \in Node : View(db'.node[m].st) = IF m \in K THEN "waiting"
                                             ELSE IF m = n THEN Result(db, n)
                                             ELSE View(db.node[m].st)
  BY <1>2, <1>4, <1>5 DEF View
<1>10. [m \in Node |-> View(db'.node[m].st)]
       = Contract!TakenBack([[m \in Node |-> View(db.node[m].st)] EXCEPT ![n] = Result(db, n)], K)
  BY <1>9 DEF Contract!TakenBack
<1>11. Executing(db') = Executing(db) /\ \A m \in Node : Result(db', m) = Result(db, m)
  BY <1>4, <1>5, <1>6 DEF Executing
<1>12. db'.wf = "PAUSED" /\ View(db.node[n].st) = "out" /\ Result(db, n) = "FAILED"
  BY <1>2, <1>4, <1>5 DEF View, Out
<1>13. Contract!Halt(n)
  BY <1>1, <1>8, <1>10, <1>11, <1>12 DEF Contract!Halt, Contract!Shows, Contract!Shown
<1>14. EndedSound(db')
  BY <1>12 DEF EndedSound, Stopped, Shown
<1>15. QED
  BY <1>1, <1>13, <1>14 DEF Simulates, Contract!Next

\* Otherwise phase 2 is its Advance: what it starts and skips is decided, by the joins
\* of the rows it leaves; what it leaves waiting was not forgotten.
LEMMA AdvanceSimulates ==
    ASSUME IInv, IInv', EndedSound(db), NEW t \in outbox, db.node[t[1]].st \notin NodeDone,
           db.wf = "RUNNING", db.task[t] # "FAILED" \/ OnError # "pause",
           LET s == SetNodes(db, {t[1]}, db.task[t]) IN
           /\ Spare(db, RunSet(Status(s), t[1]))
           /\ db' = Complete(Promote(s, t[1]))
    PROVE  Simulates
<1> DEFINE n == t[1]
           s == SetNodes(db, {n}, db.task[t])
           r == Promote(s, n)
<1>1. Good(db, outbox) /\ RowsSound(db, outbox) /\ n \in Node /\ db \in Db
  BY TaskParts DEF IInv, TypeOK, Good
<1>2. /\ db.node[n].st \in Out /\ db.task[t] \in Shown
      /\ n \notin Executing(db) /\ Result(db, n) = db.task[t]
      /\ s.wf = db.wf /\ s.task = db.task
      /\ \A m \in Node : s.node[m].st = IF m = n THEN db.task[t] ELSE db.node[m].st
  <2>1. Applied(db, t, s)
    BY <1>1, OutcomeView
  <2>2. QED
    BY <2>1 DEF Applied
<1>3. Good(s, outbox \ {t})
  BY <1>1, OutcomeGood
<1>4. Spare(db, RunSet(Status(s), n)) /\ db' = Complete(r)
  OBVIOUS
<1> HIDE DEF n, s
<1>5. Spare(s, RunSet(Status(s), n))
  BY <1>2, <1>4 DEF Spare, Unused
<1>6. /\ r \in Db /\ r.wf = s.wf
      /\ \A m \in Node :
           \/ r.node[m].st = s.node[m].st
           \/ s.node[m].st = "PENDING" /\ r.node[m].st \in {"SKIPPED", "ENQUEUED"}
      /\ \A m \in Node : /\ m \in Executing(r) <=> m \in Executing(s)
                         /\ Result(r, m) = Result(s, m)
      /\ \A m \in Node :
           r.node[m].st = "PENDING" /\ (\A d \in Deps[m] : r.node[d].st \in NodeDone)
           => \A d \in Deps[m] : d # n /\ s.node[d].st \in NodeDone
  BY <1>1, <1>3, <1>5, PromoteView
<1> HIDE DEF r
<1>7. /\ db'.node = r.node /\ db'.task = r.task
      /\ db'.wf = IF \E m \in Node : r.node[m].st \notin NodeDone THEN "RUNNING"
                  ELSE IF \E m \in Node : r.node[m].st = "FAILED" THEN "FAILED"
                  ELSE "COMPLETED"
  BY <1>2, <1>4, <1>6, CompleteView
<1>8. /\ db'.wf \notin Stopped /\ db' \in Db
      /\ \A m \in Node : StartJustified(db', m) /\ SkipJustified(db', m)
  BY <1>7 DEF IInv, TypeOK, Good, Justified, Stopped
<1>9. \A m \in Node : StartJustified(db, m)
  BY <1>1 DEF Good, Justified
<1>10. \A m \in Node : db.node[m].st \in NodeStatus /\ db'.node[m].st \in NodeStatus
  BY <1>1, <1>8 DEF Db
<1>11. View(db.node[n].st) = "out" /\ Result(db, n) # "none"
  BY <1>2 DEF View, Out, Shown
<1>12. Executing(db') = Executing(db) /\ \A m \in Node : Result(db', m) = Result(db, m)
  <2>1. \A m \in Node : /\ m \in Executing(s) <=> m \in Executing(db)
                        /\ Result(s, m) = Result(db, m)
    BY <1>2, TasksTell
  <2>2. \A m \in Node : /\ m \in Executing(db') <=> m \in Executing(r)
                        /\ Result(db', m) = Result(r, m)
    BY <1>7, TasksTell
  <2>3. QED
    BY <1>6, <2>1, <2>2 DEF Executing
<1> DEFINE v == Views(db)
           w == Views(db')
           shown == [v EXCEPT ![n] = Result(db, n)]
<1>13. \A m \in Node : v[m] = View(db.node[m].st) /\ w[m] = View(db'.node[m].st)
  BY DEF Views
<1>14. \A m \in Node : shown[m] = IF m = n THEN Result(db, n) ELSE v[m]
  BY DEF Views
<1> HIDE DEF v, w, shown
<1>15. ASSUME NEW m \in Node
       PROVE  \/ w[m] = shown[m]
              \/ v[m] = "waiting" /\ w[m] = "out" /\ Contract!MayStart(w, m)
              \/ v[m] = "waiting" /\ w[m] = "SKIPPED" /\ Contract!Lost(w, m)
  <2>1. CASE r.node[m].st = s.node[m].st
    <3>1. m = n => View(db.task[t]) = db.task[t]
      BY <1>2 DEF View, Shown
    <3>2. w[m] = shown[m]
      <4>1. db'.node[m].st = IF m = n THEN db.task[t] ELSE db.node[m].st
        BY <1>2, <1>7, <2>1
      <4>2. QED
        BY <1>2, <1>13, <1>14, <3>1, <4>1
    <3>3. QED
      BY <3>2
  <2>2. CASE s.node[m].st = "PENDING" /\ r.node[m].st \in {"SKIPPED", "ENQUEUED"}
    <3>1. m # n
      BY <1>2, <2>2 DEF Shown
    <3>2. db.node[m].st = "PENDING" /\ db'.node[m].st \in {"SKIPPED", "ENQUEUED"}
      BY <1>2, <1>7, <2>2, <3>1
    <3>3. v[m] = "waiting"
      BY <1>13, <3>2 DEF View
    <3>4. CASE db'.node[m].st = "SKIPPED"
      <4>1. w[m] = "SKIPPED"
        BY <1>13, <3>4 DEF View
      <4>2. Contract!Lost(w, m)
        BY <1>8, <3>4, VerdictsAgree DEF w
      <4>3. QED
        BY <3>3, <4>1, <4>2
    <3>5. CASE db'.node[m].st = "ENQUEUED"
      <4>1. w[m] = "out"
        BY <1>13, <3>5 DEF View
      <4>2. Contract!MayStart(w, m)
        BY <1>8, <3>5, VerdictsAgree DEF w
      <4>3. QED
        BY <3>3, <4>1, <4>2
    <3>6. QED
      BY <3>2, <3>4, <3>5
  <2>3. QED
    BY <1>6, <2>1, <2>2
<1>16. ASSUME NEW m \in Node, Contract!Forgotten(v, w, m) PROVE FALSE
  <2>1. /\ w[m] = "waiting" /\ ~Contract!MayStart(v, m)
        /\ \E d \in Deps[m] : v[d] \notin NodeDone
        /\ \A d \in Deps[m] : w[d] \in NodeDone
    BY <1>16 DEF Contract!Forgotten, Contract!Ended, NodeDone
  <2>2. \A d \in Deps[m] : /\ d \in Node
                           /\ v[d] \in NodeDone <=> db.node[d].st \in NodeDone
                           /\ w[d] \in NodeDone <=> db'.node[d].st \in NodeDone
    <3>1. ASSUME NEW d \in Node
          PROVE  /\ v[d] \in NodeDone <=> db.node[d].st \in NodeDone
                 /\ w[d] \in NodeDone <=> db'.node[d].st \in NodeDone
      <4>1. /\ View(db.node[d].st) \in NodeDone <=> db.node[d].st \in NodeDone
            /\ View(db'.node[d].st) \in NodeDone <=> db'.node[d].st \in NodeDone
        BY <1>10, ViewTells
      <4>2. QED
        BY <1>13, <4>1
    <3>2. QED
      BY <3>1, NodesTyped
  <2>3. db'.node[m].st \in {"PENDING", "READY"}
    BY <1>10, <1>13, <2>1, ViewTells
  <2>4. CASE db'.node[m].st = "READY"
    <3>1. db.node[m].st = "READY"
      BY <1>2, <1>6, <1>7, <2>4 DEF Shown
    <3>2. Contract!MayStart(v, m)
      BY <1>1, <1>9, <3>1, VerdictsAgree DEF v
    <3>3. QED
      BY <2>1, <3>2
  <2>5. CASE db'.node[m].st = "PENDING"
    <3>1. \A d \in Deps[m] : d # n /\ s.node[d].st \in NodeDone
      BY <1>6, <1>7, <2>1, <2>2, <2>5
    <3>2. \A d \in Deps[m] : db.node[d].st \in NodeDone
      BY <1>2, <2>2, <3>1
    <3>3. QED
      BY <2>1, <2>2, <3>2
  <2>6. QED
    BY <2>3, <2>4, <2>5
<1>17. \A m \in Node : w[m] \in Contract!Ended \cup {"waiting", "out"}
  <2>1. ASSUME NEW m \in Node PROVE w[m] \in NodeDone \cup {"waiting", "out"}
    <3>1. View(db'.node[m].st) \in NodeDone \cup {"waiting", "out"}
      BY <1>10, ViewTells
    <3>2. QED
      BY <1>13, <3>1
  <2>2. QED
    BY <2>1 DEF Contract!Ended, NodeDone
<1>18. \A m \in Node : /\ w[m] \in Contract!Ended <=> db'.node[m].st \in NodeDone
                       /\ w[m] = "FAILED" <=> db'.node[m].st = "FAILED"
  BY <1>10, <1>13 DEF View, Contract!Ended, NodeDone, NodeStatus
<1>19. db'.wf = IF \E m \in Node : w[m] \notin Contract!Ended THEN "RUNNING"
                ELSE IF \E m \in Node : w[m] = "FAILED" THEN "FAILED" ELSE "COMPLETED"
  BY <1>7, <1>18
<1>20. w \in [Node -> Contract!Ended \cup {"waiting", "out"}]
  BY <1>17 DEF w, Views
<1>21. Contract!Advance(n)
  <2>1. /\ [m \in Node |-> View(db.node[m].st)] = v
        /\ [m \in Node |-> View(db'.node[m].st)] = w
    BY DEF v, w, Views
  <2>2. Contract!Shown(n) = shown
    BY <1>1, <2>1 DEF Contract!Shown, shown
  <2>3. Contract!Shows(n)
    BY <1>1, <1>11 DEF Contract!Shows
  <2>4. [m \in Node |-> Result(db, m)][n] = "FAILED" => OnError # "pause"
    BY <1>1, <1>2
  <2>5. UNCHANGED <<Executing(db), [m \in Node |-> Result(db, m)]>>
    BY <1>12
  <2>6. QED
    BY <1>15, <1>16, <1>19, <1>20, <2>1, <2>2, <2>3, <2>4, <2>5 DEF Contract!Advance
<1>22. EndedSound(db')
  BY <1>7, <1>8 DEF EndedSound, Shown
<1>23. QED
  BY <1>1, <1>21, <1>22 DEF Simulates, Contract!Next

LEMMA ConsumeSimulates ==
    ASSUME IInv, IInv', EndedSound(db), NEW t \in Task, Consume(t)
    PROVE  Simulates
<1> DEFINE late == db.wf \in WorkflowDone \/ db.node[t[1]].st \in NodeDone
           applied == SetNodes(db, {t[1]}, db.task[t])
<1>1. t \in outbox /\ db.wf \in {"RUNNING", "PAUSED"} \cup WorkflowDone
  BY DEF Consume, IInv, TypeOK, Db
<1>2. \/ late /\ db' = db
      \/ /\ ~late /\ db.wf = "RUNNING" /\ db.task[t] = "FAILED" /\ OnError = "pause"
         /\ \E T \in SUBSET Relocatable(applied) : db' = PauseTree(applied, T)
      \/ ~late /\ db.wf = "PAUSED" /\ db' = applied
      \/ /\ ~late /\ db.wf = "RUNNING" /\ (db.task[t] # "FAILED" \/ OnError # "pause")
         /\ Spare(db, RunSet(Status(applied), t[1]))
         /\ db' = Complete(Promote(applied, t[1]))
  BY <1>1 DEF Consume
<1>3. CASE late /\ db' = db
  BY <1>3, RowsStutter
<1>4. CASE /\ ~late /\ db.wf = "RUNNING" /\ db.task[t] = "FAILED" /\ OnError = "pause"
           /\ \E T \in SUBSET Relocatable(applied) : db' = PauseTree(applied, T)
  BY <1>1, <1>4, HaltSimulates
<1>5. CASE ~late /\ db.wf = "PAUSED" /\ db' = applied
  BY <1>1, <1>5, NoteSimulates
<1>6. CASE /\ ~late /\ db.wf = "RUNNING" /\ (db.task[t] # "FAILED" \/ OnError # "pause")
           /\ Spare(db, RunSet(Status(applied), t[1]))
           /\ db' = Complete(Promote(applied, t[1]))
  BY <1>1, <1>6, AdvanceSimulates
<1>7. QED
  BY <1>2, <1>3, <1>4, <1>5, <1>6

-----------------------------------------------------------------------------
(* Every step is one of the contract or a stutter.                         *)

LEMMA DispatchSimulates ==
    ASSUME IInv, IInv', EndedSound(db), DispatchNext
    PROVE  Simulates
<1>1. PICK d \in disp : Step(d) \/ HandoffFails(d) \/ SetRunningFails(d) \/ Crash(d)
  BY DEF DispatchNext
<1>2. /\ d.t \in Task /\ (Owned(d) => db.task[d.t] = "CLAIMED")
      /\ d.step \in StopStep => db.wf = "CANCELLED"
  BY OwnedClaimed DEF IInv, StopsCancelled
<1>3. CASE \/ Filter(d) \/ HandoffFails(d) \/ ReadStatus(d) \/ FinalizeMiss(d) \/ Crash(d)
  <2>1. db' = db
    BY <1>3 DEF Filter, HandoffFails, ReadStatus, FinalizeMiss, Crash
  <2>2. QED
    BY <2>1, RowsStutter
<1>4. CASE FilterPaused(d) \/ StopPaused(d)
  <2>1. \/ db' = db
        \/ db.task[d.t] \in {"CLAIMED", "abandoned"} /\ db' = Abandon(db, {d.t})
    BY <1>2, <1>4 DEF FilterPaused, StopPaused
  <2>2. QED
    BY <1>2, <2>1, RowsStutter, ReleaseSimulates
<1>5. CASE FilterCancelled(d) \/ StopCancelled(d)
  <2>1. db.wf = "CANCELLED"
    BY <1>2, <1>5 DEF FilterCancelled, StopCancelled, StopStep
  <2>2. \/ db' = db
        \/ db.task[d.t] \in {"PENDING", "CLAIMED", "cancelled"} /\ db' = CancelNode(db, d.t)
    BY <1>2, <1>5 DEF FilterCancelled, StopCancelled
  <2>3. QED
    BY <1>2, <2>1, <2>2, RowsStutter, CancelSimulates
<1>6. CASE Handoff(d)
  <2>1. \/ db' = db
        \/ Runnable(db, d.t) /\ db' = SetNodes(db, {d.t[1]}, "RUNNING")
    BY <1>6, OwnedRunnable DEF Handoff
  <2>2. QED
    BY <1>2, <2>1, RowsStutter, HandoffSimulates
<1>7. CASE SetRunning(d)
  <2>1. CASE Startable(d)
    BY <1>2, <1>7, <2>1, StartSimulates DEF SetRunning, Startable
  <2>2. CASE ~Startable(d)
    BY <1>7, <2>2, RowsStutter DEF SetRunning
  <2>3. QED
    BY <2>1, <2>2
<1>8. CASE SetRunningFails(d)
  <2>1. CASE Owned(d)
    BY <1>2, <1>8, <2>1, WaitingTaskMoves DEF SetRunningFails
  <2>2. CASE ~Owned(d)
    BY <1>8, <2>2, RowsStutter DEF SetRunningFails
  <2>3. QED
    BY <2>1, <2>2
<1>9. CASE Finish(d)
  BY <1>2, <1>9, AttemptSimulates DEF Finish
<1>10. QED
  BY <1>1, <1>3, <1>4, <1>5, <1>6, <1>7, <1>8, <1>9 DEF Step

LEMMA TaskSimulates ==
    ASSUME IInv, IInv', EndedSound(db), NEW t \in Task,
           Claim(t) \/ Consume(t) \/ RequeueStaleClaimed(t) \/ ReapStaleRunning(t)
    PROVE  Simulates
<1>1. CASE Claim(t)
  BY <1>1, WaitingTaskMoves DEF Claim
<1>2. CASE Consume(t)
  BY <1>2, ConsumeSimulates
<1>3. CASE RequeueStaleClaimed(t)
  BY <1>3, WaitingTaskMoves DEF RequeueStaleClaimed
<1>4. CASE ReapStaleRunning(t)
  BY <1>4, AttemptSimulates DEF ReapStaleRunning
<1>5. QED
  BY <1>1, <1>2, <1>3, <1>4

LEMMA NodeSimulates ==
    ASSUME IInv, IInv', EndedSound(db), NEW n \in Node,
           BeginEval(n) \/ EndEval(n) \/ EnqueueReady(n)
    PROVE  Simulates
<1>1. CASE BeginEval(n)
  BY <1>1, RowsStutter DEF BeginEval
<1>2. CASE EndEval(n)
  <2>1. CASE db' = db
    BY <2>1, RowsStutter
  <2>2. CASE /\ db.node[n].st = "PENDING" /\ CannotRun(Status(db), n)
             /\ db' = SetNodes(db, {n}, "SKIPPED")
    BY <2>2, SkipSimulates
  <2>3. CASE /\ db.node[n].st = "PENDING" /\ CanRun(Status(db), n)
             /\ db.wf = "RUNNING" /\ Spare(db, {n}) /\ db' = Enqueue(db, {n})
    BY <2>3, SendSimulates
  <2>4. CASE db.node[n].st = "PENDING" /\ db' = SetNodes(db, {n}, "READY")
    BY <2>4, ReadySimulates
  <2>5. QED
    BY <1>2, <2>1, <2>2, <2>3, <2>4 DEF EndEval, EnqueueGuard
<1>3. CASE EnqueueReady(n)
  BY <1>3, SendSimulates DEF EnqueueReady
<1>4. QED
  BY <1>1, <1>2, <1>3

LEMMA NextSimulates ==
    ASSUME IInv, IInv', EndedSound(db), [Next]_vars
    PROVE  Simulates
<1>1. CASE UNCHANGED vars
  BY <1>1, RowsStutter DEF vars
<1>2. CASE TaskNext
  BY <1>2, TaskSimulates DEF TaskNext
<1>3. CASE NodeNext
  BY <1>3, NodeSimulates DEF NodeNext
<1>4. CASE Pause
  BY <1>4, PauseSimulates DEF Pause
<1>5. CASE Cancel \/ ExpirePaused
  BY <1>5, StopSimulates DEF Cancel, ExpirePaused, Stopped
<1>6. CASE CheckCompletion
  BY <1>6, CompletionSimulates DEF CheckCompletion
<1>7. QED
  BY <1>1, <1>2, <1>3, <1>4, <1>5, <1>6, DispatchSimulates, ResumeSimulates DEF Next

LEMMA InitSimulates == Init => Contract!Init /\ EndedSound(db)
<1> SUFFICES ASSUME Init PROVE Contract!Init /\ EndedSound(db)
  OBVIOUS
<1>1. db = Enqueue(NoRows, Roots)
  BY DEF Init, NoRows, Roots
<1>2. Roots \in SUBSET Node /\ \A n \in Node : n \in Roots <=> Deps[n] = {}
  BY DEF Roots
<1>3. RowsSound(NoRows, {}) /\ \A n \in Roots : NoRows.node[n].st \in {"PENDING", "READY"}
  BY <1>2, NoRowsGood DEF Good
<1>4. /\ db.wf = "RUNNING"
      /\ \A n \in Node : db.node[n].st = IF n \in Roots THEN "ENQUEUED" ELSE "PENDING"
      /\ \A n \in Node : /\ n \in Executing(db) <=> n \in Executing(NoRows)
                         /\ Result(db, n) = Result(NoRows, n)
  BY <1>1, <1>2, <1>3, NoRowsGood, EnqueueView
<1>5. \A n \in Node : n \notin Executing(db) /\ Result(db, n) = "none"
  <2>1. \A n \in Node : LinkedTask(NoRows, n) = "unused"
    BY NoRowsGood DEF LinkedTask
  <2>2. QED
    BY <1>3, <1>4, <2>1, LinkedTaskTells DEF Shown
<1>6. \A n \in Node : View(db.node[n].st) = IF Deps[n] = {} THEN "out" ELSE "waiting"
  BY <1>2, <1>4 DEF View
<1>7. Executing(db) = {}
  BY <1>5 DEF Executing
<1>8. Contract!Init
  BY <1>4, <1>5, <1>6, <1>7 DEF Contract!Init
<1>9. QED
  BY <1>4, <1>8 DEF EndedSound, Stopped, Shown

\* The rows of a workflow with its dispatches, outbox, controls, re-evaluations and
\* reapers keep the promise made to its author, for every graph, every kind of join and
\* every bound.
THEOREM Refines == Spec => ImplementsWorkflow
<1>1. Init => Contract!Init /\ EndedSound(db)
  BY InitSimulates
<1>2. /\ IInv /\ IInv' /\ EndedSound(db) /\ [Next]_vars
      => EndedSound(db)' /\ [Contract!Next]_(Contract!cvars)
  BY NextSimulates DEF Simulates, EndedSound
<1>3. QED
  BY <1>1, <1>2, InvariantHolds, PTL DEF Spec, ImplementsWorkflow, Contract!Spec

=============================================================================
