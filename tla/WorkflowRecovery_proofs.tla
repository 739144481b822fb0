---------------------- MODULE WorkflowRecovery_proofs ----------------------
(***************************************************************************)
(* OneFinalizer, AppliedOnce and type correctness of WorkflowRecovery, for *)
(* any set of flows, any number of reapers, any page sizes and any number  *)
(* of faults.                                                              *)
(***************************************************************************)
EXTENDS WorkflowRecovery, FiniteSetTheorems, WellFoundedInduction, TLAPS

LEMMA ConstantsTyped ==
    /\ NoReaper \notin Reaper /\ Nodes \in [Workflow -> SUBSET {"result", "rest"}]
BY RecoveryAssumption DEF RecoveryAssumption

----------------------------------------------------------------------------
(* The claim of the audit.                                                 *)

\* The claim in the cursor is well formed, whatever place it stands at.
Claims(L) == [last : L, upper : L, token : Reaper \cup {NoReaper}, lapsed : BOOLEAN]
ClaimTyped == \E L : cur \in Claims(L)

PassInv ==
    /\ reap \in [Reaper -> Pass]
    /\ ClaimTyped
    /\ OneFinalizer

LEMMA PassInit == Init => PassInv
<1> SUFFICES ASSUME Init PROVE PassInv OBVIOUS
<1>1. Idle \in Pass BY DEF Idle, Pass, Pcs
<1>2. reap \in [Reaper -> Pass] /\ \A r \in Reaper : reap[r].pc = "idle"
  BY <1>1 DEF Init, Idle
<1>3. cur \in Claims({0}) BY DEF Init, Claims
<1> QED BY <1>2, <1>3 DEF PassInv, ClaimTyped, OneFinalizer, At

\* A pass moves and the cursor stays, as long as no pass comes to a check
\* without the claim.
LEMMA PassMoves ==
    ASSUME PassInv, cur' = cur, NEW r \in Reaper, NEW p \in Pass,
           reap' = [reap EXCEPT ![r] = p], p.pc = "final" => cur.token = r
    PROVE  PassInv'
BY DEF PassInv, ClaimTyped, OneFinalizer, At

LEMMA GotoMoves ==
    ASSUME PassInv, cur' = cur, NEW r \in Reaper, NEW pc \in Pcs, Goto(r, pc),
           pc = "final" => cur.token = r
    PROVE  PassInv'
<1>1. reap[r] \in Pass BY DEF PassInv
<1>2. [reap[r] EXCEPT !.pc = pc] \in Pass /\ [reap[r] EXCEPT !.pc = pc].pc = pc
  BY <1>1 DEF Pass
<1>3. reap' = [reap EXCEPT ![r] = [reap[r] EXCEPT !.pc = pc]] BY DEF Goto
<1> QED BY <1>2, <1>3, PassMoves

LEMMA DroppedMoves ==
    ASSUME PassInv, cur' = cur, NEW r \in Reaper, Dropped(r)
    PROVE  PassInv'
<1> DEFINE c == reap[r].complete \ {Candidate(r)}
           o == reap[r].orphan \ {Candidate(r)}
           pc == IF c \cup o = {} THEN "release" ELSE "work"
           p == [reap[r] EXCEPT !.pc = pc, !.complete = c, !.orphan = o]
<1>1. reap[r] \in Pass /\ reap \in [Reaper -> Pass] BY DEF PassInv
<1>2. p \in Pass /\ p.pc # "final" BY <1>1 DEF Pass, Pcs
<1>3. reap' = [reap EXCEPT ![r] = p] BY <1>1 DEF Dropped
<1> HIDE DEF p
<1> QED BY <1>2, <1>3, PassMoves

LEMMA ReadsTyped ==
    ASSUME NEW R \in SUBSET Workflow
    PROVE  Reads(R) \in Pass /\ Reads(R).pc # "final"
BY DEF Reads, Idle, Pass, Pcs

LEMMA DealtMoves ==
    ASSUME PassInv, cur' = cur, NEW r \in Reaper, reap' = [reap EXCEPT ![r] = Dealt(r)]
    PROVE  PassInv'
<1>1. reap[r].rows \ {Min(reap[r].rows)} \in SUBSET Workflow BY DEF PassInv, Pass
<1>2. Dealt(r) \in Pass /\ Dealt(r).pc # "final" BY <1>1, ReadsTyped DEF Dealt
<1> QED BY <1>2, PassMoves

\* The cursor is claimed with a page, when no other pass shares the claim.
LEMMA AuditClaims ==
    ASSUME PassInv, NEW r \in Reaper, Audit(r)
    PROVE  PassInv'
<1> DEFINE stuck == {w \in Page : open[w] = {}}
           p == [Idle EXCEPT !.pc = IF stuck = {} THEN "drive" ELSE "work",
                             !.complete = stuck \ Orphans, !.orphan = stuck \cap Orphans]
<1>1. reap' = [reap EXCEPT ![r] = p] BY DEF Audit
<1>2. stuck \subseteq Workflow BY DEF Page, First, Running
<1>3. p \in Pass /\ p.pc # "final"
  <2> HIDE DEF stuck
  <2> QED BY <1>2 DEF Idle, Pass, Pcs
<1> HIDE DEF p
<1>4. ClaimTyped'
  <2> DEFINE t == IF stuck = {} THEN NoReaper ELSE r
             l == IF CycleComplete THEN 0 ELSE Max(Page)
             u == IF CycleComplete THEN 0 ELSE Upper
  <2>1. cur' = [last |-> l, upper |-> u, lapsed |-> FALSE, token |-> t] BY DEF Audit
  <2>2. t \in Reaper \cup {NoReaper} OBVIOUS
  <2> HIDE DEF t, l, u
  <2>3. cur' \in Claims({l, u}) BY <2>1, <2>2 DEF Claims
  <2> QED BY <2>3 DEF ClaimTyped
<1>5. ASSUME NEW q \in Reaper PROVE reap'[q].pc # "final"
  <2>1. CASE q = r BY <1>1, <1>3, <2>1 DEF PassInv
  <2>2. CASE q # r
    <3>1. reap[q].pc # "final" BY <2>2 DEF Audit, Claimable, ShareLocked, At
    <3> QED BY <1>1, <2>2, <3>1 DEF PassInv
  <2> QED BY <2>1, <2>2
<1>6. reap' \in [Reaper -> Pass] BY <1>1, <1>3 DEF PassInv
<1> QED BY <1>4, <1>5, <1>6 DEF PassInv, OneFinalizer, At

\* A claim is given back, or runs out, while no check shares it.
LEMMA ReleaseFrees ==
    ASSUME PassInv, NEW r \in Reaper, Release(r)
    PROVE  PassInv'
<1> DEFINE p == [Idle EXCEPT !.pc = "drive"]
<1>1. p \in Pass /\ p.pc # "final" BY DEF Idle, Pass, Pcs
<1>2. reap' = [reap EXCEPT ![r] = p] /\ reap[r].pc = "release" BY DEF Release, At
<1> HIDE DEF p
<1>3. PICK L : cur \in Claims(L) BY DEF PassInv, ClaimTyped
<1>4. cur' = cur \/ (cur.token = r /\ cur' \in Claims(L))
  BY <1>3 DEF Release, Claims
<1>5. CASE cur' = cur BY <1>1, <1>2, <1>5, PassMoves
<1>6. CASE cur.token = r /\ cur' \in Claims(L)
  <2>1. ClaimTyped' BY <1>6 DEF ClaimTyped
  <2>2. reap' \in [Reaper -> Pass] BY <1>1, <1>2 DEF PassInv
  <2>3. \A q \in Reaper : reap[q].pc = "final" => q = r BY <1>6 DEF PassInv, OneFinalizer, At
  <2>4. \A q \in Reaper : reap'[q].pc # "final" BY <1>1, <1>2, <2>3 DEF PassInv
  <2> QED BY <2>1, <2>2, <2>4 DEF PassInv, OneFinalizer, At
<1> QED BY <1>4, <1>5, <1>6

LEMMA LapseKeeps ==
    ASSUME PassInv, Lapse
    PROVE  PassInv'
<1>1. PICK L : cur \in Claims(L) BY DEF PassInv, ClaimTyped
<1>2. cur' \in Claims(L) /\ cur'.token = cur.token /\ reap' = reap
  BY <1>1 DEF Lapse, Claims
<1>3. ClaimTyped' BY <1>2 DEF ClaimTyped
<1> QED BY <1>2, <1>3 DEF PassInv, OneFinalizer, At

\* Flows and the workers that finalize do not touch the claim.
LEMMA FlowKeeps ==
    ASSUME PassInv, Flow \/ UNCHANGED vars
    PROVE  PassInv'
<1>1. UNCHANGED <<cur, reap>>
  BY DEF Flow, Create, RestEnds, Stop, Terminalize, FinRead, FinConsume, vars
<1> QED BY <1>1 DEF PassInv, ClaimTyped, OneFinalizer, At

LEMMA PassStep == PassInv /\ [Next]_vars => PassInv'
<1> SUFFICES ASSUME PassInv, [Next]_vars PROVE PassInv' OBVIOUS
<1>1. ASSUME NEW r \in Reaper, Step(r) PROVE PassInv'
  <2>1. CASE AuditRefused(r) BY <2>1, GotoMoves DEF AuditRefused, Pcs
  <2>2. CASE LockClaim(r) BY <2>2, GotoMoves DEF LockClaim, Owns, Pcs
  <2>3. CASE Finalize(r) \/ FailOrphan(r) BY <2>3, DroppedMoves DEF Finalize, FailOrphan
  <2>4. CASE OrphanRefused(r) BY <2>4, GotoMoves DEF OrphanRefused, Pcs
  <2>5. CASE Discover(r)
    <3>1. Discovered \in SUBSET Workflow BY DEF Discovered, First
    <3> QED BY <2>5, <3>1, ReadsTyped, PassMoves DEF Discover
  <2>6. CASE ReadRow(r)
    <3>1. CASE Goto(r, "consume") /\ cur' = cur BY <3>1, GotoMoves DEF Pcs
    <3>2. CASE reap' = [reap EXCEPT ![r] = Dealt(r)] /\ cur' = cur BY <3>2, DealtMoves
    <3> QED BY <2>6, <3>1, <3>2 DEF ReadRow, Goto
  <2>7. CASE ConsumeRow(r) BY <2>7, DealtMoves DEF ConsumeRow
  <2> QED BY <1>1, <2>1, <2>2, <2>3, <2>4, <2>5, <2>6, <2>7, AuditClaims, ReleaseFrees
          DEF Step
<1>2. ASSUME NEW r \in Reaper, StatementFails(r) PROVE PassInv'
  <2>1. cur' = cur BY <1>2 DEF StatementFails
  <2>2. [Idle EXCEPT !.pc = "drive"] \in Pass /\ [Idle EXCEPT !.pc = "drive"].pc # "final"
    BY DEF Idle, Pass, Pcs
  <2>3. \/ \E pc \in {"drive", "release", "idle"} : Goto(r, pc)
        \/ Dropped(r)
        \/ reap' = [reap EXCEPT ![r] = [Idle EXCEPT !.pc = "drive"]]
        \/ reap' = [reap EXCEPT ![r] = Dealt(r)]
    BY <1>2 DEF StatementFails
  <2>4. CASE \E pc \in {"drive", "release", "idle"} : Goto(r, pc)
    BY <2>1, <2>4, GotoMoves DEF Pcs
  <2>5. CASE reap' = [reap EXCEPT ![r] = [Idle EXCEPT !.pc = "drive"]]
    BY <2>1, <2>2, <2>5, PassMoves
  <2> QED BY <2>1, <2>3, <2>4, <2>5, DroppedMoves, DealtMoves
<1>3. ASSUME NEW r \in Reaper, Crash(r) PROVE PassInv'
  <2>1. Idle \in Pass /\ Idle.pc # "final" BY DEF Idle, Pass, Pcs
  <2> QED BY <1>3, <2>1, PassMoves DEF Crash
<1> QED BY <1>1, <1>2, <1>3, LapseKeeps, FlowKeeps DEF Next

\* At most one audit is inside a completion check, whatever claims lapse
\* under slow owners, get lost or are taken over (engine.rs:2682).
THEOREM OneAudit == Spec => []OneFinalizer
<1>1. PassInv => OneFinalizer BY DEF PassInv
<1> QED BY <1>1, PassInit, PassStep, PTL DEF Spec

----------------------------------------------------------------------------
(* The result of a node.                                                   *)

FlowsTyped ==
    /\ st \in [Workflow -> {"absent", "RUNNING", "ended"}]
    /\ open \in [Workflow -> SUBSET {"result", "rest"}]
    /\ row \in [Workflow -> {"none", "pending", "spoilt", "gone"}]
    /\ applied \in [Workflow -> {0, 1}]

\* A recorded result is open until its progression is committed, and its row
\* goes with that or after the end of the flow.
ResultAt(w) ==
    /\ st[w] = "absent" => row[w] = "none" /\ applied[w] = 0 /\ "result" \notin open[w]
    /\ "result" \in open[w] => applied[w] = 0
    /\ row[w] # "none" /\ "result" \notin open[w] => applied[w] = 1
    /\ row[w] = "gone" => applied[w] = 1 \/ st[w] = "ended"

\* What somebody is about to consume was recorded.
ReadAt(r) == At(r, "consume") =>
    \A w \in Workflow : w = Min(reap[r].rows) => row[w] # "none"
ReadsOK == (\A w \in fin : w \in Workflow /\ row[w] # "none") /\ (\A r \in Reaper : ReadAt(r))

ResultInv == FlowsTyped /\ (\A w \in Workflow : ResultAt(w))

RInv == PassInv /\ ResultInv /\ ReadsOK

LEMMA RInit == Init => RInv
<1> SUFFICES ASSUME Init PROVE RInv OBVIOUS
<1>1. PassInv BY PassInit
<1>2. FlowsTyped BY DEF Init, FlowsTyped
<1>3. ASSUME NEW w \in Workflow PROVE ResultAt(w) BY <1>3 DEF Init, ResultAt
<1>4. ReadsOK BY DEF Init, ReadsOK, ReadAt, At, Idle
<1> QED BY <1>1, <1>2, <1>3, <1>4 DEF RInv, ResultInv

RowsStay == \A w \in Workflow : row[w] # "none" => row'[w] # "none"

\* The flow w changes, and keeps what is said of its result.
LEMMA OneFlow ==
    ASSUME ResultInv, FlowsTyped', NEW w \in Workflow, ResultAt(w)',
           \A v \in Workflow : v # w => /\ st'[v] = st[v] /\ open'[v] = open[v]
                                        /\ row'[v] = row[v] /\ applied'[v] = applied[v]
    PROVE  ResultInv'
<1>1. ASSUME NEW v \in Workflow PROVE ResultAt(v)'
  <2>1. CASE v = w BY <2>1
  <2>2. CASE v # w
    BY <2>2, st'[v] = st[v] /\ open'[v] = open[v] /\ row'[v] = row[v] /\ applied'[v] = applied[v]
    DEF ResultInv, ResultAt
  <2> QED BY <2>1, <2>2
<1> QED BY <1>1 DEF ResultInv

\* A consumption commits a progression at most once.
LEMMA ConsumeOnce ==
    ASSUME ResultInv, NEW w \in Workflow, row[w] # "none", Consume(w)
    PROVE  ResultInv' /\ RowsStay
<1>1. FlowsTyped /\ ResultAt(w) BY DEF ResultInv
<1>2. CASE Applies(w) /\ w \notin Failing /\ Progress(w) /\ row' = [row EXCEPT ![w] = "gone"]
  <2>1. applied[w] = 0 /\ st[w] # "ended" /\ st[w] # "absent"
    BY <1>1, <1>2 DEF Applies, Superseded, ResultAt
  <2>2. /\ open' = [open EXCEPT ![w] = open[w] \ {"result"}]
        /\ st' = [st EXCEPT ![w] = IF open[w] \subseteq {"result"} THEN "ended" ELSE st[w]]
        /\ applied' = [applied EXCEPT ![w] = 1]
    BY <1>2, <2>1 DEF Progress
  <2>3. FlowsTyped' BY <1>1, <1>2, <2>2 DEF FlowsTyped
  <2>4. applied'[w] = 1 /\ "result" \notin open'[w] /\ st'[w] # "absent"
    BY <1>1, <2>1, <2>2 DEF FlowsTyped
  <2>5. ResultAt(w)' BY <2>4 DEF ResultAt
  <2>6. \A v \in Workflow : v # w => /\ st'[v] = st[v] /\ open'[v] = open[v]
                                     /\ row'[v] = row[v] /\ applied'[v] = applied[v]
    BY <1>1, <1>2, <2>2 DEF FlowsTyped
  <2>7. RowsStay BY <1>1, <1>2 DEF RowsStay, FlowsTyped
  <2> QED BY <2>3, <2>5, <2>6, <2>7, OneFlow
<1>3. CASE (Superseded(w) \/ AlreadyApplied(w)) /\ row' = [row EXCEPT ![w] = "gone"]
           /\ UNCHANGED flows
  <2>1. st' = st /\ open' = open /\ applied' = applied BY <1>3 DEF flows
  <2>2. FlowsTyped' BY <1>1, <1>3, <2>1 DEF FlowsTyped
  <2>3. applied[w] = 1 \/ st[w] = "ended"
    BY <1>1, <1>3 DEF Superseded, AlreadyApplied, ResultAt
  <2>4. row'[w] = "gone" /\ st[w] # "absent" BY <1>1, <1>3 DEF FlowsTyped, ResultAt
  <2>5. ResultAt(w)' BY <1>1, <2>1, <2>3, <2>4 DEF ResultAt
  <2>6. \A v \in Workflow : v # w => /\ st'[v] = st[v] /\ open'[v] = open[v]
                                     /\ row'[v] = row[v] /\ applied'[v] = applied[v]
    BY <1>1, <1>3, <2>1 DEF FlowsTyped
  <2>7. RowsStay BY <1>1, <1>3 DEF RowsStay, FlowsTyped
  <2> QED BY <2>2, <2>5, <2>6, <2>7, OneFlow
<1>4. CASE UNCHANGED <<flows, row>>
  BY <1>4 DEF flows, ResultInv, FlowsTyped, ResultAt, RowsStay
<1> QED BY <1>2, <1>3, <1>4 DEF Consume

\* Nothing happens to a flow that does not exist.
LEMMA ConsumeNone ==
    ASSUME ResultInv, NEW w, w \notin Workflow, Consume(w)
    PROVE  ResultInv' /\ RowsStay
<1>1. UNCHANGED <<st, open, applied, row>>
  BY DEF Consume, Progress, flows, ResultInv, FlowsTyped
<1> QED BY <1>1 DEF ResultInv, FlowsTyped, ResultAt, RowsStay

LEMMA FlowResults ==
    ASSUME RInv, NEW w \in Workflow,
           \/ Create(w) \/ RestEnds(w) \/ Stop(w) \/ Terminalize(w) \/ FinRead(w)
           \/ FinConsume(w)
    PROVE  ResultInv' /\ RowsStay
<1>1. ResultInv /\ FlowsTyped /\ ResultAt(w) BY DEF RInv, ResultInv
<1>2. CASE Create(w)
  <2>1. FlowsTyped' BY <1>1, <1>2, ConstantsTyped DEF Create, outbox, FlowsTyped
  <2>2. ResultAt(w)' BY <1>1, <1>2 DEF Create, outbox, FlowsTyped, ResultAt
  <2>3. RowsStay BY <1>2 DEF Create, outbox, RowsStay
  <2> QED BY <1>1, <1>2, <2>1, <2>2, <2>3, OneFlow DEF Create, outbox, FlowsTyped
<1>3. CASE RestEnds(w)
  <2>1. FlowsTyped' BY <1>1, <1>3 DEF RestEnds, outbox, FlowsTyped
  <2>2. open'[w] = open[w] \ {"rest"} BY <1>1, <1>3 DEF RestEnds, FlowsTyped
  <2>3. UNCHANGED <<st, row, applied>> BY <1>3 DEF RestEnds, outbox
  <2>4. "result" \in open'[w] <=> "result" \in open[w] BY <2>2
  <2>5. ResultAt(w)' BY <1>1, <2>3, <2>4 DEF ResultAt
  <2>6. RowsStay BY <2>3 DEF RowsStay
  <2>7. \A v \in Workflow : v # w => open'[v] = open[v]
    BY <1>1, <1>3 DEF RestEnds, FlowsTyped
  <2> QED BY <1>1, <2>1, <2>3, <2>5, <2>6, <2>7, OneFlow
<1>4. CASE Stop(w)
  <2>1. FlowsTyped' BY <1>1, <1>4 DEF Stop, outbox, FlowsTyped
  <2>2. ResultAt(w)' BY <1>1, <1>4 DEF Stop, outbox, FlowsTyped, ResultAt
  <2>3. RowsStay BY <1>4 DEF Stop, outbox, RowsStay
  <2> QED BY <1>1, <1>4, <2>1, <2>2, <2>3, OneFlow DEF Stop, outbox, FlowsTyped
<1>5. CASE Terminalize(w)
  <2>1. PICK found \in Recorded : row' = [row EXCEPT ![w] = found]
    BY <1>5 DEF Terminalize, Recorded
  <2>2. UNCHANGED <<st, open, applied>> BY <1>5 DEF Terminalize, flows
  <2>3. FlowsTyped' BY <1>1, <2>1, <2>2 DEF FlowsTyped, Recorded
  <2>4. row[w] = "none" /\ "result" \in open[w] BY <1>5 DEF Terminalize
  <2>5. row'[w] \in Recorded BY <1>1, <2>1 DEF FlowsTyped
  <2>6. st[w] # "absent"
    BY <1>1, <1>5 DEF ResultAt, Terminalize
  <2>7. ResultAt(w)' BY <1>1, <2>2, <2>4, <2>5, <2>6 DEF ResultAt, Recorded
  <2>8. RowsStay BY <1>1, <2>1, <2>4 DEF RowsStay, FlowsTyped
  <2> QED BY <1>1, <2>1, <2>2, <2>3, <2>7, <2>8, OneFlow DEF FlowsTyped
<1>6. CASE FinRead(w)
  BY <1>1, <1>6 DEF FinRead, flows, outbox, ResultInv, FlowsTyped, ResultAt, RowsStay
<1>7. CASE FinConsume(w)
  <2>1. row[w] # "none" /\ Consume(w) BY <1>7 DEF FinConsume, RInv, ReadsOK
  <2> QED BY <1>1, <2>1, ConsumeOnce
<1> QED BY <1>2, <1>3, <1>4, <1>5, <1>6, <1>7

\* A step of a pass changes flows only by completing or failing one without
\* open nodes, or by a consumption.
LEMMA PassResults ==
    ASSUME RInv, NEW r \in Reaper, Step(r) \/ StatementFails(r) \/ Crash(r)
    PROVE  ResultInv' /\ RowsStay
<1>1. ResultInv /\ FlowsTyped BY DEF RInv, ResultInv
<1>2. ASSUME UNCHANGED <<st, open, applied, row>> PROVE ResultInv' /\ RowsStay
  BY <1>1, <1>2 DEF ResultInv, FlowsTyped, ResultAt, RowsStay
<1>3. ASSUME NEW w, UNCHANGED <<open, applied, row>>,
             \E e \in {"ended", st[w]} : st' = [st EXCEPT ![w] = e],
             w \in Workflow => st[w] = "RUNNING" \/ st' = st
      PROVE  ResultInv' /\ RowsStay
  <2>1. RowsStay BY <1>3 DEF RowsStay
  <2>2. CASE st' = st BY <1>2, <1>3, <2>2
  <2>3. CASE w \notin Workflow
    <3>1. st' = st BY <1>1, <1>3, <2>3 DEF FlowsTyped
    <3> QED BY <1>2, <1>3, <3>1
  <2>4. CASE w \in Workflow /\ st' # st
    <3>1. st' = [st EXCEPT ![w] = "ended"] /\ st[w] = "RUNNING"
      BY <1>1, <1>3, <2>4 DEF FlowsTyped
    <3>2. FlowsTyped' BY <1>1, <1>3, <2>4, <3>1 DEF FlowsTyped
    <3>3. ResultAt(w)' BY <1>1, <1>3, <2>4, <3>1 DEF ResultInv, ResultAt, FlowsTyped
    <3> QED BY <1>1, <1>3, <2>1, <2>4, <3>1, <3>2, <3>3, OneFlow DEF FlowsTyped
  <2> QED BY <2>2, <2>3, <2>4
<1>4. CASE Finalize(r)
  <2> DEFINE w == Candidate(r)
             e == IF st[w] = "RUNNING" /\ open[w] = {} THEN "ended" ELSE st[w]
  <2>1. st' = [st EXCEPT ![w] = e] /\ UNCHANGED <<open, applied, row>>
    BY <1>4 DEF Finalize, outbox
  <2>2. w \in Workflow => st[w] = "RUNNING" \/ st' = st BY <1>1, <2>1 DEF FlowsTyped
  <2>3. e \in {"ended", st[w]} OBVIOUS
  <2> HIDE DEF w, e
  <2> QED BY <1>3, <2>1, <2>2, <2>3
<1>5. CASE FailOrphan(r)
  <2> DEFINE w == Candidate(r)
             e == IF st[w] = "RUNNING" THEN "ended" ELSE st[w]
  <2>1. st' = [st EXCEPT ![w] = e] /\ UNCHANGED <<open, applied, row>>
    BY <1>5 DEF FailOrphan, outbox
  <2>2. w \in Workflow => st[w] = "RUNNING" \/ st' = st BY <1>1, <2>1 DEF FlowsTyped
  <2>3. e \in {"ended", st[w]} OBVIOUS
  <2> HIDE DEF w, e
  <2> QED BY <1>3, <2>1, <2>2, <2>3
<1>6. CASE ConsumeRow(r)
  <2> DEFINE w == Min(reap[r].rows)
  <2>1. Consume(w) /\ At(r, "consume") BY <1>6 DEF ConsumeRow
  <2>2. w \in Workflow => row[w] # "none" BY <2>1 DEF RInv, ReadsOK, ReadAt
  <2> HIDE DEF w
  <2> QED BY <1>1, <2>1, <2>2, ConsumeOnce, ConsumeNone
<1>7. CASE \/ Audit(r) \/ AuditRefused(r) \/ LockClaim(r) \/ OrphanRefused(r) \/ Release(r)
          \/ Discover(r) \/ ReadRow(r) \/ StatementFails(r) \/ Crash(r)
  BY <1>2, <1>7 DEF Audit, AuditRefused, LockClaim, OrphanRefused, Release, Discover,
         ReadRow, StatementFails, Crash, flows, outbox
<1> QED BY <1>4, <1>5, <1>6, <1>7 DEF Step

\* A pass comes to a consumption only by reading the row.
LEMMA ReadsStay ==
    ASSUME RInv, NEW r \in Reaper, Step(r) \/ StatementFails(r) \/ Crash(r), RowsStay
    PROVE  ReadsOK'
<1>1. reap \in [Reaper -> Pass] /\ fin' = fin
  BY DEF RInv, PassInv, Step, Audit, AuditRefused, LockClaim, Finalize, FailOrphan,
         OrphanRefused, Release, Discover, ReadRow, ConsumeRow, StatementFails, Crash
<1>2. ASSUME NEW p, reap' = [reap EXCEPT ![r] = p],
             p.pc = "consume" => \A w \in Workflow : w = Min(p.rows) => row[w] # "none"
      PROVE  ReadsOK'
  BY <1>1, <1>2 DEF RInv, ReadsOK, ReadAt, At, RowsStay
<1>3. ASSUME NEW pc, pc # "consume", Goto(r, pc) PROVE ReadsOK'
  <2>1. reap' = [reap EXCEPT ![r] = [reap[r] EXCEPT !.pc = pc]] BY <1>3 DEF Goto
  <2>2. [reap[r] EXCEPT !.pc = pc].pc = pc BY <1>1 DEF Pass
  <2> QED BY <1>2, <1>3, <2>1, <2>2
<1>4. ASSUME Dropped(r) PROVE ReadsOK'
  <2> DEFINE c == reap[r].complete \ {Candidate(r)}
             o == reap[r].orphan \ {Candidate(r)}
             pc == IF c \cup o = {} THEN "release" ELSE "work"
             p == [reap[r] EXCEPT !.pc = pc, !.complete = c, !.orphan = o]
  <2>1. reap' = [reap EXCEPT ![r] = p] BY <1>1, <1>4 DEF Dropped
  <2>2. p.pc # "consume" BY <1>1 DEF Pass
  <2> HIDE DEF p
  <2> QED BY <1>2, <2>1, <2>2
<1>5. ASSUME NEW R, reap' = [reap EXCEPT ![r] = Reads(R)] PROVE ReadsOK'
  <2>1. Reads(R).pc # "consume" BY DEF Reads, Idle
  <2> QED BY <1>2, <1>5, <2>1
<1>6. CASE Audit(r)
  <2> DEFINE stuck == {w \in Page : open[w] = {}}
             p == [Idle EXCEPT !.pc = IF stuck = {} THEN "drive" ELSE "work",
                               !.complete = stuck \ Orphans, !.orphan = stuck \cap Orphans]
  <2>1. reap' = [reap EXCEPT ![r] = p] BY <1>6 DEF Audit
  <2>2. p.pc # "consume" BY DEF Idle
  <2> HIDE DEF p
  <2> QED BY <1>2, <2>1, <2>2
<1>7. CASE AuditRefused(r) \/ LockClaim(r) \/ OrphanRefused(r)
  BY <1>3, <1>7 DEF AuditRefused, LockClaim, OrphanRefused
<1>8. CASE Finalize(r) \/ FailOrphan(r) BY <1>4, <1>8 DEF Finalize, FailOrphan
<1>9. ASSUME reap' = [reap EXCEPT ![r] = [Idle EXCEPT !.pc = "drive"]] PROVE ReadsOK'
  <2>1. [Idle EXCEPT !.pc = "drive"].pc # "consume" BY DEF Idle
  <2> QED BY <1>2, <1>9, <2>1
<1>10. CASE ReadRow(r)
  <2>1. CASE row[Min(reap[r].rows)] \in Recorded
    <3>1. reap' = [reap EXCEPT ![r] = [reap[r] EXCEPT !.pc = "consume"]]
      BY <1>10, <2>1 DEF ReadRow
    <3>2. [reap[r] EXCEPT !.pc = "consume"].rows = reap[r].rows BY <1>1 DEF Pass
    <3> QED BY <1>2, <2>1, <3>1, <3>2 DEF Recorded
  <2>2. CASE row[Min(reap[r].rows)] \notin Recorded
    BY <1>5, <1>10, <2>2 DEF ReadRow, Dealt
  <2> QED BY <2>1, <2>2
<1>11. CASE Release(r) \/ Discover(r) \/ ConsumeRow(r)
  BY <1>5, <1>9, <1>11 DEF Release, Discover, ConsumeRow, Dealt
<1>12. CASE StatementFails(r)
  <2>1. \/ \E pc \in {"drive", "release", "idle"} : Goto(r, pc)
        \/ Dropped(r)
        \/ reap' = [reap EXCEPT ![r] = [Idle EXCEPT !.pc = "drive"]]
        \/ reap' = [reap EXCEPT ![r] = Dealt(r)]
    BY <1>12 DEF StatementFails
  <2> QED BY <1>3, <1>4, <1>5, <1>9, <2>1 DEF Dealt
<1>13. CASE Crash(r)
  <2>1. Idle.pc # "consume" BY DEF Idle
  <2> QED BY <1>2, <1>13, <2>1 DEF Crash
<1> QED BY <1>6, <1>7, <1>8, <1>10, <1>11, <1>12, <1>13 DEF Step

LEMMA RStep == RInv /\ [Next]_vars => RInv'
<1> SUFFICES ASSUME RInv, [Next]_vars PROVE RInv' OBVIOUS
<1>1. PassInv' BY PassStep DEF RInv
<1>2. ASSUME NEW r \in Reaper, Step(r) \/ StatementFails(r) \/ Crash(r) PROVE RInv'
  BY <1>1, <1>2, PassResults, ReadsStay DEF RInv
<1>3. ASSUME UNCHANGED <<st, open, row, applied, reap, fin>> PROVE RInv'
  BY <1>1, <1>3 DEF RInv, ResultInv, FlowsTyped, ResultAt, ReadsOK, ReadAt, At
<1>4. ASSUME NEW w \in Workflow,
             \/ Create(w) \/ RestEnds(w) \/ Stop(w) \/ Terminalize(w) \/ FinRead(w)
             \/ FinConsume(w)
      PROVE  RInv'
  <2>1. ResultInv' /\ RowsStay BY <1>4, FlowResults
  <2>2. reap' = reap
    BY <1>4 DEF Create, RestEnds, Stop, Terminalize, FinRead, FinConsume
  <2>3. \A v \in fin' : v \in fin \/ (v = w /\ row[w] # "none")
    BY <1>4 DEF Create, RestEnds, Stop, Terminalize, FinRead, FinConsume, Recorded
  <2>4. ReadsOK' BY <2>1, <2>2, <2>3 DEF RInv, ReadsOK, ReadAt, At, RowsStay
  <2> QED BY <1>1, <2>1, <2>4 DEF RInv
<1>5. CASE Lapse BY <1>3, <1>5 DEF Lapse, flows, outbox
<1>6. CASE UNCHANGED vars BY <1>3, <1>6 DEF vars
<1> QED BY <1>2, <1>4, <1>5, <1>6 DEF Next, Flow

\* The progression of a result is committed once, and its outbox row goes
\* only with it or after the end of the flow, however often the worker and
\* the reapers have read the row before (horsies_phase2_consume).
THEOREM ResultOnce == Spec => []AppliedOnce
<1>1. RInv => AppliedOnce
  BY DEF RInv, ResultInv, FlowsTyped, ResultAt, AppliedOnce
<1> QED BY <1>1, RInit, RStep, PTL DEF Spec

----------------------------------------------------------------------------
(* Types.  The bound on the attempts of a row is that of quarantine plus   *)
(* the passes that discovered the row before it was reached: who holds it  *)
(* may still count one more.                                               *)

\* A finite set of flows has a least and a greatest one.
LEMMA Extremes ==
    ASSUME NEW H \in SUBSET Nat, IsFiniteSet(H), H # {}
    PROVE  /\ \E m \in H : \A j \in H : m <= j
           /\ \E m \in H : \A j \in H : j <= m
<1> DEFINE Below(k) == {j \in H : j < k}
           Above(k) == {j \in H : k < j}
<1>1. /\ \A k : /\ Below(k) \subseteq H /\ \A j : j \in Below(k) <=> j \in H /\ j < k
               /\ Above(k) \subseteq H /\ \A j : j \in Above(k) <=> j \in H /\ k < j
      /\ \A i, j, k \in H : ~(i < i) /\ (i < j /\ j < k => i < k) /\ (~(i < j) => j <= i)
  OBVIOUS
<1> HIDE DEF Below, Above
<1>2. IsWellFoundedOn(StrictSubsetOrdering(H), FiniteSubsetsOf(H))
  BY FS_StrictSubsetOrderingWellFounded
<1>3. \A k : Below(k) \in FiniteSubsetsOf(H) /\ Above(k) \in FiniteSubsetsOf(H)
  BY <1>1, FS_Subset DEF FiniteSubsetsOf
<1>4. \E m \in H : \A j \in H : m <= j
  <2> DEFINE T == {Below(k) : k \in H}
  <2>1. T \subseteq FiniteSubsetsOf(H) /\ T # {}
    BY <1>3
  <2>2. \E x \in T : \A y \in T : <<y, x>> \notin StrictSubsetOrdering(H)
    BY <1>2, <2>1, WFMin
  <2>3. PICK m \in H : \A k \in H : <<Below(k), Below(m)>> \notin StrictSubsetOrdering(H)
    BY <2>2
  <2>4. ASSUME NEW j \in H, j < m PROVE FALSE
    <3>1. j \in Below(m) /\ j \notin Below(j) /\ Below(j) \subseteq Below(m)
      BY <1>1, <2>4
    <3>2. <<Below(j), Below(m)>> \in StrictSubsetOrdering(H)
      BY <1>1, <3>1 DEF StrictSubsetOrdering
    <3>3. QED
      BY <2>3, <3>2
  <2>5. QED
    BY <1>1, <2>4
<1>5. \E m \in H : \A j \in H : j <= m
  <2> DEFINE T == {Above(k) : k \in H}
  <2>1. T \subseteq FiniteSubsetsOf(H) /\ T # {}
    BY <1>3
  <2>2. \E x \in T : \A y \in T : <<y, x>> \notin StrictSubsetOrdering(H)
    BY <1>2, <2>1, WFMin
  <2>3. PICK m \in H : \A k \in H : <<Above(k), Above(m)>> \notin StrictSubsetOrdering(H)
    BY <2>2
  <2>4. ASSUME NEW j \in H, m < j PROVE FALSE
    <3>1. j \in Above(m) /\ j \notin Above(j) /\ Above(j) \subseteq Above(m)
      BY <1>1, <2>4
    <3>2. <<Above(j), Above(m)>> \in StrictSubsetOrdering(H)
      BY <1>1, <3>1 DEF StrictSubsetOrdering
    <3>3. QED
      BY <2>3, <3>2
  <2>5. QED
    BY <1>1, <2>4
<1>6. QED
  BY <1>4, <1>5

LEMMA EndsTyped ==
    ASSUME NEW S \in SUBSET Workflow, S # {}
    PROVE  Min(S) \in S /\ Max(S) \in S
<1>1. S \in SUBSET Nat /\ IsFiniteSet(S)
  BY RecoveryAssumption, FS_Subset
<1>2. (\E m \in S : \A j \in S : m <= j) /\ (\E m \in S : \A j \in S : j <= m)
  BY <1>1, Extremes
<1>3. Min(S) \in S
  BY <1>1, <1>2 DEF Min
<1>4. Max(S) \in S
  <2>1. \E m \in S : \A j \in S : m >= j
    BY <1>1, <1>2
  <2> QED BY <2>1 DEF Max
<1> QED BY <1>3, <1>4

Holders(w) == {r \in Reaper : w \in reap[r].rows}
CountAt(w) == attempts[w] + Cardinality(Holders(w)) <= Bound + Cardinality(Reaper)
HeldAt(r) == reap[r].pc \in {"row", "consume"} => reap[r].rows # {}

TInv ==
    /\ RInv
    /\ cur \in Cursor /\ faults \in 0..MaxFaults
    /\ attempts \in [Workflow -> Nat]
    /\ \A w \in Workflow : CountAt(w)
    /\ \A r \in Reaper : HeldAt(r)

LEMMA ReapersCounted ==
    /\ Cardinality(Reaper) \in Nat /\ Bound \in Nat \ {0} /\ MaxFaults \in Nat /\ Limit \in Nat \ {0}
    /\ \A S \in SUBSET Reaper :
          IsFiniteSet(S) /\ Cardinality(S) \in Nat /\ Cardinality(S) <= Cardinality(Reaper)
<1>1. IsFiniteSet(Reaper) BY RecoveryAssumption
<1>2. ASSUME NEW S \in SUBSET Reaper
      PROVE  IsFiniteSet(S) /\ Cardinality(S) \in Nat /\ Cardinality(S) <= Cardinality(Reaper)
  <2>1. IsFiniteSet(S) /\ Cardinality(S) <= Cardinality(Reaper) BY <1>1, FS_Subset
  <2> QED BY <2>1, FS_CardinalityType
<1> QED BY <1>1, <1>2, RecoveryAssumption, FS_CardinalityType

LEMMA TypesInit == Init => TInv
<1> SUFFICES ASSUME Init PROVE TInv OBVIOUS
<1>1. RInv BY RInit
<1>2. cur \in Cursor BY DEF Init, Cursor, Place
<1>3. faults \in 0..MaxFaults /\ attempts \in [Workflow -> Nat]
  BY ReapersCounted DEF Init
<1>4. \A r \in Reaper : HeldAt(r) BY DEF Init, HeldAt, Idle
<1>5. ASSUME NEW w \in Workflow PROVE CountAt(w)
  <2>1. attempts[w] = 0 BY DEF Init
  <2>2. Holders(w) \subseteq Reaper BY DEF Holders
  <2>3. Cardinality(Holders(w)) \in Nat /\ Cardinality(Holders(w)) <= Cardinality(Reaper)
    BY <2>2, ReapersCounted
  <2> QED BY <2>1, <2>3, ReapersCounted DEF CountAt
<1> QED BY <1>1, <1>2, <1>3, <1>4, <1>5 DEF TInv

\* A step that gives no pass a row to hold and counts nothing.
LEMMA HoldsNoMore ==
    ASSUME TInv, RInv', cur' \in Cursor, faults' \in 0..MaxFaults, attempts' = attempts,
           \A r \in Reaper : reap'[r].rows \subseteq reap[r].rows /\ HeldAt(r)'
    PROVE  TInv'
<1>1. ASSUME NEW w \in Workflow PROVE CountAt(w)'
  <2> DEFINE H == Holders(w)
             K == Holders(w)'
  <2>1. H \subseteq Reaper /\ K \subseteq H BY DEF Holders
  <2> HIDE DEF H, K
  <2>2. IsFiniteSet(H) /\ Cardinality(H) \in Nat /\ Cardinality(K) \in Nat
    BY <2>1, ReapersCounted
  <2>3. Cardinality(K) <= Cardinality(H) BY <2>1, <2>2, FS_Subset
  <2>4. attempts[w] + Cardinality(H) <= Bound + Cardinality(Reaper) BY DEF TInv, CountAt, H
  <2>5. attempts[w] \in Nat BY DEF TInv
  <2>6. attempts[w] + Cardinality(K) <= Bound + Cardinality(Reaper)
    BY <2>2, <2>3, <2>4, <2>5, ReapersCounted
  <2> QED BY <2>6 DEF CountAt, K
<1> QED BY <1>1 DEF TInv

\* The pass of one reaper moves.
LEMMA PassHolds ==
    ASSUME TInv, RInv', cur' \in Cursor, faults' \in 0..MaxFaults, attempts' = attempts,
           NEW r \in Reaper, NEW p, reap' = [reap EXCEPT ![r] = p],
           p.rows \subseteq reap[r].rows, p.pc \in {"row", "consume"} => p.rows # {}
    PROVE  TInv'
<1>1. reap \in [Reaper -> Pass] BY DEF TInv, RInv, PassInv
<1>2. \A q \in Reaper : reap'[q].rows \subseteq reap[q].rows /\ HeldAt(q)'
  BY <1>1 DEF TInv, HeldAt
<1> QED BY <1>2, HoldsNoMore

LEMMA GotoHolds ==
    ASSUME TInv, RInv', cur' \in Cursor, faults' \in 0..MaxFaults, attempts' = attempts,
           NEW r \in Reaper, NEW pc, Goto(r, pc), pc # "row",
           pc = "consume" => reap[r].pc = "row"
    PROVE  TInv'
<1> DEFINE p == [reap[r] EXCEPT !.pc = pc]
<1>1. reap[r] \in Pass /\ reap' = [reap EXCEPT ![r] = p] BY DEF Goto, TInv, RInv, PassInv
<1>2. p.pc = pc /\ p.rows = reap[r].rows BY <1>1 DEF Pass
<1> HIDE DEF p
<1>3. HeldAt(r) BY DEF TInv
<1> QED BY <1>1, <1>2, <1>3, PassHolds DEF HeldAt

LEMMA DroppedHolds ==
    ASSUME TInv, RInv', cur' \in Cursor, faults' \in 0..MaxFaults, attempts' = attempts,
           NEW r \in Reaper, Dropped(r)
    PROVE  TInv'
<1> DEFINE c == reap[r].complete \ {Candidate(r)}
           o == reap[r].orphan \ {Candidate(r)}
           pc == IF c \cup o = {} THEN "release" ELSE "work"
           p == [reap[r] EXCEPT !.pc = pc, !.complete = c, !.orphan = o]
<1>1. reap[r] \in Pass /\ reap \in [Reaper -> Pass] BY DEF TInv, RInv, PassInv
<1>2. reap' = [reap EXCEPT ![r] = p] BY <1>1 DEF Dropped
<1>3. p.pc \notin {"row", "consume"} /\ p.rows = reap[r].rows BY <1>1 DEF Pass
<1> HIDE DEF p
<1> QED BY <1>2, <1>3, PassHolds

\* The other rows of a pass, without the one it dealt with.
LEMMA DealtRows ==
    ASSUME NEW r \in Reaper
    PROVE  /\ Dealt(r).rows = reap[r].rows \ {Min(reap[r].rows)}
           /\ Dealt(r).pc \in {"row", "consume"} => Dealt(r).rows # {}
BY DEF Dealt, Reads, Idle

LEMMA DealtHolds ==
    ASSUME TInv, RInv', cur' \in Cursor, faults' \in 0..MaxFaults, attempts' = attempts,
           NEW r \in Reaper, reap' = [reap EXCEPT ![r] = Dealt(r)]
    PROVE  TInv'
<1> DEFINE p == Dealt(r)
<1>1. p.rows \subseteq reap[r].rows /\ (p.pc \in {"row", "consume"} => p.rows # {})
  BY DealtRows
<1> HIDE DEF p
<1>2. reap' = [reap EXCEPT ![r] = p] BY DEF p
<1> QED BY <1>1, <1>2, PassHolds

LEMMA IdleHolds ==
    ASSUME TInv, RInv', cur' \in Cursor, faults' \in 0..MaxFaults, attempts' = attempts,
           NEW r \in Reaper, NEW p, reap' = [reap EXCEPT ![r] = p],
           p.rows = {}, p.pc \notin {"row", "consume"}
    PROVE  TInv'
BY PassHolds

\* The page ends at a flow of it, and the cycle at the last running flow.
LEMMA AuditTyped ==
    ASSUME TInv, NEW r \in Reaper, Audit(r)
    PROVE  cur' \in Cursor
<1> DEFINE stuck == {w \in Page : open[w] = {}}
           t == IF stuck = {} THEN NoReaper ELSE r
           l == IF CycleComplete THEN 0 ELSE Max(Page)
           u == IF CycleComplete THEN 0 ELSE Upper
<1>1. cur' = [last |-> l, upper |-> u, lapsed |-> FALSE, token |-> t] BY DEF Audit
<1>2. t \in Reaper \cup {NoReaper} OBVIOUS
<1>3. Page \subseteq Workflow /\ Running \subseteq Workflow BY DEF Page, First, Running
<1>4. l \in Place
  <2>1. CASE CycleComplete BY <2>1 DEF Place
  <2>2. CASE ~CycleComplete
    <3>1. Page # {}
      <4>1. CASE Page = {}
        BY <2>2, <4>1, FS_EmptySet, ReapersCounted DEF CycleComplete
      <4> QED BY <4>1
    <3> QED BY <1>3, <2>2, <3>1, EndsTyped DEF Place
  <2> QED BY <2>1, <2>2
<1>5. u \in Place
  <2>1. cur.upper \in Place BY DEF TInv, Cursor
  <2>2. Upper \in Place BY <1>3, <2>1, EndsTyped DEF Upper, Place
  <2> QED BY <2>2 DEF Place
<1> HIDE DEF t, l, u
<1> QED BY <1>1, <1>2, <1>4, <1>5 DEF Cursor

\* Who discovers a row finds it below the bound.
LEMMA DiscoverTyped ==
    ASSUME TInv, RInv', NEW r \in Reaper, Discover(r)
    PROVE  TInv'
<1> DEFINE D == Discovered
           p == Reads(D)
<1>1. reap' = [reap EXCEPT ![r] = p] /\ UNCHANGED <<attempts, cur, faults>>
  BY DEF Discover, outbox
<1>2. p.rows = D /\ (p.pc \in {"row", "consume"} => p.rows # {}) BY DEF Reads, Idle
<1>3. \A w \in D : attempts[w] < Bound BY DEF Discovered, First
<1> HIDE DEF D, p
<1>4. reap \in [Reaper -> Pass] BY DEF TInv, RInv, PassInv
<1>5. \A q \in Reaper : HeldAt(q)' BY <1>1, <1>2, <1>4 DEF TInv, HeldAt
<1>6. ASSUME NEW w \in Workflow PROVE CountAt(w)'
  <2> DEFINE H == Holders(w)
             K == Holders(w)'
  <2>1. H \subseteq Reaper /\ K \subseteq Reaper BY DEF Holders
  <2>2. w \notin D => K \subseteq H BY <1>1, <1>2, <1>4 DEF Holders
  <2>3. attempts[w] + Cardinality(H) <= Bound + Cardinality(Reaper) BY DEF TInv, CountAt
  <2> HIDE DEF H, K
  <2>4. /\ Cardinality(H) \in Nat /\ Cardinality(K) \in Nat /\ attempts[w] \in Nat
        /\ Cardinality(K) <= Cardinality(Reaper) /\ IsFiniteSet(H)
    BY <2>1, ReapersCounted DEF TInv
  <2>5. attempts[w] + Cardinality(K) <= Bound + Cardinality(Reaper)
    <3>1. CASE w \in D BY <1>3, <2>4, <3>1, ReapersCounted
    <3>2. CASE w \notin D
      <4>1. Cardinality(K) <= Cardinality(H) BY <2>2, <2>4, <3>2, FS_Subset
      <4> QED BY <2>3, <2>4, <4>1, ReapersCounted
    <3> QED BY <3>1, <3>2
  <2> QED BY <1>1, <2>5 DEF CountAt, K
<1> QED BY <1>1, <1>5, <1>6 DEF TInv

\* Who counts an attempt holds the row no longer.
LEMMA ConsumeTyped ==
    ASSUME TInv, RInv', NEW r \in Reaper, ConsumeRow(r)
    PROVE  TInv'
<1> DEFINE p == Dealt(r)
<1>1. PICK m : m = Min(reap[r].rows) OBVIOUS
<1>2. reap \in [Reaper -> Pass] /\ reap[r].rows \subseteq Workflow /\ reap[r].rows # {}
  BY DEF TInv, RInv, PassInv, Pass, HeldAt, ConsumeRow, At
<1>3. m \in reap[r].rows BY <1>1, <1>2, EndsTyped
<1>4. /\ p.rows = reap[r].rows \ {m} /\ (p.pc \in {"row", "consume"} => p.rows # {})
      /\ reap' = [reap EXCEPT ![r] = p] /\ UNCHANGED <<cur, faults>>
  BY <1>1, DealtRows DEF ConsumeRow
<1> HIDE DEF p
<1>5. PICK n \in {attempts[m], attempts[m] + 1} : attempts' = [attempts EXCEPT ![m] = n]
  BY <1>1 DEF ConsumeRow, Counted
<1>6. attempts \in [Workflow -> Nat] /\ m \in Workflow BY <1>2, <1>3 DEF TInv
<1>7. attempts' \in [Workflow -> Nat] /\ attempts'[m] <= attempts[m] + 1
      /\ \A w \in Workflow \ {m} : attempts'[w] = attempts[w]
  BY <1>5, <1>6
<1>8. \A q \in Reaper : HeldAt(q)' BY <1>2, <1>4 DEF TInv, HeldAt
<1>9. ASSUME NEW w \in Workflow PROVE CountAt(w)'
  <2> DEFINE H == Holders(w)
             K == Holders(w)'
  <2>1. H \subseteq Reaper /\ K \subseteq Reaper /\ K \subseteq H BY <1>2, <1>4 DEF Holders
  <2>2. w = m => r \in H /\ K \subseteq H \ {r} BY <1>2, <1>3, <1>4 DEF Holders
  <2>3. attempts[w] + Cardinality(H) <= Bound + Cardinality(Reaper) BY DEF TInv, CountAt
  <2> HIDE DEF H, K
  <2>4. /\ Cardinality(H) \in Nat /\ Cardinality(K) \in Nat /\ IsFiniteSet(H)
        /\ attempts[w] \in Nat /\ attempts'[w] \in Nat
    BY <1>6, <1>7, <2>1, ReapersCounted
  <2>5. attempts'[w] + Cardinality(K) <= Bound + Cardinality(Reaper)
    <3>1. CASE w = m
      <4>1. IsFiniteSet(H \ {r}) /\ Cardinality(H \ {r}) = Cardinality(H) - 1
        BY <2>2, <2>4, <3>1, FS_RemoveElement
      <4>2. Cardinality(K) <= Cardinality(H) - 1 BY <2>2, <3>1, <4>1, FS_Subset
      <4> QED BY <1>7, <2>3, <2>4, <3>1, <4>2, ReapersCounted
    <3>2. CASE w # m
      <4>1. Cardinality(K) <= Cardinality(H) BY <2>1, <2>4, FS_Subset
      <4> QED BY <1>7, <2>3, <2>4, <3>2, <4>1, ReapersCounted
    <3> QED BY <3>1, <3>2
  <2> QED BY <2>5 DEF CountAt, K
<1>10. cur' \in Cursor /\ faults' \in 0..MaxFaults BY <1>4 DEF TInv
<1> QED BY <1>7, <1>8, <1>9, <1>10 DEF TInv

LEMMA TypesStep == TInv /\ [Next]_vars => TInv'
<1> SUFFICES ASSUME TInv, [Next]_vars PROVE TInv' OBVIOUS
<1>1. RInv' BY RStep DEF TInv
<1>2. cur \in Cursor /\ faults \in 0..MaxFaults /\ \A r \in Reaper : HeldAt(r) BY DEF TInv
<1>3. ASSUME UNCHANGED <<attempts, reap>>, cur' \in Cursor, faults' \in 0..MaxFaults PROVE TInv'
  BY <1>1, <1>2, <1>3, HoldsNoMore DEF HeldAt
<1>4. CASE Flow \/ UNCHANGED vars
  <2>1. UNCHANGED <<attempts, reap, cur, faults>>
    BY <1>4 DEF Flow, Create, RestEnds, Stop, Terminalize, FinRead, FinConsume, vars, outbox
  <2> QED BY <1>2, <1>3, <2>1
<1>5. CASE Lapse
  <2>1. UNCHANGED <<attempts, reap>> /\ cur' \in Cursor BY <1>2, <1>5 DEF Lapse, outbox, Cursor
  <2>2. faults' \in 0..MaxFaults BY <1>2, <1>5, ReapersCounted DEF Lapse
  <2> QED BY <1>3, <2>1, <2>2
<1>6. ASSUME NEW r \in Reaper, Step(r) PROVE TInv'
  <2>1. CASE Audit(r)
    <3> DEFINE stuck == {w \in Page : open[w] = {}}
               p == [Idle EXCEPT !.pc = IF stuck = {} THEN "drive" ELSE "work",
                                 !.complete = stuck \ Orphans, !.orphan = stuck \cap Orphans]
    <3>1. reap' = [reap EXCEPT ![r] = p] /\ attempts' = attempts /\ faults' = faults
      BY <2>1 DEF Audit, outbox
    <3>2. p.rows = {} /\ p.pc \notin {"row", "consume"} BY DEF Idle
    <3> HIDE DEF p
    <3>3. cur' \in Cursor BY <2>1, AuditTyped
    <3> QED BY <1>1, <1>2, <3>1, <3>2, <3>3, IdleHolds
  <2>2. CASE AuditRefused(r) \/ LockClaim(r) \/ OrphanRefused(r)
    <3>1. UNCHANGED <<attempts, cur, faults>>
      BY <2>2 DEF AuditRefused, LockClaim, OrphanRefused, outbox
    <3>2. \E pc \in {"drive", "final", "release"} : Goto(r, pc)
      BY <2>2 DEF AuditRefused, LockClaim, OrphanRefused
    <3> QED BY <1>1, <1>2, <3>1, <3>2, GotoHolds
  <2>3. CASE Finalize(r) \/ FailOrphan(r)
    <3>1. UNCHANGED <<attempts, cur, faults>> /\ Dropped(r)
      BY <2>3 DEF Finalize, FailOrphan, outbox
    <3> QED BY <1>1, <1>2, <3>1, DroppedHolds
  <2>4. CASE Release(r)
    <3> DEFINE p == [Idle EXCEPT !.pc = "drive"]
    <3>1. reap' = [reap EXCEPT ![r] = p] /\ attempts' = attempts /\ faults' = faults
      BY <2>4 DEF Release, outbox
    <3>2. p.rows = {} /\ p.pc \notin {"row", "consume"} BY DEF Idle
    <3> HIDE DEF p
    <3>3. cur' \in Cursor BY <1>2, <2>4 DEF Release, Cursor
    <3> QED BY <1>1, <1>2, <3>1, <3>2, <3>3, IdleHolds
  <2>5. CASE Discover(r) BY <1>1, <2>5, DiscoverTyped
  <2>6. CASE ReadRow(r)
    <3>1. UNCHANGED <<attempts, cur, faults>> /\ reap[r].pc = "row"
      BY <2>6 DEF ReadRow, outbox, At
    <3>2. Goto(r, "consume") \/ reap' = [reap EXCEPT ![r] = Dealt(r)]
      BY <2>6 DEF ReadRow, Goto
    <3> QED BY <1>1, <1>2, <3>1, <3>2, GotoHolds, DealtHolds
  <2>7. CASE ConsumeRow(r) BY <1>1, <2>7, ConsumeTyped
  <2> QED BY <1>6, <2>1, <2>2, <2>3, <2>4, <2>5, <2>6, <2>7 DEF Step
<1>7. ASSUME NEW r \in Reaper, StatementFails(r) \/ Crash(r) PROVE TInv'
  <2>1. UNCHANGED <<attempts, cur>> /\ faults' \in 0..MaxFaults
    BY <1>2, <1>7, ReapersCounted DEF StatementFails, Crash, outbox
  <2> DEFINE p == [Idle EXCEPT !.pc = "drive"]
  <2>2. /\ p.rows = {} /\ p.pc \notin {"row", "consume"}
        /\ Idle.rows = {} /\ Idle.pc \notin {"row", "consume"}
    BY DEF Idle
  <2>3. \/ \E pc \in {"drive", "release", "idle"} : Goto(r, pc)
        \/ Dropped(r)
        \/ reap' = [reap EXCEPT ![r] = p]
        \/ reap' = [reap EXCEPT ![r] = Idle]
        \/ reap' = [reap EXCEPT ![r] = Dealt(r)]
    BY <1>7 DEF StatementFails, Crash
  <2> HIDE DEF p
  <2> QED BY <1>1, <1>2, <2>1, <2>2, <2>3, GotoHolds, DroppedHolds, IdleHolds, DealtHolds
<1> QED BY <1>4, <1>5, <1>6, <1>7 DEF Next

\* Flows, cursor and passes keep their types, and a row is counted at most as
\* often as the bound and the passes that hold it allow.
THEOREM TypeCorrect == Spec => []TypeOK
<1>1. ASSUME TInv PROVE TypeOK
  <2>1. /\ st \in [Workflow -> {"absent", "RUNNING", "ended"}]
        /\ open \in [Workflow -> SUBSET {"result", "rest"}]
        /\ row \in [Workflow -> {"none", "pending", "spoilt", "gone"}]
        /\ applied \in [Workflow -> 0..2]
        /\ reap \in [Reaper -> Pass] /\ fin \subseteq Workflow
    BY <1>1 DEF TInv, RInv, PassInv, ResultInv, FlowsTyped, ReadsOK
  <2>2. ASSUME NEW w \in Workflow PROVE attempts[w] \in 0..Bound + Cardinality(Reaper)
    <3>1. Holders(w) \subseteq Reaper BY DEF Holders
    <3>2. Cardinality(Holders(w)) \in Nat BY <3>1, ReapersCounted
    <3> QED BY <1>1, <3>2, ReapersCounted DEF TInv, CountAt
  <2>3. attempts \in [Workflow -> 0..Bound + Cardinality(Reaper)]
    BY <1>1, <2>2 DEF TInv
  <2> QED BY <1>1, <2>1, <2>3 DEF TInv, TypeOK
<1> QED BY <1>1, TypesInit, TypesStep, PTL DEF Spec

=============================================================================
