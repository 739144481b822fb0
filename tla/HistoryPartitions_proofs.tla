---------------------- MODULE HistoryPartitions_proofs ----------------------
(***************************************************************************)
(* Retention takes no row that is wanted, and what breaks the published    *)
(* readers is a torn publication only, for any number of workers, rows and *)
(* deaths, and any durations.                                              *)
(*                                                                         *)
(* The argument: what was marked for its detach is expired, and a pruner   *)
(* holds the lock of its leaf.  A row that is being inserted is of a day   *)
(* so recent that its finite leaf cannot be expired, so no result comes to *)
(* a finite leaf after the look at its blockers; in a daily leaf of the    *)
(* forever class it can, and then it is late and the drop looks again.     *)
(* For the readers see the last section.                                   *)
(***************************************************************************)
EXTENDS HistoryPartitions, TLAPS

-----------------------------------------------------------------------------
(* The inductive invariant.                                                *)

\* The gate of the reaper: one procedure prunes at a time.
OnePruner ==
    \A v, w \in Worker : wk[v].pc \in PrunePcs /\ wk[w].pc \in PrunePcs => v = w

\* The leaf a pruner works on is expired, and its relation is as the pruner left it.
PrunerAt(w) ==
    wk[w].pc \in PrunePcs =>
        /\ wk[w].leaf \in Leaf /\ Due(wk[w].leaf)
        /\ wk[w].pc = "detach" => phys[wk[w].leaf] = "attached"
        /\ wk[w].pc = "wait" => phys[wk[w].leaf] = "pending"
        /\ wk[w].pc \notin {"detach", "wait"} => phys[wk[w].leaf] = "detached"

\* What left its parent, or is about to, is expired.
LeavesDue == \A l \in Leaf : phys[l] \in {"pending", "detached", "gone"} => Due(l)

\* The leaf of a row: attached when the row came, and untouched while the row is wanted.
RowAs(r, l) ==
    /\ row[r].at = "inserted" => phys[l] \in {"attached", "pending"} /\ day <= row[r].day + 1
    /\ Stored(r) => phys[l] # "absent"
    /\ row[r].at = "stored" /\ l \in Finite => phys[l] = "attached" /\ ~Locked(l)
    /\ Stored(r) /\ l \in Daily =>
          phys[l] # "gone" /\ (row[r].late \/ (phys[l] = "attached" /\ ~Locked(l)))
RowAt(r) == RowAs(r, LeafOf(r, row[r].day))

IInv ==
    /\ TypeOK /\ OnePruner /\ LeavesDue
    /\ \A w \in Worker : PrunerAt(w)
    /\ \A r \in Row : RowAt(r)

-----------------------------------------------------------------------------
(* Leaves and days.                                                        *)

LEMMA LeavesTyped ==
    /\ Finite \subseteq Leaf /\ Daily \subseteq Leaf /\ Open \in Leaf
    /\ Finite \cap Daily = {} /\ Open \notin Finite \cup Daily
    /\ \A l \in Leaf : l[2] \in Nat
    /\ \A r \in Row, d \in Days : LeafOf(r, d) \in Leaf
    /\ \A r \in Row, d \in Days : LeafOf(r, d) \in Finite => LeafOf(r, d)[2] = d
    /\ NoLeaf \notin Leaf
<1>1. Finite \subseteq Leaf /\ Daily \subseteq Leaf /\ Open \in Leaf
  BY DEF Leaf
<1>2. \A l \in Finite : l[1] = "finite" /\ l[2] \in Nat
  BY PartitionAssumption DEF Finite, Days
<1>3. \A l \in Daily : l[1] = "daily" /\ l[2] \in Nat
  BY PartitionAssumption DEF Daily
<1>4. Open[1] = "open" /\ Open[2] \in Nat /\ NoLeaf[1] = "none"
  BY PartitionAssumption DEF Open, NoLeaf
<1>5. ASSUME NEW r \in Row, NEW d \in Days
      PROVE  /\ LeafOf(r, d) \in Leaf
             /\ LeafOf(r, d) \in Finite => LeafOf(r, d)[2] = d
  <2>1. d \in Nat
    BY PartitionAssumption DEF Days
  <2>2. CASE r \notin Forever
    BY <2>2 DEF LeafOf, Leaf, Finite
  <2>3. CASE r \in Forever /\ d < OpenFrom
    <3>1. LeafOf(r, d) = <<"daily", d>>
      BY <2>3 DEF LeafOf
    <3>2. d \in 0..(OpenFrom - 1)
      BY <2>1, <2>3, PartitionAssumption
    <3>3. LeafOf(r, d) \in Daily
      BY <3>1, <3>2 DEF Daily
    <3>4. QED
      BY <1>1, <3>1, <3>3
  <2>4. CASE r \in Forever /\ ~(d < OpenFrom)
    BY <1>1, <1>2, <1>4, <2>4 DEF LeafOf
  <2>5. QED
    BY <2>2, <2>3, <2>4
<1>6. QED
  BY <1>1, <1>2, <1>3, <1>4, <1>5 DEF Leaf

LEMMA RowsTyped ==
    ASSUME TypeOK, NEW r \in Row
    PROVE  /\ row[r].day \in Days /\ LeafOf(r, row[r].day) \in Leaf /\ day \in Nat
           /\ row[r].day \in Nat
<1>1. row[r].day \in Days /\ day \in Days
  BY DEF TypeOK
<1>2. \A d \in Days : d \in Nat
  BY PartitionAssumption DEF Days
<1>3. QED
  BY <1>1, <1>2, LeavesTyped

\* What is expired stays so.
LEMMA DueStays ==
    ASSUME TypeOK, day' = day \/ day' = day + 1, NEW l \in Leaf, Due(l)
    PROVE  Due(l)'
<1>1. l[2] \in Nat /\ day \in Nat /\ Keep \in Nat
  BY LeavesTyped, PartitionAssumption DEF TypeOK, Days
<1>2. QED
  BY <1>1 DEF Due

\* A row that is being inserted is too young for its finite leaf to be expired.
LEMMA InsertedYoung ==
    ASSUME TypeOK, NEW r \in Row, RowAt(r), row[r].at = "inserted",
           LeafOf(r, row[r].day) \in Finite
    PROVE  ~Due(LeafOf(r, row[r].day))
<1> DEFINE l == LeafOf(r, row[r].day)
<1>1. day <= row[r].day + 1 /\ day \in Nat /\ row[r].day \in Nat
  BY RowsTyped DEF RowAt, RowAs
<1>2. l[2] = row[r].day /\ l \notin Daily
  BY RowsTyped, LeavesTyped
<1>3. Keep \in Nat \ {0}
  BY PartitionAssumption
<1>4. QED
  BY <1>1, <1>2, <1>3 DEF Due

-----------------------------------------------------------------------------
(* Steps that leave relations and rows alone.                              *)

WorkerState ==
    [pc : Pcs, leaf : Leaf \cup {NoLeaf}, sel : SUBSET Leaf, old : BOOLEAN]

LEMMA WorkersTyped ==
    ASSUME TypeOK, NEW w \in Worker
    PROVE  /\ wk \in [Worker -> WorkerState] /\ wk[w] \in WorkerState
           /\ wk[w].pc \in Pcs /\ wk[w].sel \subseteq Leaf /\ wk[w].old \in BOOLEAN
           /\ wk[w].leaf \in Leaf \cup {NoLeaf}
           /\ Idle \in WorkerState /\ Idle.pc = "idle"
           /\ Catalog \subseteq Leaf /\ PrunePcs \subseteq Pcs
           /\ "idle" \notin PrunePcs /\ "install" \notin PrunePcs
           /\ "create" \notin PrunePcs /\ "created" \notin PrunePcs
BY DEF TypeOK, WorkerState, Idle, Catalog, PrunePcs, Pcs

\* The procedure of one worker goes on; the locks of leaves do not grow.
Elsewhere(w) ==
    \A v \in Worker \ {w} : wk'[v].pc = wk[v].pc /\ wk'[v].leaf = wk[v].leaf
PastDetach == PrunePcs \ {"detach", "wait"}

LEMMA RowsKept ==
    ASSUME IInv, row' = row, day' = day, phys' = phys,
           \A l \in Leaf : Locked(l)' => Locked(l)
    PROVE  \A r \in Row : RowAt(r)'
<1> SUFFICES ASSUME NEW r \in Row PROVE RowAt(r)'
  OBVIOUS
<1>1. LeafOf(r, row[r].day) \in Leaf /\ RowAt(r)
  BY RowsTyped DEF IInv
<1>2. QED
  BY <1>1 DEF RowAt, RowAs, Stored

LEMMA WalkStep ==
    ASSUME IInv, TypeOK', NEW w \in Worker, UNCHANGED <<day, phys, row>>, Elsewhere(w),
           \/ wk'[w].pc \notin PrunePcs
           \/ /\ wk[w].pc \in PastDetach /\ wk'[w].pc \in PastDetach
              /\ wk'[w].leaf = wk[w].leaf
    PROVE  IInv'
<1>1. \A v \in Worker : wk'[v].pc \in PrunePcs =>
          wk[v].pc \in PrunePcs /\ wk'[v].leaf = wk[v].leaf
  BY DEF Elsewhere, PastDetach
<1>2. OnePruner'
  BY <1>1 DEF IInv, OnePruner
<1>3. LeavesDue'
  BY DEF IInv, LeavesDue, Due
<1>4. \A v \in Worker : PrunerAt(v)'
  BY <1>1 DEF IInv, PrunerAt, Due, Elsewhere, PastDetach
<1>5. \A l \in Leaf : Locked(l)' => Locked(l)
  BY <1>1 DEF Locked
<1>6. \A r \in Row : RowAt(r)'
  BY <1>5, RowsKept
<1>7. QED
  BY <1>2, <1>3, <1>4, <1>6 DEF IInv

\* Goto, Done and ReadCatalog touch one worker.
LEMMA GotoTyped ==
    ASSUME TypeOK, NEW w \in Worker, NEW pc \in Pcs,
           Goto(w, pc) \/ ReadCatalog(w, pc) \/ (Done(w) /\ pc = "idle")
    PROVE  /\ wk' \in [Worker -> WorkerState] /\ wk'[w].pc = pc /\ Elsewhere(w)
           /\ pc # "idle" => wk'[w].leaf = wk[w].leaf
<1>1. wk \in [Worker -> WorkerState] /\ Catalog \subseteq Leaf /\ Idle \in WorkerState
      /\ Idle.pc = "idle"
  BY WorkersTyped
<1>2. CASE Goto(w, pc)
  BY <1>1, <1>2 DEF Goto, WorkerState, Elsewhere
<1>3. CASE ReadCatalog(w, pc)
  <2> DEFINE C == Catalog
  <2>1. C \in SUBSET Leaf
    BY <1>1
  <2> HIDE DEF C
  <2>2. wk' = [wk EXCEPT ![w].pc = pc, ![w].sel = C, ![w].old = FALSE]
    BY <1>3 DEF ReadCatalog, C
  <2>3. QED
    BY <1>1, <2>1, <2>2 DEF WorkerState, Elsewhere
<1>4. CASE Done(w) /\ pc = "idle"
  BY <1>1, <1>4 DEF Done, Elsewhere
<1>5. QED
  BY <1>2, <1>3, <1>4

LEMMA PublishedTyped ==
    ASSUME TypeOK, NEW w \in Worker, NEW next \in WorkerState, Published(w, next)
    PROVE  /\ wk' \in [Worker -> WorkerState] /\ wk'[w] = next /\ Elsewhere(w)
           /\ mixed' \in BOOLEAN
<1>1. wk \in [Worker -> WorkerState]
  BY WorkersTyped
<1>2. \A v \in Worker : [wk[v] EXCEPT !.old = @ \/ wk[v].sel # {}] \in WorkerState
  BY <1>1 DEF WorkerState
<1>3. QED
  BY <1>1, <1>2 DEF Published, WorkerState, Elsewhere, TypeOK

\* A step that only moves the procedure of one worker.
LEMMA MovesOn ==
    ASSUME IInv, NEW w \in Worker, NEW pc \in Pcs,
           Goto(w, pc) \/ ReadCatalog(w, pc) \/ (Done(w) /\ pc = "idle"),
           UNCHANGED <<day, phys, stamp, pub, row, mixed>>, faults' \in 0..MaxFaults,
           pc \notin PrunePcs \/ (wk[w].pc \in PastDetach /\ pc \in PastDetach)
    PROVE  IInv'
<1>1. /\ wk' \in [Worker -> WorkerState] /\ wk'[w].pc = pc /\ Elsewhere(w)
      /\ pc # "idle" => wk'[w].leaf = wk[w].leaf
  BY GotoTyped DEF IInv
<1>2. TypeOK'
  BY <1>1 DEF IInv, TypeOK, WorkerState
<1>3. "idle" \notin PastDetach
  BY DEF PastDetach, PrunePcs
<1>4. QED
  BY <1>1, <1>2, <1>3, WalkStep

\* A statement of a publication.
LEMMA PublishStep ==
    ASSUME IInv, NEW w \in Worker, NEW next \in WorkerState, Published(w, next),
           pub' \in [manifest : SUBSET Leaf, functions : SUBSET Leaf],
           UNCHANGED <<day, phys, stamp, row, faults>>,
           \/ next.pc \notin PrunePcs
           \/ wk[w].pc \in PastDetach /\ next.pc \in PastDetach /\ next.leaf = wk[w].leaf
    PROVE  IInv'
<1>1. wk' \in [Worker -> WorkerState] /\ wk'[w] = next /\ Elsewhere(w) /\ mixed' \in BOOLEAN
  BY PublishedTyped DEF IInv
<1>2. TypeOK'
  BY <1>1 DEF IInv, TypeOK, WorkerState
<1>3. QED
  BY <1>1, <1>2, WalkStep

LEMMA CoverageStep ==
    ASSUME IInv, NEW w \in Worker,
           ProbeConformant(w) \/ ProbeMissing(w) \/ EndCoverage(w) \/ Install(w) \/ Fail(w)
    PROVE  IInv'
<1>1. /\ {"idle", "install", "create"} \subseteq Pcs
      /\ {"idle", "install", "create"} \cap PrunePcs = {} /\ faults \in 0..MaxFaults
  BY DEF Pcs, PrunePcs, IInv, TypeOK
<1>2. CASE ProbeConformant(w)
  BY <1>1, <1>2, MovesOn DEF ProbeConformant
<1>3. CASE ProbeMissing(w)
  BY <1>1, <1>3, MovesOn DEF ProbeMissing
<1>4. CASE EndCoverage(w)
  <2>1. ReadCatalog(w, "install") \/ Done(w)
    BY <1>4 DEF EndCoverage
  <2>2. QED
    BY <1>1, <1>4, <2>1, MovesOn DEF EndCoverage
<1>5. CASE Install(w)
  <2>1. wk[w].sel \subseteq Leaf /\ Idle \in WorkerState /\ Idle.pc \notin PrunePcs
    BY WorkersTyped DEF IInv
  <2>2. pub' \in [manifest : SUBSET Leaf, functions : SUBSET Leaf]
    BY <1>5, <2>1 DEF Install
  <2>3. QED
    BY <1>5, <2>1, <2>2, PublishStep DEF Install
<1>6. CASE Fail(w)
  <2>1. faults' \in 0..MaxFaults
    BY <1>1, <1>6, PartitionAssumption DEF Fail
  <2>2. QED
    BY <1>1, <1>6, <2>1, MovesOn DEF Fail
<1>7. QED
  BY <1>2, <1>3, <1>4, <1>5, <1>6

-----------------------------------------------------------------------------
(* Steps of a pruner.                                                      *)

LEMMA PruneStep ==
    ASSUME IInv, NEW w \in Worker,
           \/ RecordDetached(w) \/ Republish(w) \/ RenderFunctions(w)
           \/ ClearManifest(w) \/ FillManifest(w)
    PROVE  IInv'
<1>1. /\ {"stamp", "check", "render", "clear", "fill"} \subseteq PastDetach
      /\ PastDetach \subseteq PrunePcs /\ PrunePcs \subseteq Pcs
      /\ "idle" \in Pcs /\ "idle" \notin PrunePcs
  BY DEF PastDetach, PrunePcs, Pcs
<1>2. /\ wk \in [Worker -> WorkerState] /\ wk[w] \in WorkerState /\ wk[w].sel \subseteq Leaf
      /\ Idle \in WorkerState /\ Idle.pc = "idle"
  BY WorkersTyped DEF IInv
<1>3. faults \in 0..MaxFaults /\ pub \in [manifest : SUBSET Leaf, functions : SUBSET Leaf]
  BY DEF IInv, TypeOK
<1>4. CASE RecordDetached(w)
  <2>1. /\ wk[w].pc = "stamp" /\ Goto(w, "check") /\ UNCHANGED <<day, phys, pub, row, mixed, faults>>
        /\ stamp' = [stamp EXCEPT ![wk[w].leaf] = "detached"]
    BY <1>4 DEF RecordDetached
  <2>2. wk[w].leaf \in Leaf /\ phys[wk[w].leaf] = "detached"
    BY <1>1, <2>1 DEF IInv, PrunerAt
  <2>3. wk' \in [Worker -> WorkerState] /\ wk'[w].pc = "check" /\ Elsewhere(w)
        /\ wk'[w].leaf = wk[w].leaf
    BY <1>1, <2>1, GotoTyped DEF IInv
  <2> DEFINE l == wk[w].leaf
  <2> HIDE DEF l
  <2>4. /\ stamp' \in [Leaf -> {"none", "live", "detached", "dropped"}]
        /\ \A k \in Leaf : /\ (phys'[k] = "gone") <=> (stamp'[k] = "dropped")
                           /\ (phys'[k] = "absent") <=> (stamp'[k] = "none")
    <3>1. stamp' = [stamp EXCEPT ![l] = "detached"] /\ phys' = phys /\ l \in Leaf /\ phys[l] = "detached"
      BY <2>1, <2>2 DEF l
    <3>2. QED
      BY <3>1 DEF IInv, TypeOK
  <2>5. TypeOK'
    BY <2>1, <2>3, <2>4 DEF IInv, TypeOK, WorkerState
  <2>6. QED
    BY <1>1, <2>1, <2>3, <2>5, WalkStep
<1>5. CASE Republish(w)
  <2>1. ReadCatalog(w, "render") \/ Done(w)
    BY <1>5 DEF Republish
  <2>2. QED
    BY <1>1, <1>3, <1>5, <2>1, MovesOn DEF Republish
<1>6. CASE RenderFunctions(w)
  <2> DEFINE next == [wk[w] EXCEPT !.pc = "clear"]
  <2>1. next \in WorkerState /\ next.pc = "clear" /\ next.leaf = wk[w].leaf
    BY <1>1, <1>2 DEF WorkerState
  <2>2. /\ wk[w].pc = "render" /\ Published(w, next) /\ UNCHANGED <<day, phys, stamp, row, faults>>
        /\ pub' \in [manifest : SUBSET Leaf, functions : SUBSET Leaf]
    BY <1>2, <1>3, <1>6 DEF RenderFunctions
  <2> HIDE DEF next
  <2>3. QED
    BY <1>1, <2>1, <2>2, PublishStep
<1>7. CASE ClearManifest(w)
  <2> DEFINE next == [wk[w] EXCEPT !.pc = "fill"]
  <2>1. next \in WorkerState /\ next.pc = "fill" /\ next.leaf = wk[w].leaf
    BY <1>1, <1>2 DEF WorkerState
  <2>2. /\ wk[w].pc = "clear" /\ Published(w, next) /\ UNCHANGED <<day, phys, stamp, row, faults>>
        /\ pub' \in [manifest : SUBSET Leaf, functions : SUBSET Leaf]
    BY <1>3, <1>7 DEF ClearManifest
  <2> HIDE DEF next
  <2>3. QED
    BY <1>1, <2>1, <2>2, PublishStep
<1>8. CASE FillManifest(w)
  <2>1. CASE pub.manifest \cap wk[w].sel = {}
    <3>1. /\ Published(w, Idle) /\ UNCHANGED <<day, phys, stamp, row, faults>>
          /\ pub' \in [manifest : SUBSET Leaf, functions : SUBSET Leaf]
      BY <1>2, <1>3, <1>8, <2>1 DEF FillManifest
    <3>2. QED
      BY <1>1, <1>2, <3>1, PublishStep
  <2>2. CASE pub.manifest \cap wk[w].sel # {}
    BY <1>1, <1>3, <1>8, <2>2, MovesOn DEF FillManifest
  <2>3. QED
    BY <2>1, <2>2
<1>9. QED
  BY <1>4, <1>5, <1>6, <1>7, <1>8

\* A pruner takes the lock of an expired leaf, without blockers.
LEMMA LockStep ==
    ASSUME IInv, NEW w \in Worker, NEW l \in Leaf, BeginDetach(w, l) \/ BeginFinalize(w, l)
    PROVE  IInv'
<1> DEFINE pc == IF BeginDetach(w, l) THEN "detach" ELSE "wait"
<1>1. /\ wk[w].pc = "idle" /\ ReaperGate(w) /\ Due(l) /\ Blockers(l) = {}
      /\ UNCHANGED <<day, phys, stamp, pub, row, mixed, faults>>
      /\ wk' = [wk EXCEPT ![w].pc = pc, ![w].leaf = l]
      /\ \/ pc = "detach" /\ phys[l] = "attached" /\ ~KeptNonEmpty(l)
         \/ pc = "wait" /\ phys[l] = "pending"
  BY DEF BeginDetach, BeginFinalize
<1> HIDE DEF pc
<1>2. pc \in PrunePcs /\ pc \in Pcs /\ wk \in [Worker -> WorkerState]
  BY <1>1, WorkersTyped DEF IInv, PrunePcs, Pcs
<1>3. /\ wk' \in [Worker -> WorkerState] /\ wk'[w].pc = pc /\ wk'[w].leaf = l
      /\ \A v \in Worker \ {w} : wk'[v] = wk[v]
  BY <1>1, <1>2 DEF WorkerState
<1>4. TypeOK'
  BY <1>1, <1>3 DEF IInv, TypeOK, WorkerState
<1>5. OnePruner' /\ \A v \in Worker \ {w} : wk'[v].pc \notin PrunePcs
  BY <1>1, <1>3 DEF IInv, OnePruner, ReaperGate
<1>6. LeavesDue'
  BY <1>1 DEF IInv, LeavesDue, Due
<1>7. \A v \in Worker : PrunerAt(v)'
  BY <1>1, <1>3, <1>5 DEF PrunerAt, Due
<1>8. \A k \in Leaf : Locked(k)' => k = l
  BY <1>3, <1>5 DEF Locked
<1>9. ASSUME NEW r \in Row PROVE RowAt(r)'
  <2>1. LeafOf(r, row[r].day) \in Leaf /\ RowAt(r)
    BY RowsTyped DEF IInv
  <2>2. PICK k \in Leaf : k = LeafOf(r, row[r].day)
    BY <2>1
  <2>3. row[r].at = "stored" /\ k \in Finite => k # l
    BY <1>1, <2>2 DEF Blockers, InLeaf, Stored
  <2>4. Stored(r) /\ k \in Daily /\ k = l => row[r].late
    <3>1. pc = "detach" => ~(Stored(r) /\ k \in Daily /\ k = l)
      BY <1>1, <2>2 DEF KeptNonEmpty, InLeaf
    <3>2. pc = "wait" /\ Stored(r) /\ k \in Daily /\ k = l => row[r].late
      BY <1>1, <2>1, <2>2 DEF RowAt, RowAs
    <3>3. QED
      BY <1>1, <3>1, <3>2
  <2>5. Locked(k)' => k = l
    BY <1>8, <2>2
  <2>6. phys' = phys /\ row' = row /\ day' = day /\ LeafOf(r, row'[r].day) = k
    BY <1>1, <2>2
  <2>7. RowAs(r, k)
    BY <2>1, <2>2 DEF RowAt
  <2>8. RowAs(r, k)'
    BY <2>3, <2>4, <2>5, <2>6, <2>7 DEF RowAs, Stored
  <2>9. QED
    BY <2>6, <2>8 DEF RowAt
<1>10. QED
  BY <1>4, <1>5, <1>6, <1>7, <1>9 DEF IInv

\* What is left to show of the rows when none of them moves and no day passes.
LEMMA RowsFollow ==
    ASSUME IInv, row' = row, day' = day,
           \A r \in Row, k \in Leaf :
              k = LeafOf(r, row[r].day) /\ RowAs(r, k) => RowAs(r, k)'
    PROVE  \A r \in Row : RowAt(r)'
<1> SUFFICES ASSUME NEW r \in Row PROVE RowAt(r)'
  OBVIOUS
<1>1. LeafOf(r, row[r].day) \in Leaf /\ RowAt(r)
  BY RowsTyped DEF IInv
<1>2. PICK k \in Leaf : k = LeafOf(r, row[r].day)
  BY <1>1
<1>3. RowAs(r, k)'
  BY <1>1, <1>2 DEF RowAt
<1>4. k = LeafOf(r, row'[r].day)
  BY <1>2
<1>5. QED
  BY <1>3, <1>4 DEF RowAt

\* The mark of the detach, and its end, for which no transaction inserts any more.
LEMMA DetachStep ==
    ASSUME IInv, NEW w \in Worker, MarkDetach(w) \/ EndDetach(w)
    PROVE  IInv'
<1>1. PICK p \in {"pending", "detached"}, pc \in {"wait", "stamp"} :
         /\ wk[w].pc \in {"detach", "wait"}
         /\ phys' = [phys EXCEPT ![wk[w].leaf] = p] /\ Goto(w, pc)
         /\ p = "detached" => Inserting(wk[w].leaf) = {}
         /\ pc = "wait" <=> p = "pending"
         /\ UNCHANGED <<day, stamp, pub, row, mixed, faults>>
  <2>1. CASE MarkDetach(w)
    <3>1. /\ wk[w].pc \in {"detach", "wait"}
          /\ phys' = [phys EXCEPT ![wk[w].leaf] = "pending"] /\ Goto(w, "wait")
          /\ UNCHANGED <<day, stamp, pub, row, mixed, faults>>
      BY <2>1 DEF MarkDetach
    <3>2. QED
      BY <3>1
  <2>2. CASE EndDetach(w)
    <3>1. /\ wk[w].pc \in {"detach", "wait"} /\ Inserting(wk[w].leaf) = {}
          /\ phys' = [phys EXCEPT ![wk[w].leaf] = "detached"] /\ Goto(w, "stamp")
          /\ UNCHANGED <<day, stamp, pub, row, mixed, faults>>
      BY <2>2 DEF EndDetach
    <3>2. QED
      BY <3>1
  <2>3. QED
    BY <2>1, <2>2
<1>2. PICK l \in Leaf : l = wk[w].leaf
  BY <1>1 DEF IInv, PrunerAt, PrunePcs
<1>3. {"detach", "wait", "stamp"} \subseteq PrunePcs /\ PrunePcs \subseteq Pcs
  BY DEF PrunePcs, Pcs
<1>4. Due(l) /\ phys[l] \in {"attached", "pending"} /\ wk[w].pc \in PrunePcs
  BY <1>1, <1>2, <1>3 DEF IInv, PrunerAt
<1>5. wk' \in [Worker -> WorkerState] /\ wk'[w].pc = pc /\ Elsewhere(w) /\ wk'[w].leaf = l
  <2>1. pc \in Pcs /\ pc # "idle"
    BY <1>3
  <2>2. QED
    BY <1>1, <1>2, <2>1, GotoTyped DEF IInv
<1>6. phys \in [Leaf -> {"absent", "attached", "pending", "detached", "gone"}]
      /\ phys' = [phys EXCEPT ![l] = p]
  BY <1>1, <1>2 DEF IInv, TypeOK
<1>7. phys'[l] = p /\ \A k \in Leaf \ {l} : phys'[k] = phys[k]
  BY <1>6
<1>8. TypeOK'
  <2>1. phys' \in [Leaf -> {"absent", "attached", "pending", "detached", "gone"}]
    BY <1>6
  <2>2. \A k \in Leaf : /\ (phys'[k] = "gone") <=> (stamp'[k] = "dropped")
                        /\ (phys'[k] = "absent") <=> (stamp'[k] = "none")
    BY <1>1, <1>4, <1>7 DEF IInv, TypeOK
  <2>3. QED
    BY <1>1, <1>5, <2>1, <2>2 DEF IInv, TypeOK, WorkerState
<1>9. OnePruner' /\ \A v \in Worker \ {w} : wk'[v].pc \notin PrunePcs
  BY <1>1, <1>3, <1>5 DEF IInv, OnePruner, Elsewhere
<1>10. LeavesDue'
  BY <1>1, <1>4, <1>7 DEF IInv, LeavesDue, Due
<1>11. \A v \in Worker : PrunerAt(v)'
  BY <1>1, <1>4, <1>5, <1>7, <1>9 DEF PrunerAt, Due
<1>12. Locked(l) /\ \A k \in Leaf : Locked(k)' => k = l
  BY <1>2, <1>4, <1>5, <1>9 DEF Locked
<1>13. ASSUME NEW r \in Row, NEW k \in Leaf, k = LeafOf(r, row[r].day), RowAs(r, k)
       PROVE  RowAs(r, k)'
  <2>1. k = l => row[r].at # "inserted" \/ p = "pending"
    BY <1>1, <1>2, <1>13 DEF Inserting
  <2>2. CASE k = l
    BY <1>1, <1>7, <1>12, <1>13, <2>1, <2>2 DEF RowAs, Stored
  <2>3. CASE k # l
    <3>1. phys'[k] = phys[k] /\ ~Locked(k)' /\ row' = row /\ day' = day
      BY <1>1, <1>7, <1>12, <2>3
    <3>2. QED
      BY <1>13, <3>1 DEF RowAs, Stored
  <2>4. QED
    BY <2>2, <2>3
<1>14. \A r \in Row : RowAt(r)'
  BY <1>1, <1>13, RowsFollow
<1>15. QED
  BY <1>8, <1>9, <1>10, <1>11, <1>14 DEF IInv

-----------------------------------------------------------------------------
(* A leaf comes or goes.                                                   *)

LEMMA CreateStep ==
    ASSUME IInv, NEW w \in Worker, NEW l \in Leaf, CreateLeaf(w, l)
    PROVE  IInv'
<1>1. /\ phys[l] = "absent" /\ ~Locked(l) /\ wk[w].pc \notin PrunePcs
      /\ phys' = [phys EXCEPT ![l] = "attached"] /\ stamp' = [stamp EXCEPT ![l] = "live"]
      /\ Goto(w, "created") /\ UNCHANGED <<day, pub, row, mixed, faults>>
  BY DEF CreateLeaf, Missing, PrunePcs
<1>2. /\ wk' \in [Worker -> WorkerState] /\ wk'[w].pc = "created" /\ Elsewhere(w)
  <2>1. "created" \in Pcs
    BY DEF Pcs
  <2>2. QED
    BY <1>1, <2>1, GotoTyped DEF IInv
<1>3. /\ phys'[l] = "attached" /\ stamp'[l] = "live"
      /\ \A k \in Leaf \ {l} : phys'[k] = phys[k] /\ stamp'[k] = stamp[k]
      /\ phys' \in [Leaf -> {"absent", "attached", "pending", "detached", "gone"}]
      /\ stamp' \in [Leaf -> {"none", "live", "detached", "dropped"}]
  BY <1>1 DEF IInv, TypeOK
<1>4. TypeOK'
  <2>1. \A k \in Leaf : /\ (phys'[k] = "gone") <=> (stamp'[k] = "dropped")
                        /\ (phys'[k] = "absent") <=> (stamp'[k] = "none")
    BY <1>3 DEF IInv, TypeOK
  <2>2. QED
    BY <1>1, <1>2, <1>3, <2>1 DEF IInv, TypeOK, WorkerState
<1>5. "created" \notin PrunePcs
  BY DEF PrunePcs
<1>6. \A v \in Worker : wk'[v].pc \in PrunePcs =>
         v # w /\ wk'[v].pc = wk[v].pc /\ wk'[v].leaf = wk[v].leaf
  BY <1>2, <1>5 DEF Elsewhere
<1>7. OnePruner'
  BY <1>6 DEF IInv, OnePruner
<1>8. LeavesDue'
  BY <1>1, <1>3 DEF IInv, LeavesDue, Due
<1>9. ASSUME NEW v \in Worker PROVE PrunerAt(v)'
  <2>1. CASE wk'[v].pc \notin PrunePcs
    BY <2>1 DEF PrunerAt
  <2>2. CASE wk'[v].pc \in PrunePcs
    <3>1. wk[v].pc \in PrunePcs /\ wk'[v].pc = wk[v].pc /\ wk'[v].leaf = wk[v].leaf
      BY <1>6, <2>2
    <3>2. wk[v].leaf # l /\ wk[v].leaf \in Leaf /\ PrunerAt(v)
      BY <1>1, <3>1 DEF Locked, IInv, PrunerAt
    <3>3. phys'[wk[v].leaf] = phys[wk[v].leaf]
      BY <1>3, <3>2
    <3>4. QED
      BY <1>1, <3>1, <3>2, <3>3 DEF PrunerAt, Due
  <2>3. QED
    BY <2>1, <2>2
<1>10. \A k \in Leaf : Locked(k)' => Locked(k)
  BY <1>6 DEF Locked
<1>11. ASSUME NEW r \in Row, NEW k \in Leaf, k = LeafOf(r, row[r].day), RowAs(r, k)
       PROVE  RowAs(r, k)'
  <2>1. row' = row /\ day' = day /\ (Locked(k)' => Locked(k))
    BY <1>1, <1>10
  <2>2. CASE k = l
    BY <1>1, <1>11, <2>1, <2>2 DEF RowAs, Stored
  <2>3. CASE k # l
    BY <1>3, <1>11, <2>1, <2>3 DEF RowAs, Stored
  <2>4. QED
    BY <2>2, <2>3
<1>12. \A r \in Row : RowAt(r)'
  BY <1>1, <1>11, RowsFollow
<1>13. QED
  BY <1>4, <1>7, <1>8, <1>9, <1>12 DEF IInv

\* The drop looks for rows that are kept, and finds no blockers in a detached leaf.
LEMMA DropStep ==
    ASSUME IInv, NEW w \in Worker, NEW l \in Leaf, Drop(w, l)
    PROVE  IInv'
<1>1. /\ phys[l] = "detached" /\ Due(l) /\ ~Locked(l) /\ ~KeptNonEmpty(l)
      /\ phys' = [phys EXCEPT ![l] = "gone"] /\ stamp' = [stamp EXCEPT ![l] = "dropped"]
      /\ UNCHANGED <<day, pub, row, mixed, faults>>
      /\ wk' = [v \in Worker |-> [wk[v] EXCEPT !.old = @ \/ l \in wk[v].sel]]
  BY DEF Drop, StampDropped
<1>2. /\ phys'[l] = "gone" /\ stamp'[l] = "dropped"
      /\ \A k \in Leaf \ {l} : phys'[k] = phys[k] /\ stamp'[k] = stamp[k]
      /\ phys' \in [Leaf -> {"absent", "attached", "pending", "detached", "gone"}]
      /\ stamp' \in [Leaf -> {"none", "live", "detached", "dropped"}]
  BY <1>1 DEF IInv, TypeOK
<1>3. /\ wk' \in [Worker -> WorkerState]
      /\ \A v \in Worker : wk'[v].pc = wk[v].pc /\ wk'[v].leaf = wk[v].leaf
  <2>1. wk \in [Worker -> WorkerState]
    BY WorkersTyped DEF IInv
  <2>2. \A v \in Worker : LET x == [wk[v] EXCEPT !.old = @ \/ l \in wk[v].sel] IN
          x \in WorkerState /\ x.pc = wk[v].pc /\ x.leaf = wk[v].leaf
    BY <2>1 DEF WorkerState
  <2>3. QED
    BY <1>1, <2>2
<1>4. TypeOK'
  <2>1. \A k \in Leaf : /\ (phys'[k] = "gone") <=> (stamp'[k] = "dropped")
                        /\ (phys'[k] = "absent") <=> (stamp'[k] = "none")
    BY <1>2 DEF IInv, TypeOK
  <2>2. QED
    BY <1>1, <1>2, <1>3, <2>1 DEF IInv, TypeOK, WorkerState
<1>5. OnePruner' /\ LeavesDue'
  BY <1>1, <1>2, <1>3 DEF IInv, OnePruner, LeavesDue, Due
<1>6. ASSUME NEW v \in Worker PROVE PrunerAt(v)'
  <2>1. CASE wk[v].pc \notin PrunePcs
    BY <1>1, <1>3, <2>1 DEF PrunerAt
  <2>2. CASE wk[v].pc \in PrunePcs
    <3>1. wk[v].leaf # l /\ wk[v].leaf \in Leaf /\ PrunerAt(v)
      BY <1>1, <2>2 DEF Locked, IInv, PrunerAt
    <3>2. phys'[wk[v].leaf] = phys[wk[v].leaf]
      BY <1>2, <3>1
    <3>3. QED
      BY <1>1, <1>3, <2>2, <3>1, <3>2 DEF PrunerAt, Due
  <2>3. QED
    BY <2>1, <2>2
<1>7. ASSUME NEW r \in Row, NEW k \in Leaf, k = LeafOf(r, row[r].day), RowAs(r, k)
      PROVE  RowAs(r, k)'
  <2>1. row' = row /\ day' = day /\ (Locked(k)' <=> Locked(k))
    BY <1>1, <1>3 DEF Locked
  <2>2. CASE k = l
    <3>1. k \in Daily => ~Stored(r)
      BY <1>1, <1>7, <2>2 DEF KeptNonEmpty, InLeaf
    <3>2. QED
      BY <1>1, <1>2, <1>7, <2>1, <2>2, <3>1 DEF RowAs, Stored
  <2>3. CASE k # l
    BY <1>2, <1>7, <2>1, <2>3 DEF RowAs, Stored
  <2>4. QED
    BY <2>2, <2>3
<1>8. \A r \in Row : RowAt(r)'
  BY <1>1, <1>7, RowsFollow
<1>9. QED
  BY <1>4, <1>5, <1>6, <1>8 DEF IInv

-----------------------------------------------------------------------------
(* Rows move, days pass.                                                   *)

RowState ==
    [at : {"live", "inserted", "stored", "applied"}, day : Days, late : BOOLEAN]

\* A step of one row to the state x, whose leaf is l.
LEMMA RowStep ==
    ASSUME IInv, UNCHANGED <<day, phys, stamp, pub, wk, mixed, faults>>,
           NEW r \in Row, NEW x \in RowState, row' = [row EXCEPT ![r] = x],
           NEW l \in Leaf, l = LeafOf(r, x.day), RowAs(r, l)'
    PROVE  IInv'
<1>1. row \in [Row -> RowState]
  BY DEF IInv, TypeOK, RowState
<1>2. row' \in [Row -> RowState] /\ row'[r] = x /\ \A q \in Row \ {r} : row'[q] = row[q]
  BY <1>1
<1>3. TypeOK' /\ OnePruner' /\ LeavesDue' /\ \A v \in Worker : PrunerAt(v)'
  BY <1>2 DEF IInv, TypeOK, RowState, OnePruner, LeavesDue, PrunerAt, Due
<1>4. ASSUME NEW q \in Row PROVE RowAt(q)'
  <2>1. CASE q = r
    <3>1. l = LeafOf(q, row'[q].day)
      BY <1>2, <2>1
    <3>2. QED
      BY <2>1, <3>1 DEF RowAt
  <2>2. CASE q # r
    <3>1. LeafOf(q, row[q].day) \in Leaf /\ RowAt(q)
      BY RowsTyped DEF IInv
    <3>2. PICK k \in Leaf : k = LeafOf(q, row[q].day)
      BY <3>1
    <3>3. row'[q] = row[q] /\ k = LeafOf(q, row'[q].day)
      BY <1>2, <2>2, <3>2
    <3>4. RowAs(q, k) /\ (Locked(k)' <=> Locked(k)) /\ phys' = phys /\ day' = day
      BY <3>1, <3>2 DEF RowAt, Locked
    <3>5. RowAs(q, k)'
      BY <3>3, <3>4 DEF RowAs, Stored
    <3>6. QED
      BY <3>3, <3>5 DEF RowAt
  <2>3. QED
    BY <2>1, <2>2
<1>5. QED
  BY <1>3, <1>4 DEF IInv

LEMMA InsertStep ==
    ASSUME IInv, NEW r \in Row, Insert(r)
    PROVE  IInv'
<1>1. PICK d \in {day, day - 1} \cap Days :
        /\ phys[LeafOf(r, d)] = "attached"
        /\ row' = [row EXCEPT ![r].at = "inserted", ![r].day = d]
  BY DEF Insert
<1>2. UNCHANGED <<day, phys, stamp, pub, wk, mixed, faults>> /\ day \in Nat
  BY RowsTyped DEF Insert, IInv
<1>3. row \in [Row -> RowState]
  BY DEF IInv, TypeOK, RowState
<1> DEFINE x == [row[r] EXCEPT !.at = "inserted", !.day = d]
<1>4. x \in RowState /\ x.at = "inserted" /\ x.day = d /\ row' = [row EXCEPT ![r] = x]
  BY <1>1, <1>3 DEF RowState
<1> HIDE DEF x
<1>5. PICK l \in Leaf : l = LeafOf(r, d)
  BY LeavesTyped
<1>6. row'[r] = x /\ phys'[l] = "attached" /\ day' <= d + 1
  <2>1. row'[r] = x
    BY <1>3, <1>4
  <2>2. phys'[l] = "attached"
    BY <1>1, <1>2, <1>5
  <2>3. day' <= d + 1
    <3>1. day' = day /\ (d = day \/ d = day - 1)
      BY <1>1, <1>2
    <3>2. QED
      BY <1>2, <3>1
  <2>4. QED
    BY <2>1, <2>2, <2>3
<1>7. RowAs(r, l)'
  BY <1>4, <1>6 DEF RowAs, Stored
<1>8. QED
  BY <1>2, <1>4, <1>5, <1>7, RowStep

\* What commits in a leaf that is on its way out is late.
LEMMA CommitStep ==
    ASSUME IInv, NEW r \in Row, CommitRow(r)
    PROVE  IInv'
<1>1. PICK l \in Leaf : l = LeafOf(r, row[r].day)
  BY RowsTyped DEF IInv
<1>2. PICK at \in {"stored", "applied"}, late \in BOOLEAN :
        /\ row' = [row EXCEPT ![r].at = at, ![r].late = late]
        /\ late <=> l \in Daily /\ Due(l)
  <2> DEFINE at == IF r \in WithOutbox THEN "stored" ELSE "applied"
             late == l \in Daily /\ Due(l)
  <2>1. at \in {"stored", "applied"} /\ late \in BOOLEAN
    OBVIOUS
  <2>2. row' = [row EXCEPT ![r].at = at, ![r].late = late]
    BY <1>1 DEF CommitRow
  <2> HIDE DEF at
  <2>3. QED
    BY <2>1, <2>2
<1>3. row[r].at = "inserted" /\ UNCHANGED <<day, phys, stamp, pub, wk, mixed, faults>>
  BY DEF CommitRow
<1>4. row \in [Row -> RowState]
  BY DEF IInv, TypeOK, RowState
<1> DEFINE x == [row[r] EXCEPT !.at = at, !.late = late]
<1>5. x \in RowState /\ x.at = at /\ x.day = row[r].day /\ x.late = late
      /\ row' = [row EXCEPT ![r] = x]
  BY <1>2, <1>4 DEF RowState
<1> HIDE DEF x
<1>6. row'[r] = x
  BY <1>4, <1>5
<1>7. RowAs(r, l)
  BY <1>1 DEF IInv, RowAt
<1>8. phys[l] \in {"attached", "pending"} /\ (l \in Finite => ~Due(l))
  BY <1>1, <1>3, <1>7, InsertedYoung DEF IInv, RowAs
<1>9. phys[l] = "pending" \/ Locked(l) => Due(l)
  <2>1. phys[l] = "pending" => Due(l)
    BY DEF IInv, LeavesDue
  <2>2. Locked(l) => Due(l)
    BY DEF IInv, PrunerAt, Locked
  <2>3. QED
    BY <2>1, <2>2
<1>10. Locked(l)' <=> Locked(l)
  BY <1>3 DEF Locked
<1>11. RowAs(r, l)'
  BY <1>2, <1>3, <1>5, <1>6, <1>8, <1>9, <1>10 DEF RowAs, Stored
<1>12. QED
  BY <1>1, <1>3, <1>5, <1>11, RowStep

LEMMA ApplyStep ==
    ASSUME IInv, NEW r \in Row, Apply(r)
    PROVE  IInv'
<1>1. PICK l \in Leaf : l = LeafOf(r, row[r].day)
  BY RowsTyped DEF IInv
<1>2. /\ row[r].at = "stored" /\ UNCHANGED <<day, phys, stamp, pub, wk, mixed, faults>>
      /\ row' = [row EXCEPT ![r].at = "applied"]
  BY DEF Apply
<1>3. row \in [Row -> RowState]
  BY DEF IInv, TypeOK, RowState
<1> DEFINE x == [row[r] EXCEPT !.at = "applied"]
<1>4. x \in RowState /\ x.at = "applied" /\ x.day = row[r].day /\ x.late = row[r].late
      /\ row' = [row EXCEPT ![r] = x]
  BY <1>2, <1>3 DEF RowState
<1> HIDE DEF x
<1>5. row'[r] = x
  BY <1>3, <1>4
<1>6. RowAs(r, l) /\ (Locked(l)' <=> Locked(l))
  BY <1>1, <1>2 DEF IInv, RowAt, Locked
<1>7. RowAs(r, l)'
  BY <1>2, <1>4, <1>5, <1>6 DEF RowAs, Stored
<1>8. QED
  BY <1>1, <1>2, <1>4, <1>7, RowStep

\* What is expired stays so, and who inserts has begun today.
LEMMA DayStep ==
    ASSUME IInv, EndOfDay
    PROVE  IInv'
<1>1. /\ day' = day + 1 /\ day < MaxDay /\ UNCHANGED <<phys, stamp, pub, wk, row, mixed, faults>>
      /\ \A r \in Row : row[r].at = "inserted" => row[r].day = day
  BY DEF EndOfDay
<1>2. day \in Nat /\ day' \in Days
  BY <1>1, PartitionAssumption DEF IInv, TypeOK, Days
<1>3. TypeOK' /\ OnePruner'
  BY <1>1, <1>2 DEF IInv, TypeOK, OnePruner
<1>4. \A l \in Leaf : Due(l) => Due(l)'
  BY <1>1, DueStays DEF IInv
<1>5. LeavesDue'
  BY <1>1, <1>4 DEF IInv, LeavesDue
<1>6. ASSUME NEW v \in Worker PROVE PrunerAt(v)'
  <2>1. PrunerAt(v) /\ wk' = wk /\ phys' = phys
    BY <1>1 DEF IInv
  <2>2. CASE wk[v].pc \notin PrunePcs
    BY <2>1, <2>2 DEF PrunerAt
  <2>3. CASE wk[v].pc \in PrunePcs
    <3>1. PICK l \in Leaf : l = wk[v].leaf
      BY <2>1, <2>3 DEF PrunerAt
    <3>2. Due(l)' /\ l = wk'[v].leaf
      BY <1>4, <2>1, <2>3, <3>1 DEF PrunerAt
    <3>3. QED
      BY <2>1, <2>3, <3>1, <3>2 DEF PrunerAt
  <2>4. QED
    BY <2>2, <2>3
<1>7. ASSUME NEW r \in Row PROVE RowAt(r)'
  <2>1. LeafOf(r, row[r].day) \in Leaf /\ RowAt(r)
    BY RowsTyped DEF IInv
  <2>2. PICK l \in Leaf : l = LeafOf(r, row[r].day)
    BY <2>1
  <2>3. RowAs(r, l) /\ (Locked(l)' <=> Locked(l))
    BY <1>1, <2>1, <2>2 DEF RowAt, Locked
  <2>4. row[r].at = "inserted" => day' <= row[r].day + 1
    BY <1>1, <1>2
  <2>5. RowAs(r, l)'
    BY <1>1, <2>3, <2>4 DEF RowAs, Stored
  <2>6. l = LeafOf(r, row'[r].day)
    BY <1>1, <2>2
  <2>7. QED
    BY <2>5, <2>6 DEF RowAt
<1>8. QED
  BY <1>3, <1>5, <1>6, <1>7 DEF IInv

-----------------------------------------------------------------------------
(* The theorems.                                                           *)

LEMMA InitHolds == Init => IInv
<1> SUFFICES ASSUME Init PROVE IInv
  OBVIOUS
<1> DEFINE there == {l \in Finite : l[2] <= Horizon} \cup Daily \cup {Open}
<1>1. there \subseteq Leaf
  BY LeavesTyped
<1> HIDE DEF there
<1>2. /\ phys = [l \in Leaf |-> IF l \in there THEN "attached" ELSE "absent"]
      /\ stamp = [l \in Leaf |-> IF l \in there THEN "live" ELSE "none"]
      /\ pub = [manifest |-> there, functions |-> there]
      /\ day = 0 /\ wk = [w \in Worker |-> Idle] /\ mixed = FALSE /\ faults = 0
      /\ row = [r \in Row |-> [at |-> "live", day |-> 0, late |-> FALSE]]
  BY DEF Init, there
<1>3. 0 \in Days /\ 0 \in 0..MaxFaults
  BY PartitionAssumption DEF Days
<1>4. wk \in [Worker -> [pc : Pcs, leaf : Leaf \cup {NoLeaf},
                         sel : SUBSET Leaf, old : BOOLEAN]]
  BY <1>2 DEF Idle, Pcs
<1>5. TypeOK
  <2>1. /\ phys \in [Leaf -> {"absent", "attached", "pending", "detached", "gone"}]
        /\ stamp \in [Leaf -> {"none", "live", "detached", "dropped"}]
        /\ \A l \in Leaf : /\ (phys[l] = "gone") <=> (stamp[l] = "dropped")
                           /\ (phys[l] = "absent") <=> (stamp[l] = "none")
    BY <1>2
  <2>2. pub \in [manifest : SUBSET Leaf, functions : SUBSET Leaf]
    BY <1>1, <1>2
  <2>3. row \in [Row -> [at : {"live", "inserted", "stored", "applied"},
                         day : Days, late : BOOLEAN]]
    BY <1>2, <1>3
  <2>4. QED
    BY <1>2, <1>3, <1>4, <2>1, <2>2, <2>3 DEF TypeOK
<1>6. \A w \in Worker : wk[w].pc \notin PrunePcs
  BY <1>2 DEF Idle, PrunePcs
<1>7. OnePruner /\ \A w \in Worker : PrunerAt(w)
  BY <1>6 DEF OnePruner, PrunerAt
<1>8. LeavesDue
  BY <1>2 DEF LeavesDue
<1>9. \A r \in Row : RowAt(r)
  BY <1>2 DEF RowAt, RowAs, Stored
<1>10. QED
  BY <1>5, <1>7, <1>8, <1>9 DEF IInv

LEMMA NextStep == IInv /\ [Next]_vars => IInv'
<1> SUFFICES ASSUME IInv, [Next]_vars PROVE IInv'
  OBVIOUS
<1>1. ASSUME NEW w \in Worker, Coverage(w) \/ Fail(w) PROVE IInv'
  <2>1. CASE \E l \in Leaf : CreateLeaf(w, l)
    BY <2>1, CreateStep
  <2>2. CASE ~\E l \in Leaf : CreateLeaf(w, l)
    BY <1>1, <2>2, CoverageStep DEF Coverage
  <2>3. QED
    BY <2>1, <2>2
<1>2. ASSUME NEW w \in Worker, GoOn(w) PROVE IInv'
  BY <1>2, DetachStep, PruneStep DEF GoOn
<1>3. ASSUME NEW w \in Worker, NEW l \in Leaf, Candidate(w, l) PROVE IInv'
  BY <1>3, LockStep, DropStep DEF Candidate
<1>4. ASSUME NEW r \in Row, Move(r) PROVE IInv'
  BY <1>4, InsertStep, CommitStep, ApplyStep DEF Move
<1>5. CASE UNCHANGED vars
  <2>1. UNCHANGED <<day, phys, stamp, pub, wk, row, mixed, faults>>
    BY <1>5 DEF vars
  <2>2. TypeOK' /\ OnePruner' /\ LeavesDue' /\ \A v \in Worker : PrunerAt(v)'
    BY <2>1 DEF IInv, TypeOK, OnePruner, LeavesDue, PrunerAt, Due
  <2>3. \A l \in Leaf : Locked(l)' => Locked(l)
    BY <2>1 DEF Locked
  <2>4. QED
    BY <2>1, <2>2, <2>3, RowsKept DEF IInv
<1>6. QED
  BY <1>1, <1>2, <1>3, <1>4, <1>5, DayStep DEF Next

\* The invariant holds in every state, with however many workers, rows, deaths
\* and days.
THEOREM InvariantHolds == Spec => []IInv
<1>1. Init => IInv
  BY InitHolds
<1>2. IInv /\ [Next]_vars => IInv'
  BY NextStep
<1>3. QED
  BY <1>1, <1>2, PTL DEF Spec

\* The catalog says of every relation whether it exists, in every state.
THEOREM TypeCorrect == Spec => []TypeOK
<1>1. IInv => TypeOK
  BY DEF IInv
<1>2. QED
  BY <1>1, InvariantHolds, PTL

\* Retention takes no row that is still wanted: none whose leaf is not expired,
\* none whose result a workflow has yet to consume.
THEOREM WantedStay == Spec => []WantedRowsStay
<1>1. ASSUME IInv PROVE WantedRowsStay
  <2> SUFFICES ASSUME NEW r \in Row, NEW l \in Leaf, l = LeafOf(r, row[r].day),
                      \/ row[r].at = "stored"
                      \/ Stored(r) /\ ~(l \in Finite /\ Due(l))
               PROVE  /\ phys[l] # "gone"
                      /\ phys[l] = "attached" \/ row[r].late
    BY <1>1, RowsTyped DEF WantedRowsStay, IInv
  <2>1. RowAs(r, l) /\ Stored(r)
    BY <1>1 DEF IInv, RowAt, Stored
  <2>2. CASE l \in Finite
    <3>1. phys[l] \notin {"absent", "pending", "detached", "gone"}
      BY <1>1, <2>1, <2>2 DEF IInv, LeavesDue, RowAs
    <3>2. QED
      BY <1>1, <3>1 DEF IInv, TypeOK
  <2>3. CASE l \in Daily
    BY <2>1, <2>3 DEF RowAs
  <2>4. CASE l \notin Finite \cup Daily
    <3>1. ~Due(l)
      BY <2>4 DEF Due
    <3>2. phys[l] \notin {"absent", "pending", "detached", "gone"}
      BY <1>1, <2>1, <3>1 DEF IInv, LeavesDue, RowAs
    <3>3. QED
      BY <1>1, <3>2 DEF IInv, TypeOK
  <2>5. QED
    BY <2>2, <2>3, <2>4
<1>2. QED
  BY <1>1, InvariantHolds, PTL

-----------------------------------------------------------------------------
(* The published readers.  What a publication writes it read from the      *)
(* catalog, and nobody drops a leaf meanwhile without making it old; and   *)
(* between publications the functions name no leaf that the manifest does  *)
(* not name, unless a worker died in between its statements.               *)

Writing == {"clear", "fill"}
Publishing == {"install", "render"} \cup Writing

\* The open-ended leaf is always there, so no publication is empty.
OpenStays == phys[Open] = "attached" /\ stamp[Open] = "live"

\* What w read from the catalog.
SelectionAt(w) ==
    /\ wk[w].pc \in Publishing => Open \in wk[w].sel
    /\ \A l \in wk[w].sel : phys[l] # "gone" \/ wk[w].old

\* The functions and the manifest, while w is about to clear or to fill the latter.
WrittenAt(w) ==
    /\ wk[w].pc \in Writing /\ wk[w].old =>
          pub.functions \subseteq pub.manifest /\ Open \in pub.manifest
    /\ wk[w].pc \in Writing /\ ~wk[w].old => pub.functions = wk[w].sel
    /\ wk[w].pc = "fill" /\ ~wk[w].old => pub.manifest = {}

\* A worker died, and the functions name leaves that the manifest does not name.
Torn == faults > 0 /\ ~(pub.functions \subseteq pub.manifest)

PublishedSound ==
    /\ \A l \in pub.manifest : phys[l] # "gone"
    /\ \A w \in Worker : WrittenAt(w)
    /\ (\A w \in Worker : wk[w].pc \notin Writing) =>
          Torn \/ pub.functions \subseteq pub.manifest

RInv == OpenStays /\ (\A w \in Worker : SelectionAt(w)) /\ (mixed \/ PublishedSound)

LEMMA OpenNeverDue == Open \in Leaf /\ ~Due(Open)
BY LeavesTyped DEF Due

LEMMA CatalogThere ==
    ASSUME OpenStays
    PROVE  Open \in Catalog /\ \A l \in Catalog : phys[l] # "gone"
BY LeavesTyped DEF OpenStays, Catalog, Exists

LEMMA SelectionKept ==
    ASSUME NEW v, SelectionAt(v), wk'[v].sel = wk[v].sel, wk[v].old => wk'[v].old,
           wk'[v].pc = wk[v].pc \/ wk'[v].pc \notin Publishing,
           \A l \in wk[v].sel : phys'[l] = "gone" => phys[l] = "gone"
    PROVE  SelectionAt(v)'
BY DEF SelectionAt

\* A step that publishes nothing and drops nothing that is published.
LEMMA QuietStep ==
    ASSUME RInv, pub' = pub, mixed' = mixed, faults > 0 => faults' > 0, OpenStays',
           \A v \in Worker : SelectionAt(v)',
           \A l \in pub.manifest : phys'[l] = "gone" => phys[l] = "gone",
           \A v \in Worker : wk'[v].pc \in Writing =>
                wk'[v].pc = wk[v].pc /\ wk'[v].sel = wk[v].sel /\ wk'[v].old = wk[v].old,
           \A v \in Worker : wk[v].pc \in Writing =>
                wk'[v].pc \in Writing \/ faults' > 0 \/ pub.functions \subseteq pub.manifest
    PROVE  RInv'
<1>1. CASE mixed
  BY <1>1 DEF RInv
<1>2. CASE PublishedSound
  <2>1. \A l \in pub'.manifest : phys'[l] # "gone"
    BY <1>2 DEF PublishedSound
  <2>2. \A v \in Worker : WrittenAt(v)'
    BY <1>2 DEF PublishedSound, WrittenAt, Writing
  <2>3. (\A v \in Worker : wk'[v].pc \notin Writing) =>
            Torn' \/ pub'.functions \subseteq pub'.manifest
    BY <1>2 DEF PublishedSound, Torn
  <2>4. PublishedSound'
    BY <2>1, <2>2, <2>3 DEF PublishedSound
  <2>5. QED
    BY <2>4 DEF RInv
<1>3. QED
  BY <1>1, <1>2 DEF RInv

\* One worker moves its procedure; the others stay as they are.
Alone(w) == \A v \in Worker \ {w} : wk'[v] = wk[v]

LEMMA MoveReads ==
    ASSUME TypeOK, NEW w \in Worker, NEW pc \in Pcs,
           Goto(w, pc) \/ ReadCatalog(w, pc) \/ (Done(w) /\ pc = "idle")
    PROVE  /\ Alone(w) /\ wk'[w].pc = pc
           /\ Goto(w, pc) => wk'[w].sel = wk[w].sel /\ wk'[w].old = wk[w].old
           /\ ReadCatalog(w, pc) => wk'[w].sel = Catalog /\ ~wk'[w].old
           /\ Done(w) => wk'[w].sel = {}
<1>1. wk \in [Worker -> WorkerState]
  BY WorkersTyped
<1>2. ASSUME Goto(w, pc)
      PROVE  Alone(w) /\ wk'[w].pc = pc /\ wk'[w].sel = wk[w].sel /\ wk'[w].old = wk[w].old
  BY <1>1, <1>2 DEF Goto, WorkerState, Alone
<1>3. ASSUME ReadCatalog(w, pc)
      PROVE  Alone(w) /\ wk'[w].pc = pc /\ wk'[w].sel = Catalog /\ ~wk'[w].old
  <2> DEFINE C == Catalog
  <2> HIDE DEF C
  <2>1. wk' = [wk EXCEPT ![w].pc = pc, ![w].sel = C, ![w].old = FALSE]
    BY <1>3 DEF ReadCatalog, C
  <2>2. Alone(w) /\ wk'[w].pc = pc /\ wk'[w].sel = C /\ ~wk'[w].old
    BY <1>1, <2>1 DEF WorkerState, Alone
  <2>3. QED
    BY <2>2 DEF C
<1>4. ASSUME Done(w)
      PROVE  Alone(w) /\ wk'[w].pc = "idle" /\ wk'[w].sel = {}
  BY <1>1, <1>4 DEF Done, Alone, Idle
<1>5. QED
  BY <1>2, <1>3, <1>4

\* A procedure goes on without publishing, or dies.
LEMMA MoveQuiet ==
    ASSUME IInv, RInv, NEW w \in Worker, NEW pc \in Pcs,
           \/ Goto(w, pc) /\ pc \notin Publishing
           \/ ReadCatalog(w, pc)
           \/ Done(w) /\ pc = "idle",
           pc \notin Writing, OpenStays', pub' = pub, mixed' = mixed,
           faults > 0 => faults' > 0,
           \A l \in Leaf : phys'[l] = "gone" => phys[l] = "gone",
           wk[w].pc \in Writing => faults' > 0 \/ pub.functions \subseteq pub.manifest
    PROVE  RInv'
<1>1. /\ Alone(w) /\ wk'[w].pc = pc
      /\ Goto(w, pc) => wk'[w].sel = wk[w].sel /\ wk'[w].old = wk[w].old
      /\ ReadCatalog(w, pc) => wk'[w].sel = Catalog /\ ~wk'[w].old
      /\ Done(w) => wk'[w].sel = {}
  BY MoveReads DEF IInv
<1>2. \A v \in Worker : wk[v].sel \subseteq Leaf
  BY WorkersTyped DEF IInv
<1>3. ASSUME NEW v \in Worker PROVE SelectionAt(v)'
  <2>1. CASE v # w
    BY <1>1, <1>2, <2>1, SelectionKept DEF Alone, RInv
  <2>2. CASE v = w /\ Goto(w, pc) /\ pc \notin Publishing
    BY <1>1, <1>2, <2>2, SelectionKept DEF RInv
  <2>3. CASE v = w /\ ReadCatalog(w, pc)
    <3>1. Open \in Catalog /\ \A l \in Catalog : phys[l] # "gone" /\ l \in Leaf
      BY CatalogThere DEF RInv, Catalog
    <3>2. QED
      BY <1>1, <2>3, <3>1 DEF SelectionAt
  <2>4. CASE v = w /\ Done(w) /\ pc = "idle"
    BY <1>1, <2>4 DEF SelectionAt, Publishing, Writing
  <2>5. QED
    BY <2>1, <2>2, <2>3, <2>4
<1>4. \A l \in pub.manifest : phys'[l] = "gone" => phys[l] = "gone"
  BY DEF IInv, TypeOK
<1>5. \A v \in Worker : wk'[v].pc \in Writing => v # w /\ wk'[v] = wk[v]
  BY <1>1 DEF Alone
<1>6. \A v \in Worker : wk[v].pc \in Writing =>
         wk'[v].pc \in Writing \/ faults' > 0 \/ pub.functions \subseteq pub.manifest
  BY <1>1 DEF Alone
<1>7. QED
  BY <1>3, <1>4, <1>5, <1>6, QuietStep

LEMMA ReadersCoverage ==
    ASSUME IInv, RInv, NEW w \in Worker,
           \/ ProbeConformant(w) \/ ProbeMissing(w) \/ EndCoverage(w) \/ Fail(w)
           \/ \E l \in Leaf : CreateLeaf(w, l)
    PROVE  RInv'
<1>1. /\ {"idle", "install", "create", "created"} \subseteq Pcs
      /\ {"idle", "create", "created"} \cap Publishing = {} /\ Writing \subseteq Publishing
      /\ "install" \notin Writing /\ faults \in Nat
  BY PartitionAssumption DEF Pcs, Publishing, Writing, IInv, TypeOK
<1>2. phys' = phys /\ stamp' = stamp => OpenStays'
  BY DEF RInv, OpenStays
<1>3. CASE ProbeConformant(w)
  BY <1>1, <1>2, <1>3, MoveQuiet DEF ProbeConformant, Writing
<1>4. CASE ProbeMissing(w)
  BY <1>1, <1>2, <1>4, MoveQuiet DEF ProbeMissing, Writing
<1>5. CASE EndCoverage(w)
  <2>1. /\ ReadCatalog(w, "install") \/ Done(w)
        /\ wk[w].pc \notin Writing /\ UNCHANGED <<phys, stamp, pub, mixed, faults>>
    BY <1>5 DEF EndCoverage, Writing
  <2>2. CASE ReadCatalog(w, "install")
    BY <1>1, <1>2, <2>1, <2>2, MoveQuiet
  <2>3. CASE Done(w)
    BY <1>1, <1>2, <2>1, <2>3, MoveQuiet
  <2>4. QED
    BY <2>1, <2>2, <2>3
<1>6. CASE Fail(w)
  <2>1. /\ Done(w) /\ faults' > 0 /\ UNCHANGED <<phys, stamp, pub, mixed>>
    BY <1>1, <1>6 DEF Fail
  <2>2. QED
    BY <1>1, <1>2, <2>1, MoveQuiet
<1>7. ASSUME NEW l \in Leaf, CreateLeaf(w, l) PROVE RInv'
  <2>1. /\ phys[l] = "absent" /\ wk[w].pc \notin Writing /\ Goto(w, "created")
        /\ phys' = [phys EXCEPT ![l] = "attached"] /\ stamp' = [stamp EXCEPT ![l] = "live"]
        /\ UNCHANGED <<pub, mixed, faults>>
    BY <1>7 DEF CreateLeaf, Missing, Writing
  <2>2. OpenStays' /\ \A k \in Leaf : phys'[k] = "gone" => phys[k] = "gone"
    BY <2>1, OpenNeverDue DEF RInv, OpenStays, IInv, TypeOK
  <2>3. QED
    BY <1>1, <2>1, <2>2, MoveQuiet
<1>8. QED
  BY <1>3, <1>4, <1>5, <1>6, <1>7

-----------------------------------------------------------------------------

\* Pruning up to the publication; what it works on is expired, so it is not the
\* open-ended leaf.
LEMMA ReadersPruner ==
    ASSUME IInv, RInv, NEW w \in Worker,
           MarkDetach(w) \/ EndDetach(w) \/ RecordDetached(w) \/ Republish(w)
    PROVE  RInv'
<1>1. /\ {"wait", "stamp", "check", "render", "idle"} \subseteq Pcs
      /\ {"wait", "stamp", "check", "idle"} \cap Publishing = {}
      /\ {"detach", "wait", "stamp", "check", "render", "idle"} \cap Writing = {}
      /\ {"detach", "wait", "stamp", "check"} \subseteq PrunePcs
      /\ "gone" \notin {"pending", "detached"}
  BY DEF Pcs, Publishing, Writing, PrunePcs
<1> DEFINE l == wk[w].leaf
<1>2. wk[w].pc \in PrunePcs => l \in Leaf /\ l # Open
  BY OpenNeverDue DEF IInv, PrunerAt
<1> HIDE DEF l
<1>3. ASSUME NEW p \in {"pending", "detached"}, phys' = [phys EXCEPT ![l] = p],
             wk[w].pc \in PrunePcs, stamp' = stamp
      PROVE  OpenStays' /\ \A k \in Leaf : phys'[k] = "gone" => phys[k] = "gone"
  BY <1>1, <1>2, <1>3, OpenNeverDue DEF RInv, OpenStays, IInv, TypeOK
<1>4. CASE MarkDetach(w)
  <2>1. /\ wk[w].pc = "detach" /\ Goto(w, "wait") /\ phys' = [phys EXCEPT ![l] = "pending"]
        /\ UNCHANGED <<stamp, pub, mixed, faults>>
    BY <1>4 DEF MarkDetach, l
  <2>2. OpenStays' /\ \A k \in Leaf : phys'[k] = "gone" => phys[k] = "gone"
    BY <1>1, <1>3, <2>1
  <2>3. QED
    BY <1>1, <2>1, <2>2, MoveQuiet
<1>5. CASE EndDetach(w)
  <2>1. /\ wk[w].pc = "wait" /\ Goto(w, "stamp") /\ phys' = [phys EXCEPT ![l] = "detached"]
        /\ UNCHANGED <<stamp, pub, mixed, faults>>
    BY <1>5 DEF EndDetach, l
  <2>2. OpenStays' /\ \A k \in Leaf : phys'[k] = "gone" => phys[k] = "gone"
    BY <1>1, <1>3, <2>1
  <2>3. QED
    BY <1>1, <2>1, <2>2, MoveQuiet
<1>6. CASE RecordDetached(w)
  <2>1. /\ wk[w].pc = "stamp" /\ Goto(w, "check") /\ stamp' = [stamp EXCEPT ![l] = "detached"]
        /\ UNCHANGED <<phys, pub, mixed, faults>>
    BY <1>6 DEF RecordDetached, l
  <2>2. OpenStays'
    BY <1>1, <1>2, <2>1, OpenNeverDue DEF RInv, OpenStays, IInv, TypeOK
  <2>3. QED
    BY <1>1, <2>1, <2>2, MoveQuiet
<1>7. CASE Republish(w)
  <2>1. /\ wk[w].pc = "check" /\ (ReadCatalog(w, "render") \/ Done(w))
        /\ UNCHANGED <<phys, stamp, pub, mixed, faults>>
    BY <1>7 DEF Republish
  <2>2. OpenStays'
    BY <2>1 DEF RInv, OpenStays
  <2>3. CASE ReadCatalog(w, "render")
    BY <1>1, <2>1, <2>2, <2>3, MoveQuiet
  <2>4. CASE Done(w)
    BY <1>1, <2>1, <2>2, <2>4, MoveQuiet
  <2>5. QED
    BY <2>1, <2>3, <2>4
<1>8. QED
  BY <1>4, <1>5, <1>6, <1>7

LEMMA ReadersLock ==
    ASSUME IInv, RInv, NEW w \in Worker, NEW l \in Leaf, BeginDetach(w, l) \/ BeginFinalize(w, l)
    PROVE  RInv'
<1>1. PICK pc \in {"detach", "wait"} :
        wk[w].pc = "idle" /\ wk' = [wk EXCEPT ![w].pc = pc, ![w].leaf = l]
  BY DEF BeginDetach, BeginFinalize
<1>2. UNCHANGED <<phys, stamp, pub, mixed, faults>>
  BY DEF BeginDetach, BeginFinalize
<1>3. {"detach", "wait", "idle"} \cap Publishing = {} /\ Writing \subseteq Publishing
  BY DEF Publishing, Writing
<1>4. wk \in [Worker -> WorkerState] /\ \A v \in Worker : wk[v].sel \subseteq Leaf
  BY WorkersTyped DEF IInv
<1>5. /\ wk'[w].pc = pc /\ \A v \in Worker \ {w} : wk'[v] = wk[v]
      /\ \A v \in Worker : wk'[v].sel = wk[v].sel /\ wk'[v].old = wk[v].old
  BY <1>1, <1>4 DEF WorkerState
<1>6. \A v \in Worker : wk'[v].pc = wk[v].pc \/ wk'[v].pc \notin Publishing
  BY <1>3, <1>5
<1>7. \A v \in Worker : SelectionAt(v)'
  BY <1>2, <1>5, <1>6, SelectionKept DEF RInv
<1>8. OpenStays'
  BY <1>2 DEF RInv, OpenStays
<1>9. \A v \in Worker : /\ wk'[v].pc \in Writing => wk'[v] = wk[v]
                        /\ wk[v].pc \in Writing => wk'[v].pc \in Writing
  BY <1>1, <1>3, <1>5
<1>10. QED
  BY <1>2, <1>7, <1>8, <1>9, QuietStep

\* A drop makes the publications old that read the leaf; the gate keeps it away from
\* those of the pruner.
LEMMA ReadersDrop ==
    ASSUME IInv, RInv, NEW w \in Worker, NEW l \in Leaf, Drop(w, l)
    PROVE  RInv'
<1>1. /\ wk[w].pc = "idle" /\ ReaperGate(w) /\ Due(l) /\ l \notin pub.manifest
      /\ phys' = [phys EXCEPT ![l] = "gone"] /\ stamp' = [stamp EXCEPT ![l] = "dropped"]
      /\ wk' = [v \in Worker |-> [wk[v] EXCEPT !.old = @ \/ l \in wk[v].sel]]
      /\ UNCHANGED <<pub, mixed, faults>>
  BY DEF Drop, StampDropped, References
<1>2. l # Open
  BY <1>1, OpenNeverDue
<1>3. OpenStays' /\ \A k \in Leaf \ {l} : phys'[k] = phys[k]
  BY <1>1, <1>2, OpenNeverDue DEF RInv, OpenStays, IInv, TypeOK
<1>4. \A v \in Worker : wk[v].pc \notin Writing
  BY <1>1 DEF ReaperGate, Writing, PrunePcs
<1>5. wk \in [Worker -> WorkerState] /\ \A v \in Worker : wk[v].sel \subseteq Leaf
  BY WorkersTyped DEF IInv
<1>6. \A v \in Worker : /\ wk'[v].pc = wk[v].pc /\ wk'[v].sel = wk[v].sel
                        /\ wk'[v].old = (wk[v].old \/ l \in wk[v].sel)
  <2>1. \A v \in Worker : wk'[v] = [wk[v] EXCEPT !.old = @ \/ l \in wk[v].sel]
    BY <1>1
  <2>2. QED
    BY <1>5, <2>1 DEF WorkerState
<1>7. ASSUME NEW v \in Worker PROVE SelectionAt(v)'
  <2>1. SelectionAt(v) /\ wk[v].sel \subseteq Leaf
    BY <1>5 DEF RInv
  <2>2. ASSUME NEW k \in wk[v].sel PROVE phys'[k] # "gone" \/ wk'[v].old
    BY <1>3, <1>6, <2>1, <2>2 DEF SelectionAt
  <2>3. QED
    BY <1>6, <2>1, <2>2 DEF SelectionAt
<1>8. \A k \in pub.manifest : phys'[k] = "gone" => phys[k] = "gone"
  BY <1>1, <1>3 DEF IInv, TypeOK
<1>9. QED
  BY <1>1, <1>3, <1>4, <1>6, <1>7, <1>8, QuietStep

\* The others that read the catalog are overtaken by a publication.
LEMMA OthersOvertaken ==
    ASSUME TypeOK, NEW w \in Worker, NEW next, Published(w, next)
    PROVE  /\ wk'[w] = next /\ mixed' = (mixed \/ wk[w].old)
           /\ \A v \in Worker \ {w} :
                 /\ wk'[v].pc = wk[v].pc /\ wk'[v].sel = wk[v].sel
                 /\ wk'[v].old = (wk[v].old \/ wk[v].sel # {})
<1>1. wk \in [Worker -> WorkerState]
  BY WorkersTyped
<1>2. /\ wk'[w] = next
      /\ \A v \in Worker \ {w} : wk'[v] = [wk[v] EXCEPT !.old = @ \/ wk[v].sel # {}]
  BY DEF Published
<1>3. \A v \in Worker \ {w} : /\ wk'[v].pc = wk[v].pc /\ wk'[v].sel = wk[v].sel
                              /\ wk'[v].old = (wk[v].old \/ wk[v].sel # {})
  BY <1>1, <1>2 DEF WorkerState
<1>4. QED
  BY <1>2, <1>3 DEF Published

\* A publication by w: what it leaves, if it was not overtaken itself.
LEMMA PublishReads ==
    ASSUME IInv, RInv, NEW w \in Worker, NEW next, Published(w, next), wk[w].pc \in Publishing,
           UNCHANGED <<phys, stamp, faults>>,
           \/ next.pc = "idle" /\ next.sel = {}
           \/ next.pc \in Publishing /\ next.sel = wk[w].sel /\ next.old = wk[w].old,
           ~mixed /\ ~wk[w].old => PublishedSound'
    PROVE  RInv'
<1>1. /\ wk'[w] = next /\ mixed' = (mixed \/ wk[w].old)
      /\ \A v \in Worker \ {w} :
            /\ wk'[v].pc = wk[v].pc /\ wk'[v].sel = wk[v].sel
            /\ wk'[v].old = (wk[v].old \/ wk[v].sel # {})
  BY OthersOvertaken DEF IInv
<1>2. ASSUME NEW v \in Worker PROVE SelectionAt(v)'
  <2>1. SelectionAt(v) /\ SelectionAt(w)
    BY DEF RInv
  <2>2. CASE v # w
    BY <1>1, <2>1, <2>2 DEF SelectionAt
  <2>3. CASE v = w /\ next.pc = "idle" /\ next.sel = {}
    BY <1>1, <2>3 DEF SelectionAt, Publishing, Writing
  <2>4. CASE v = w /\ next.pc \in Publishing /\ next.sel = wk[w].sel /\ next.old = wk[w].old
    BY <1>1, <2>1, <2>4 DEF SelectionAt
  <2>5. QED
    BY <2>2, <2>3, <2>4
<1>3. OpenStays'
  BY DEF RInv, OpenStays
<1>4. mixed' \/ PublishedSound'
  BY <1>1 DEF RInv
<1>5. QED
  BY <1>2, <1>3, <1>4 DEF RInv

\* A coverage publication replaces functions and manifest at once.
LEMMA ReadersInstall ==
    ASSUME IInv, RInv, NEW w \in Worker, Install(w)
    PROVE  RInv'
<1>1. /\ wk[w].pc = "install" /\ Published(w, Idle) /\ UNCHANGED <<phys, stamp, faults>>
      /\ pub'.manifest = wk[w].sel /\ pub'.functions = wk[w].sel
  BY DEF Install
<1>2. "install" \in Publishing /\ "install" \notin Writing /\ Writing \subseteq Publishing
      /\ Idle.pc = "idle" /\ Idle.sel = {} /\ "idle" \notin Writing
  BY DEF Publishing, Writing, Idle
<1>3. ASSUME ~wk[w].old PROVE PublishedSound'
  <2>1. Open \in wk[w].sel /\ \A l \in wk[w].sel : phys[l] # "gone"
    BY <1>1, <1>2, <1>3 DEF RInv, SelectionAt
  <2>2. /\ wk'[w] = Idle
        /\ \A v \in Worker \ {w} : wk'[v].pc = wk[v].pc /\ wk'[v].old = (wk[v].old \/ wk[v].sel # {})
    BY <1>1, OthersOvertaken DEF IInv
  <2>3. ASSUME NEW v \in Worker PROVE WrittenAt(v)'
    <3>1. CASE wk'[v].pc \notin Writing
      BY <3>1 DEF WrittenAt, Writing
    <3>2. CASE wk'[v].pc \in Writing
      <4>1. v # w /\ wk[v].pc \in Publishing /\ SelectionAt(v)
        BY <1>2, <2>2, <3>2 DEF RInv
      <4>2. wk'[v].old
        BY <2>2, <4>1 DEF SelectionAt
      <4>3. QED
        BY <1>1, <2>1, <4>2 DEF WrittenAt, Writing
    <3>3. QED
      BY <3>1, <3>2
  <2>4. QED
    BY <1>1, <2>1, <2>3 DEF PublishedSound
<1>4. QED
  BY <1>1, <1>2, <1>3, PublishReads

\* The statements of the pruner's publication.
LEMMA ReadersWritten ==
    ASSUME IInv, RInv, NEW w \in Worker,
           RenderFunctions(w) \/ ClearManifest(w) \/ FillManifest(w)
    PROVE  RInv'
<1>1. {"render", "clear", "fill"} \subseteq Publishing /\ Writing = {"clear", "fill"}
      /\ {"render", "clear", "fill"} \subseteq PrunePcs
      /\ Idle.pc = "idle" /\ Idle.sel = {} /\ "idle" \notin Writing
  BY DEF Publishing, Writing, PrunePcs, Idle
<1>2. wk[w].pc \in {"render", "clear", "fill"} /\ UNCHANGED <<phys, stamp, faults>>
  BY DEF RenderFunctions, ClearManifest, FillManifest
<1>3. \A v \in Worker \ {w} : wk[v].pc \notin Writing
  BY <1>1, <1>2 DEF IInv, OnePruner
<1>4. SelectionAt(w) /\ wk[w] \in WorkerState
  BY WorkersTyped DEF RInv, IInv
<1>5. Open \in wk[w].sel
  BY <1>1, <1>2, <1>4 DEF SelectionAt
<1>6. ASSUME NEW next, Published(w, next), ~mixed
      PROVE  /\ wk'[w] = next /\ PublishedSound /\ \A v \in Worker \ {w} : wk'[v].pc \notin Writing
             /\ \A v \in Worker \ {w} : WrittenAt(v)'
  <2>1. wk'[w] = next /\ \A v \in Worker \ {w} : wk'[v].pc \notin Writing
    BY <1>3, <1>6, OthersOvertaken DEF IInv
  <2>2. QED
    BY <1>6, <2>1 DEF RInv, WrittenAt, Writing
<1>7. ~wk[w].old => \A l \in wk[w].sel : phys[l] # "gone"
  BY <1>4 DEF SelectionAt
<1>8. CASE RenderFunctions(w)
  <2> DEFINE next == [wk[w] EXCEPT !.pc = "clear"]
  <2>1. next.pc = "clear" /\ next.sel = wk[w].sel /\ next.old = wk[w].old
    BY <1>4 DEF WorkerState
  <2>2. Published(w, next) /\ pub'.functions = wk[w].sel /\ pub'.manifest = pub.manifest
    BY <1>8 DEF RenderFunctions, IInv, TypeOK
  <2> HIDE DEF next
  <2>3. ASSUME ~mixed, ~wk[w].old PROVE PublishedSound'
    <3>1. /\ wk'[w] = next /\ PublishedSound /\ \A v \in Worker \ {w} : WrittenAt(v)'
      BY <1>6, <2>2, <2>3
    <3>2. WrittenAt(w)'
      BY <2>1, <2>2, <2>3, <3>1 DEF WrittenAt
    <3>3. QED
      BY <1>1, <1>2, <2>1, <2>2, <3>1, <3>2 DEF PublishedSound
  <2>4. QED
    BY <1>1, <1>2, <2>1, <2>2, <2>3, PublishReads
<1>9. CASE ClearManifest(w)
  <2> DEFINE next == [wk[w] EXCEPT !.pc = "fill"]
  <2>1. next.pc = "fill" /\ next.sel = wk[w].sel /\ next.old = wk[w].old
    BY <1>4 DEF WorkerState
  <2>2. /\ wk[w].pc = "clear" /\ Published(w, next)
        /\ pub'.functions = pub.functions /\ pub'.manifest = {}
    BY <1>9 DEF ClearManifest, IInv, TypeOK
  <2> HIDE DEF next
  <2>3. ASSUME ~mixed, ~wk[w].old PROVE PublishedSound'
    <3>1. /\ wk'[w] = next /\ PublishedSound /\ \A v \in Worker \ {w} : WrittenAt(v)'
      BY <1>6, <2>2, <2>3
    <3>2. WrittenAt(w)'
      BY <1>1, <2>1, <2>2, <2>3, <3>1 DEF WrittenAt, PublishedSound
    <3>3. QED
      BY <1>1, <2>1, <2>2, <3>1, <3>2 DEF PublishedSound
  <2>4. QED
    BY <1>1, <1>2, <2>1, <2>2, <2>3, PublishReads
<1>10. CASE FillManifest(w) /\ pub.manifest \cap wk[w].sel = {}
  <2>1. /\ wk[w].pc = "fill" /\ Published(w, Idle)
        /\ pub'.functions = pub.functions /\ pub'.manifest = pub.manifest \cup wk[w].sel
    BY <1>10 DEF FillManifest, IInv, TypeOK
  <2>2. ASSUME ~mixed, ~wk[w].old PROVE PublishedSound'
    <3>1. /\ wk'[w] = Idle /\ PublishedSound /\ \A v \in Worker \ {w} : WrittenAt(v)'
      BY <1>6, <2>1, <2>2
    <3>2. WrittenAt(w)'
      BY <1>1, <3>1 DEF WrittenAt
    <3>3. pub.functions = wk[w].sel
      BY <1>1, <2>1, <2>2, <3>1 DEF PublishedSound, WrittenAt
    <3>4. \A l \in pub'.manifest : phys'[l] # "gone"
      BY <1>2, <1>7, <2>1, <2>2, <3>1 DEF PublishedSound
    <3>5. pub'.functions \subseteq pub'.manifest
      BY <2>1, <3>3
    <3>6. QED
      BY <3>1, <3>2, <3>4, <3>5 DEF PublishedSound
  <2>3. QED
    BY <1>1, <1>2, <2>1, <2>2, PublishReads
<1>11. CASE FillManifest(w) /\ pub.manifest \cap wk[w].sel # {}
  <2>1. wk[w].pc = "fill" /\ Done(w) /\ UNCHANGED <<pub, mixed>>
    BY <1>11 DEF FillManifest
  <2>2. "idle" \in Pcs /\ OpenStays'
    BY <1>2 DEF Pcs, RInv, OpenStays
  <2>3. CASE mixed
    <3>1. ASSUME NEW v \in Worker PROVE SelectionAt(v)'
      <4>1. /\ Alone(w) /\ wk'[w].pc = "idle" /\ wk'[w].sel = {} /\ SelectionAt(v)
        BY <2>1, <2>2, MoveReads DEF IInv, RInv
      <4>2. QED
        BY <1>2, <4>1 DEF Alone, SelectionAt, Publishing, Writing
    <3>2. QED
      BY <2>1, <2>2, <2>3, <3>1 DEF RInv
  <2>4. CASE PublishedSound
    <3>1. wk[w].old /\ pub.functions \subseteq pub.manifest
      BY <1>1, <1>11, <2>1, <2>4 DEF PublishedSound, WrittenAt
    <3>2. QED
      BY <1>1, <1>2, <2>1, <2>2, <3>1, MoveQuiet
  <2>5. QED
    BY <2>3, <2>4 DEF RInv
<1>12. QED
  BY <1>8, <1>9, <1>10, <1>11

LEMMA ReadersInit == Init => RInv
<1> SUFFICES ASSUME Init PROVE RInv
  OBVIOUS
<1>1. OpenStays /\ pub.functions = pub.manifest /\ \A l \in Leaf : phys[l] # "gone"
  BY OpenNeverDue DEF Init, OpenStays
<1>2. \A w \in Worker : wk[w].pc = "idle" /\ wk[w].sel = {}
  BY DEF Init, Idle
<1>3. pub.manifest \subseteq Leaf
  BY InitHolds DEF IInv, TypeOK
<1>4. (\A w \in Worker : SelectionAt(w)) /\ (\A w \in Worker : WrittenAt(w))
  BY <1>2 DEF SelectionAt, WrittenAt, Publishing, Writing
<1>5. PublishedSound
  BY <1>1, <1>3, <1>4 DEF PublishedSound
<1>6. QED
  BY <1>1, <1>4, <1>5 DEF RInv

\* Rows and days leave the leaves and the publication alone.
LEMMA ReadersApart ==
    ASSUME RInv, UNCHANGED <<phys, stamp, pub, wk, mixed, faults>>
    PROVE  RInv'
BY DEF RInv, OpenStays, SelectionAt, PublishedSound, WrittenAt, Torn

LEMMA ReadersNext == IInv /\ RInv /\ [Next]_vars => RInv'
<1> SUFFICES ASSUME IInv, RInv, [Next]_vars PROVE RInv'
  OBVIOUS
<1>1. ASSUME NEW w \in Worker, Coverage(w) \/ Fail(w) PROVE RInv'
  BY <1>1, ReadersCoverage, ReadersInstall DEF Coverage
<1>2. ASSUME NEW w \in Worker, GoOn(w) PROVE RInv'
  BY <1>2, ReadersPruner, ReadersWritten DEF GoOn
<1>3. ASSUME NEW w \in Worker, NEW l \in Leaf, Candidate(w, l) PROVE RInv'
  BY <1>3, ReadersLock, ReadersDrop DEF Candidate
<1>4. ASSUME NEW r \in Row, Move(r) PROVE RInv'
  BY <1>4, ReadersApart DEF Move, Insert, CommitRow, Apply
<1>5. CASE EndOfDay \/ UNCHANGED vars
  BY <1>5, ReadersApart DEF EndOfDay, vars
<1>6. QED
  BY <1>1, <1>2, <1>3, <1>4, <1>5 DEF Next

\* No published function names a leaf that was dropped, unless a publication was overtaken
\* (mixed) or a death has left the functions wider than the manifest (manager.rs:1025).
THEOREM ReadersStay == Spec => [](Torn \/ ReadersIntact)
<1>1. ASSUME IInv, RInv PROVE Torn \/ ReadersIntact
  <2> SUFFICES ASSUME ~mixed, ~Torn, NEW l \in pub.functions PROVE phys[l] # "gone"
    BY DEF ReadersIntact
  <2>1. PublishedSound
    BY <1>1 DEF RInv
  <2>2. CASE l \in pub.manifest
    BY <2>1, <2>2 DEF PublishedSound
  <2>3. CASE l \notin pub.manifest
    <3>1. PICK w \in Worker : wk[w].pc \in Writing
      BY <2>1, <2>3 DEF PublishedSound
    <3>2. WrittenAt(w) /\ SelectionAt(w)
      BY <1>1, <2>1 DEF PublishedSound, RInv
    <3>3. l \in wk[w].sel /\ ~wk[w].old
      BY <2>3, <3>1, <3>2 DEF WrittenAt
    <3>4. QED
      BY <3>2, <3>3 DEF SelectionAt
  <2>4. QED
    BY <2>2, <2>3
<1>2. Init => RInv
  BY ReadersInit
<1>3. IInv /\ IInv' /\ RInv /\ [Next]_vars => RInv'
  BY ReadersNext
<1>4. Spec => []RInv
  BY <1>2, <1>3, InvariantHolds, PTL DEF Spec
<1>5. IInv /\ RInv => Torn \/ ReadersIntact
  BY <1>1
<1>6. QED
  BY <1>4, <1>5, InvariantHolds, PTL

=============================================================================
