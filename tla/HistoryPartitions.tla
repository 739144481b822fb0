------------------------- MODULE HistoryPartitions -------------------------
(***************************************************************************)
(* Task history is kept in leaves, daily partitions that are created       *)
(* ahead, detached and dropped when they expire (core/history).  Point     *)
(* reads and the duplicate guard of every move into history are functions  *)
(* rendered from the leaf catalog; the manifest records of which leaves.   *)
(*                                                                         *)
(* Two procedures of the workers keep leaves and functions together with   *)
(* no lock over both: coverage (maintenance/coverage.rs) creates leaves    *)
(* and publishes in a transaction, pruning (maintenance/pruning.rs, driven *)
(* by one reaper at a time) detaches and drops and publishes statement by  *)
(* statement.  Meanwhile tasks end and rows move into the leaves.          *)
(***************************************************************************)
EXTENDS Naturals, FiniteSets

CONSTANTS
    Worker,
    Row,          \* tasks that end
    Forever,      \* those of the class without a duration
    WithOutbox,   \* those whose result a workflow has to consume
    MaxDay,       \* bound on time
    Keep,         \* days a finite leaf is kept after its upper bound
    Horizon,      \* history_leaf_horizon_days
    OpenFrom,     \* lower bound of the open-ended leaf of the forever class
    MaxFaults     \* bound on deaths and statements that time out

ASSUME PartitionAssumption ==
    /\ IsFiniteSet(Worker) /\ IsFiniteSet(Row)
    /\ Forever \subseteq Row /\ WithOutbox \subseteq Row
    /\ MaxDay \in Nat /\ Keep \in Nat \ {0} /\ Horizon \in Nat
    /\ OpenFrom \in Nat \ {0} /\ MaxFaults \in Nat

VARIABLES
    day,      \* statement_timestamp, in days
    phys,     \* the relation of each leaf
    stamp,    \* its row in the leaf catalog: detached_at, dropped_at
    pub,      \* from which leaves manifest and functions were rendered
    wk,       \* the procedure of each worker
    row,      \* the rows that move into history
    mixed,    \* ghost: what was published had been overtaken
    faults

vars == <<day, phys, stamp, pub, wk, row, mixed, faults>>

Days == 0..MaxDay
Finite == {<<"finite", d>> : d \in Days}
Daily == {<<"daily", d>> : d \in 0..(OpenFrom - 1)}
Open == <<"open", OpenFrom>>
Leaf == Finite \cup Daily \cup {Open}
NoLeaf == <<"none", 0>>

PrunePcs == {"detach", "wait", "stamp", "check", "render", "clear", "fill"}
Pcs == {"idle", "create", "created", "install"} \cup PrunePcs
\* old: since the catalog was read somebody else published, or dropped a leaf
\* that was read
Idle == [pc |-> "idle", leaf |-> NoLeaf, sel |-> {}, old |-> FALSE]

----------------------------------------------------------------------------
(* What the statements look at                                             *)

LeafOf(r, d) ==
    IF r \notin Forever THEN <<"finite", d>>
    ELSE IF d < OpenFrom THEN <<"daily", d>> ELSE Open

Stored(r) == row[r].at \in {"stored", "applied"}
InLeaf(l) == {r \in Row : Stored(r) /\ LeafOf(r, row[r].day) = l}
\* Inserted in a transaction that has not committed
Inserting(l) == {r \in Row : /\ row[r].at = "inserted"
                             /\ LeafOf(r, row[r].day) = l}
Blockers(l) == {r \in InLeaf(l) : row[r].at = "stored"}

Due(l) == \/ l \in Finite /\ day >= l[2] + 1 + Keep
          \/ l \in Daily /\ day >= l[2] + 1

\* Slip: rows that are kept for ever do not keep their leaf.
KeptNever(l) == FALSE

KeptNonEmpty(l) == l \in Daily /\ InLeaf(l) # {}

Exists(l) == phys[l] \notin {"absent", "gone"}

Catalog == {l \in Leaf : stamp[l] = "live" /\ Exists(l)}

\* Slip: only leaves that are new ask for a publication.
NeedsOnlyNew == ~(Catalog \subseteq pub.manifest)

NeedsRepublication == pub.manifest # Catalog

\* Slip: a leaf is dropped without a look at the manifest.
ReferencesIgnored(l) == FALSE

References(l) == l \in pub.manifest

Required == {l \in Finite : l[2] \in day..(day + Horizon)} \cup {Open}
Missing == {l \in Required : phys[l] = "absent"}

Locked(l) == \E w \in Worker : wk[w].pc \in PrunePcs /\ wk[w].leaf = l
ReaperGate(w) == \A v \in Worker \ {w} : wk[v].pc \notin PrunePcs
CoverageGate(w) ==
    \A v \in Worker \ {w} : wk[v].pc \notin {"create", "created"}

Goto(w, pc) == wk' = [wk EXCEPT ![w].pc = pc]
Done(w) == wk' = [wk EXCEPT ![w] = Idle]
ReadCatalog(w, pc) ==
    wk' = [wk EXCEPT ![w].pc = pc, ![w].sel = Catalog, ![w].old = FALSE]

\* w writes part of a publication and goes on as next
Published(w, next) ==
    /\ wk' = [v \in Worker |->
                IF v = w THEN next
                ELSE [wk[v] EXCEPT !.old = @ \/ wk[v].sel # {}]]
    /\ mixed' = (mixed \/ wk[w].old)

Init ==
    /\ day = 0
    /\ LET there == {l \in Finite : l[2] <= Horizon} \cup Daily \cup {Open}
       IN  /\ phys = [l \in Leaf |-> IF l \in there THEN "attached"
                                     ELSE "absent"]
           /\ stamp = [l \in Leaf |-> IF l \in there THEN "live" ELSE "none"]
           /\ pub = [manifest |-> there, functions |-> there]
    /\ wk = [w \in Worker |-> Idle]
    /\ row = [r \in Row |-> [at |-> "live", day |-> 0, late |-> FALSE]]
    /\ mixed = FALSE
    /\ faults = 0

----------------------------------------------------------------------------
(* Coverage: at start-up of any worker and in each reaper pass             *)

\* Everything is there but the publication lags behind
ProbeConformant(w) ==
    /\ wk[w].pc = "idle"
    /\ Missing = {}
    /\ NeedsRepublication
    /\ ReadCatalog(w, "install")
    /\ UNCHANGED <<day, phys, stamp, pub, row, mixed, faults>>

ProbeMissing(w) ==
    /\ wk[w].pc = "idle"
    /\ Missing # {}
    /\ CoverageGate(w)
    /\ Goto(w, "create")
    /\ UNCHANGED <<day, phys, stamp, pub, row, mixed, faults>>

\* One leaf in its own transaction; its parent is locked, so nobody is
\* inserting into the class
CreateLeaf(w, l) ==
    /\ wk[w].pc \in {"create", "created"}
    /\ l \in Missing
    /\ ~Locked(l)
    /\ \A r \in Row : row[r].at = "inserted" => r \in Forever
    /\ phys' = [phys EXCEPT ![l] = "attached"]
    /\ stamp' = [stamp EXCEPT ![l] = "live"]
    /\ Goto(w, "created")
    /\ UNCHANGED <<day, pub, row, mixed, faults>>

\* publish_coverage_if_needed, forced after a creation.  A leaf whose lock or
\* parent was busy is left to the next pass.
EndCoverage(w) ==
    /\ wk[w].pc \in {"create", "created"}
    /\ IF wk[w].pc = "created" \/ NeedsRepublication
       THEN ReadCatalog(w, "install") ELSE Done(w)
    /\ UNCHANGED <<day, phys, stamp, pub, row, mixed, faults>>

Install(w) ==
    /\ wk[w].pc = "install"
    /\ pub' = [manifest |-> wk[w].sel, functions |-> wk[w].sel]
    /\ Published(w, Idle)
    /\ UNCHANGED <<day, phys, stamp, row, faults>>

----------------------------------------------------------------------------
(* Pruning: the candidates of the sweeps, each under its session lock      *)

\* The leaf lock is taken and the leaf inspected
BeginDetach(w, l) ==
    /\ wk[w].pc = "idle" /\ ReaperGate(w) /\ ~Locked(l)
    /\ phys[l] = "attached" /\ Due(l)
    /\ Blockers(l) = {}
    /\ ~KeptNonEmpty(l)
    /\ wk' = [wk EXCEPT ![w].pc = "detach", ![w].leaf = l]
    /\ UNCHANGED <<day, phys, stamp, pub, row, mixed, faults>>

\* DETACH CONCURRENTLY commits the mark and waits for the transactions that
\* may have inserted before
MarkDetach(w) ==
    /\ wk[w].pc = "detach"
    /\ phys' = [phys EXCEPT ![wk[w].leaf] = "pending"]
    /\ Goto(w, "wait")
    /\ UNCHANGED <<day, stamp, pub, row, mixed, faults>>

\* An interrupted detach is found and finalized
BeginFinalize(w, l) ==
    /\ wk[w].pc = "idle" /\ ReaperGate(w) /\ ~Locked(l)
    /\ phys[l] = "pending" /\ Due(l)
    /\ Blockers(l) = {}
    /\ wk' = [wk EXCEPT ![w].pc = "wait", ![w].leaf = l]
    /\ UNCHANGED <<day, phys, stamp, pub, row, mixed, faults>>

EndDetach(w) ==
    /\ wk[w].pc = "wait"
    /\ Inserting(wk[w].leaf) = {}
    /\ phys' = [phys EXCEPT ![wk[w].leaf] = "detached"]
    /\ Goto(w, "stamp")
    /\ UNCHANGED <<day, stamp, pub, row, mixed, faults>>

RecordDetached(w) ==
    /\ wk[w].pc = "stamp"
    /\ stamp' = [stamp EXCEPT ![wk[w].leaf] = "detached"]
    /\ Goto(w, "check")
    /\ UNCHANGED <<day, phys, pub, row, mixed, faults>>

\* republish, on a connection that commits every statement
Republish(w) ==
    /\ wk[w].pc = "check"
    /\ IF NeedsRepublication THEN ReadCatalog(w, "render") ELSE Done(w)
    /\ UNCHANGED <<day, phys, stamp, pub, row, mixed, faults>>

\* The readers and the guard, one after the other before the manifest
RenderFunctions(w) ==
    /\ wk[w].pc = "render"
    /\ pub' = [pub EXCEPT !.functions = wk[w].sel]
    /\ Published(w, [wk[w] EXCEPT !.pc = "clear"])
    /\ UNCHANGED <<day, phys, stamp, row, faults>>

ClearManifest(w) ==
    /\ wk[w].pc = "clear"
    /\ pub' = [pub EXCEPT !.manifest = {}]
    /\ Published(w, [wk[w] EXCEPT !.pc = "fill"])
    /\ UNCHANGED <<day, phys, stamp, row, faults>>

\* A leaf that is there again is a duplicate key
FillManifest(w) ==
    /\ wk[w].pc = "fill"
    /\ IF pub.manifest \cap wk[w].sel = {}
       THEN /\ pub' = [pub EXCEPT !.manifest = @ \cup wk[w].sel]
            /\ Published(w, Idle)
       ELSE Done(w) /\ UNCHANGED <<pub, mixed>>
    /\ UNCHANGED <<day, phys, stamp, row, faults>>

\* Slip: the catalog row of a dropped leaf is not written.
StampForgotten(l) == UNCHANGED stamp

StampDropped(l) == stamp' = [stamp EXCEPT ![l] = "dropped"]

\* drop_detached_leaf, one transaction
Drop(w, l) ==
    /\ wk[w].pc = "idle" /\ ReaperGate(w) /\ ~Locked(l)
    /\ phys[l] = "detached" /\ Due(l)
    /\ Blockers(l) = {}
    /\ ~References(l)
    /\ ~KeptNonEmpty(l)
    /\ phys' = [phys EXCEPT ![l] = "gone"]
    /\ StampDropped(l)
    /\ wk' = [v \in Worker |-> [wk[v] EXCEPT !.old = @ \/ l \in wk[v].sel]]
    /\ UNCHANGED <<day, pub, row, mixed, faults>>

----------------------------------------------------------------------------
(* Rows move into history                                                  *)

\* The row is routed by its terminal time, which may be of the day before.
\* The guard probes the leaves whose upper bound is after the birth of the
\* task, here all, as the tasks are sent on day 0.  If one is gone, or the row
\* has no leaf, the statement fails and is tried again.
Insert(r) ==
    /\ row[r].at = "live"
    /\ \A l \in pub.functions : Exists(l)
    /\ \E d \in {day, day - 1} \cap Days :
         /\ phys[LeafOf(r, d)] = "attached"
         /\ row' = [row EXCEPT ![r].at = "inserted", ![r].day = d]
    /\ UNCHANGED <<day, phys, stamp, pub, wk, mixed, faults>>

CommitRow(r) ==
    /\ row[r].at = "inserted"
    /\ row' = [row EXCEPT
                 ![r].at = IF r \in WithOutbox THEN "stored" ELSE "applied",
                 ![r].late = LET l == LeafOf(r, row[r].day)
                             IN  l \in Daily /\ Due(l)]
    /\ UNCHANGED <<day, phys, stamp, pub, wk, mixed, faults>>

\* Phase 2 reads the row through the parent table
Apply(r) ==
    /\ row[r].at = "stored"
    /\ phys[LeafOf(r, row[r].day)] = "attached"
    /\ row' = [row EXCEPT ![r].at = "applied"]
    /\ UNCHANGED <<day, phys, stamp, pub, wk, mixed, faults>>

(* Surroundings                                                            *)

\* No transaction lasts over two midnights
EndOfDay ==
    /\ day < MaxDay
    /\ \A r \in Row : row[r].at = "inserted" => row[r].day = day
    /\ day' = day + 1
    /\ UNCHANGED <<phys, stamp, pub, wk, row, mixed, faults>>

\* A worker dies or its statement fails: its transaction is rolled back, its
\* locks and gates are free, and what it committed stays
Fail(w) ==
    /\ wk[w].pc # "idle" /\ faults < MaxFaults
    /\ faults' = faults + 1
    /\ Done(w)
    /\ UNCHANGED <<day, phys, stamp, pub, row, mixed>>

Coverage(w) ==
    \/ ProbeConformant(w) \/ ProbeMissing(w) \/ EndCoverage(w) \/ Install(w)
    \/ \E l \in Leaf : CreateLeaf(w, l)
GoOn(w) ==
    \/ MarkDetach(w) \/ EndDetach(w) \/ RecordDetached(w) \/ Republish(w)
    \/ RenderFunctions(w) \/ ClearManifest(w) \/ FillManifest(w)
Candidate(w, l) == BeginDetach(w, l) \/ BeginFinalize(w, l) \/ Drop(w, l)
Move(r) == Insert(r) \/ CommitRow(r) \/ Apply(r)

Next ==
    \/ \E w \in Worker :
         \/ Coverage(w) \/ GoOn(w) \/ Fail(w)
         \/ \E l \in Leaf : Candidate(w, l)
    \/ \E r \in Row : Move(r)
    \/ EndOfDay

Spec == Init /\ [][Next]_vars

\* What a worker has begun it goes on with, and a pass that ends its coverage
\* comes to the candidates; transactions end, results are consumed, time
\* passes.
FairSpec ==
    /\ Spec
    /\ WF_vars(EndOfDay)
    /\ \A w \in Worker : WF_vars(Coverage(w) \/ GoOn(w))
    /\ SF_vars(\E w \in Worker, l \in Leaf : Candidate(w, l))
    /\ WF_vars(\E r \in Row : CommitRow(r) \/ Apply(r))

----------------------------------------------------------------------------
(* Properties                                                              *)

\* Types, and the catalog says of every relation whether it exists.
TypeOK ==
    /\ day \in Days /\ mixed \in BOOLEAN /\ faults \in 0..MaxFaults
    /\ phys \in [Leaf -> {"absent", "attached", "pending", "detached",
                          "gone"}]
    /\ stamp \in [Leaf -> {"none", "live", "detached", "dropped"}]
    /\ \A l \in Leaf : /\ (phys[l] = "gone") <=> (stamp[l] = "dropped")
                       /\ (phys[l] = "absent") <=> (stamp[l] = "none")
    /\ pub \in [manifest : SUBSET Leaf, functions : SUBSET Leaf]
    /\ wk \in [Worker -> [pc : Pcs, leaf : Leaf \cup {NoLeaf},
                          sel : SUBSET Leaf, old : BOOLEAN]]
    /\ row \in [Row -> [at : {"live", "inserted", "stored", "applied"},
                        day : Days, late : BOOLEAN]]

\* Retention takes no row that is still wanted: a row whose leaf is not
\* expired, or whose result a workflow has yet to consume, is never dropped,
\* and stays attached, where phase 2 and lists find it.  Only a row of a
\* closed daily leaf committed after midnight may be detached (it is kept).
WantedRowsStay ==
    \A r \in Row :
        LET l == LeafOf(r, row[r].day)
            wanted == \/ row[r].at = "stored"
                      \/ Stored(r) /\ ~(l \in Finite /\ Due(l))
        IN  wanted => /\ phys[l] # "gone"
                      /\ phys[l] = "attached" \/ row[r].late

\* No published function names a leaf that was dropped, or every read that
\* probes it, and the move of every task born before its upper bound, would
\* fail.  It rests on the manifest being as wide as the functions when a leaf
\* is dropped, also after a death between two statements of a publication.
\* It excepts publications that overlapped each other or the drop of a leaf they
\* read.  Deaths break it when no coverage publishes in between: one between the
\* two statements of the manifest and one before the record of a detach, or one
\* between the functions and the manifest and days until a new leaf has expired.
ReadersIntact ==
    mixed \/ \A l \in pub.functions : phys[l] # "gone"

\* A leaf that expires is dropped in the end, whatever was interrupted.
\* The exception is a leaf whose detach is complete but was not recorded
\* when the worker died: no sweep records it later, and as the manifest
\* names it, it is never dropped.
Orphaned(l) == phys[l] = "detached" /\ stamp[l] = "live" /\ ~Locked(l)
Settled(l) ==
    phys[l] \in {"absent", "gone"} \/ KeptNonEmpty(l) \/ Orphaned(l)
ExpiredGo == []<>(\A l \in Finite \cup Daily : Due(l) => Settled(l))
=============================================================================
