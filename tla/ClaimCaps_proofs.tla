-------------------------- MODULE ClaimCaps_proofs --------------------------
(***************************************************************************)
(* Proofs about ClaimCaps.  A row is charged to the caps while it is in    *)
(* flight, and also while its lease has lapsed under a live owner, who may *)
(* renew it unasked.  The charged rows and what a worker has counted but   *)
(* not yet taken stay within every cap, up to the number of lapses.        *)
(***************************************************************************)
EXTENDS ClaimCaps, FiniteSetTheorems, WellFoundedInduction, TLAPS

-----------------------------------------------------------------------------
(* The inductive invariant.                                                *)

Lapsed == {t \in Task : /\ row[t].status = "CLAIMED"
                        /\ row[t].lease = "lapsed"
                        /\ row[t].owner \in up}
Charged == {t \in Task : InFlight(t)} \cup Lapsed
ChargedIn(q) == {t \in Charged : QueueOf[t] = q}
ChargedTo(w) == {t \in Charged : row[t].owner = w}
Taking(w) == pass[w].pc = "take"

LapsesCounted == Cardinality(Lapsed) <= lapses

\* Each cap has room for what is charged to it and for what a worker that counted
\* under the locks may still take.
ClusterCharge ==
    ClusterCap # NoCap =>
        /\ Cardinality(Charged) <= ClusterCap + lapses
        /\ \A w \in Worker :
              Taking(w) => Cardinality(Charged) + pass[w].total <= ClusterCap + lapses
QueueCharge ==
    HardCap => \A q \in Capped :
        /\ Cardinality(ChargedIn(q)) <= QueueCap[q] + lapses
        /\ \A w \in Worker :
              Taking(w) /\ q \in Serves[w]
              => Cardinality(ChargedIn(q)) + Left(QueueCap[q], pass[w].used[q]) <= QueueCap[q] + lapses
WorkerCharge ==
    \A w \in Worker :
        /\ Cardinality(ChargedTo(w)) <= Processes + PrefetchBuffer + lapses
        /\ Taking(w) => Cardinality(ChargedTo(w)) + pass[w].total <= Processes + PrefetchBuffer + lapses

\* A worker holds keys of its pass only, in ascending order, all of them while it
\* takes, and no key is held twice.
LocksSound ==
    /\ \A w \in Worker :
          /\ holds[w] \subseteq LockKeys(w)
          /\ Taking(w) => Missing(w) = {}
          /\ pass[w].pc \notin {"lock", "take"} => holds[w] = {}
          /\ \A k \in holds[w], j \in Missing(w) : k < j
    /\ \A v, w \in Worker : v # w => holds[v] \cap holds[w] = {}

Charges == LapsesCounted /\ ClusterCharge /\ QueueCharge /\ WorkerCharge
IInv == TypeOK /\ Charges /\ LocksSound

-----------------------------------------------------------------------------
(* Counting.                                                               *)

LEMMA ConstantsTyped ==
    /\ IsFiniteSet(Task) /\ IsFiniteSet(Queue) /\ NoWorker \notin Worker
    /\ \A t \in Task : QueueOf[t] \in Queue
    /\ \A w \in Worker : Serves[w] \subseteq Queue
    /\ Capped \subseteq Queue /\ \A q \in Capped : QueueCap[q] \in Nat
    /\ ClusterCap # NoCap => ClusterCap \in Nat
    /\ \A q \in Queue : QueueKey[q] \in Nat
    /\ GlobalKey \in Nat
    /\ Processes \in Nat \ {0} /\ PrefetchBuffer \in Nat /\ MaxClaims \in Nat
BY CapsAssumption DEF Capped

LEMMA TasksCounted ==
    ASSUME NEW S, S \subseteq Task
    PROVE  IsFiniteSet(S) /\ Cardinality(S) \in Nat
BY ConstantsTyped, FS_Subset, FS_CardinalityType

LEMMA FewerCounted ==
    ASSUME NEW T, T \subseteq Task, NEW S, S \subseteq T
    PROVE  Cardinality(S) <= Cardinality(T)
BY TasksCounted, FS_Subset

LEMMA UnionCounted ==
    ASSUME NEW S, S \subseteq Task, NEW T, T \subseteq Task, NEW U, U \subseteq S \cup T
    PROVE  Cardinality(U) <= Cardinality(S) + Cardinality(T)
<1>1. /\ IsFiniteSet(S) /\ IsFiniteSet(T) /\ Cardinality(S) \in Nat /\ Cardinality(T) \in Nat
      /\ Cardinality(S \cap T) \in Nat
  BY TasksCounted
<1>2. Cardinality(S \cup T) = Cardinality(S) + Cardinality(T) - Cardinality(S \cap T)
  BY <1>1, FS_Union
<1>3. Cardinality(U) <= Cardinality(S \cup T) /\ Cardinality(U) \in Nat
  BY FewerCounted, TasksCounted
<1>4. QED
  BY <1>1, <1>2, <1>3

LEMMA EmptyCounted == Cardinality({}) = 0
BY FS_EmptySet

LEMMA ChargedTasks ==
    /\ Lapsed \subseteq Task /\ Charged \subseteq Task
    /\ \A q : ChargedIn(q) \subseteq Task
    /\ \A w : ChargedTo(w) \subseteq Task
BY DEF Lapsed, Charged, ChargedIn, ChargedTo

-----------------------------------------------------------------------------
(* The steps that claim nothing.                                           *)

\* The charged rows of the next state were charged before, to the same worker; the
\* lapses are counted; nobody comes to take.
LEMMA ChargesKept ==
    ASSUME IInv, TypeOK',
           \A t \in Charged' : t \in Charged /\ row'[t].owner = row[t].owner,
           Cardinality(Lapsed') <= lapses', lapses <= lapses',
           \A w \in Worker : Taking(w)' => pass'[w] = pass[w]
    PROVE  Charges'
<1>1. lapses \in Nat /\ lapses' \in Nat
  BY DEF IInv, TypeOK
<1>2. Cardinality(Charged') <= Cardinality(Charged)
      /\ Cardinality(Charged') \in Nat /\ Cardinality(Charged) \in Nat
  BY ChargedTasks, FewerCounted, TasksCounted DEF Charged, Lapsed
<1>3. \A q \in Capped : /\ Cardinality(ChargedIn(q)') <= Cardinality(ChargedIn(q))
                        /\ Cardinality(ChargedIn(q)') \in Nat /\ Cardinality(ChargedIn(q)) \in Nat
  <2> SUFFICES ASSUME NEW q \in Capped
               PROVE  /\ Cardinality(ChargedIn(q)') <= Cardinality(ChargedIn(q))
                      /\ Cardinality(ChargedIn(q)') \in Nat /\ Cardinality(ChargedIn(q)) \in Nat
    OBVIOUS
  <2>1. ChargedIn(q)' \subseteq ChargedIn(q) /\ ChargedIn(q) \subseteq Task
    BY ChargedTasks DEF ChargedIn
  <2>2. QED
    BY <2>1, FewerCounted, TasksCounted
<1>4. \A w \in Worker : /\ Cardinality(ChargedTo(w)') <= Cardinality(ChargedTo(w))
                        /\ Cardinality(ChargedTo(w)') \in Nat /\ Cardinality(ChargedTo(w)) \in Nat
  <2> SUFFICES ASSUME NEW w \in Worker
               PROVE  /\ Cardinality(ChargedTo(w)') <= Cardinality(ChargedTo(w))
                      /\ Cardinality(ChargedTo(w)') \in Nat /\ Cardinality(ChargedTo(w)) \in Nat
    OBVIOUS
  <2>1. ChargedTo(w)' \subseteq ChargedTo(w) /\ ChargedTo(w) \subseteq Task
    BY ChargedTasks DEF ChargedTo
  <2>2. QED
    BY <2>1, FewerCounted, TasksCounted
<1>5. \A w \in Worker : pass[w].total \in Nat /\ \A q \in Capped : pass[w].used[q] \in Nat
  BY DEF IInv, TypeOK, Pass
<1>6. \A w \in Worker : Taking(w)' => Taking(w) /\ pass'[w] = pass[w]
  BY DEF Taking
<1>7. ClusterCharge'
  BY <1>1, <1>2, <1>5, <1>6, ConstantsTyped DEF IInv, Charges, ClusterCharge
<1>8. QueueCharge'
  BY <1>1, <1>3, <1>5, <1>6, ConstantsTyped DEF IInv, Charges, QueueCharge, Left
<1>9. WorkerCharge'
  BY <1>1, <1>4, <1>5, <1>6, ConstantsTyped DEF IInv, Charges, WorkerCharge
<1>10. QED
  BY <1>7, <1>8, <1>9 DEF Charges, LapsesCounted

\* A row that is released, started or renewed by a live owner charges nothing new.
LEMMA RowsKept ==
    ASSUME IInv, TypeOK', up' \subseteq up, lapses' = lapses,
           \A t \in Task :
               \/ row'[t] = row[t]
               \/ row'[t].status \in {"PENDING", "MOVED"}
               \/ /\ row[t].status = "CLAIMED" /\ row[t].lease # "lapsed"
                  /\ row'[t].status = "RUNNING" /\ row'[t].owner = row[t].owner
               \/ /\ row[t].status = "CLAIMED" /\ row[t].owner \in up
                  /\ row'[t].status = "CLAIMED" /\ row'[t].lease = "held"
                  /\ row'[t].owner = row[t].owner,
           \A w \in Worker : Taking(w)' => pass'[w] = pass[w]
    PROVE  Charges'
<1>1. ASSUME NEW t \in Charged' PROVE t \in Charged /\ row'[t].owner = row[t].owner
  BY <1>1 DEF Charged, Lapsed, InFlight
<1>2. Lapsed' \subseteq Lapsed
  BY DEF Lapsed
<1>3. Cardinality(Lapsed') <= Cardinality(Lapsed)
      /\ Cardinality(Lapsed') \in Nat /\ Cardinality(Lapsed) \in Nat
  BY <1>2, ChargedTasks, FewerCounted, TasksCounted
<1>4. Cardinality(Lapsed') <= lapses' /\ lapses <= lapses'
  BY <1>3 DEF IInv, TypeOK, Charges, LapsesCounted
<1>5. QED
  BY <1>1, <1>4, ChargesKept

LEMMA NoRowsTouched ==
    ASSUME IInv, TypeOK', UNCHANGED <<row, up, lapses>>,
           \A w \in Worker : Taking(w)' => pass'[w] = pass[w]
    PROVE  Charges'
BY RowsKept

-----------------------------------------------------------------------------
(* Lapses, counts and claims.                                              *)

LEMMA LapseCharges ==
    ASSUME IInv, TypeOK', NEW t \in Task, LeaseLapses(t)
    PROVE  Charges'
<1>1. /\ row[t].status = "CLAIMED" /\ row[t].lease = "held"
      /\ row'[t].status = "CLAIMED" /\ row'[t].owner = row[t].owner
      /\ \A u \in Task \ {t} : row'[u] = row[u]
      /\ up' = up /\ pass' = pass
  BY DEF LeaseLapses, IInv, TypeOK, Row
<1>2. ASSUME NEW u \in Charged' PROVE u \in Charged /\ row'[u].owner = row[u].owner
  BY <1>1, <1>2 DEF Charged, Lapsed, InFlight
<1>3. lapses \in Nat /\ Lapsed \subseteq Task /\ IsFiniteSet(Lapsed) /\ Cardinality(Lapsed) \in Nat
  BY ChargedTasks, TasksCounted DEF IInv, TypeOK
<1>4. Cardinality(Lapsed') <= lapses' /\ lapses <= lapses'
  <2>1. CASE row[t].owner \in up
    <3>1. Lapsed' \subseteq Lapsed \cup {t} /\ lapses' = lapses + 1
      BY <1>1, <2>1 DEF Lapsed, LeaseLapses
    <3>2. Cardinality({t}) = 1 /\ {t} \subseteq Task
      BY FS_Singleton
    <3>3. Cardinality(Lapsed') <= Cardinality(Lapsed) + 1
      BY <1>3, <3>1, <3>2, UnionCounted
    <3>4. Cardinality(Lapsed') \in Nat
      BY <1>3, <3>1, TasksCounted
    <3>5. QED
      BY <1>3, <3>1, <3>3, <3>4 DEF IInv, Charges, LapsesCounted
  <2>2. CASE row[t].owner \notin up
    <3>1. Lapsed' \subseteq Lapsed /\ lapses' = lapses
      BY <1>1, <2>2 DEF Lapsed, LeaseLapses
    <3>2. Cardinality(Lapsed') <= Cardinality(Lapsed) /\ Cardinality(Lapsed') \in Nat
      BY <1>3, <3>1, FewerCounted, TasksCounted
    <3>3. QED
      BY <1>3, <3>1, <3>2 DEF IInv, Charges, LapsesCounted
  <2>3. QED
    BY <2>1, <2>2
<1>5. QED
  BY <1>1, <1>2, <1>4, ChargesKept DEF Taking

\* What a worker may claim by its own counts.
LEMMA BudgetBounds ==
    ASSUME TypeOK, NEW w \in Worker
    PROVE  /\ Budget(w) \in Nat
           /\ Budget(w) <= Left(Processes + PrefetchBuffer, Cardinality(InFlightOf(w)))
           /\ ClusterCap # NoCap
              => Budget(w) <= Left(ClusterCap, Cardinality({t \in Task : InFlight(t)}))
<1> DEFINE all == Cardinality({t \in Task : InFlight(t)})
           own == Cardinality(InFlightOf(w))
           claimed == Cardinality(ClaimedBy(w))
<1>1. all \in Nat /\ own \in Nat /\ claimed \in Nat
  BY TasksCounted DEF InFlightOf, ClaimedBy
<1>2. MaxClaimed \in Nat
  BY ConstantsTyped DEF MaxClaimed
<1>3. Budget(w) = GlobalRemaining(Least(Left(Processes + PrefetchBuffer, own),
                                        Left(MaxClaimed, claimed)))
  BY DEF Budget, LocalAvailable
<1>4. \A n : GlobalRemaining(n) = IF ClusterCap = NoCap THEN n
                                  ELSE Least(n, Left(ClusterCap, all))
  BY DEF GlobalRemaining
<1> HIDE DEF all, own, claimed
<1>5. /\ Left(Processes + PrefetchBuffer, own) \in Nat
      /\ Left(MaxClaimed, claimed) \in Nat
      /\ ClusterCap # NoCap => Left(ClusterCap, all) \in Nat
  BY <1>1, <1>2, ConstantsTyped DEF Left
<1>6. \A a, b \in Nat : Least(a, b) \in Nat /\ Least(a, b) <= a /\ Least(a, b) <= b
  BY DEF Least
<1> DEFINE n == Least(Left(Processes + PrefetchBuffer, own), Left(MaxClaimed, claimed))
<1>7. n \in Nat /\ n <= Left(Processes + PrefetchBuffer, own)
  BY <1>5, <1>6
<1>8. Budget(w) = GlobalRemaining(n)
  BY <1>3
<1> HIDE DEF n
<1>9. Budget(w) \in Nat /\ Budget(w) <= n
      /\ (ClusterCap # NoCap => Budget(w) <= Left(ClusterCap, all))
  <2> DEFINE room == Left(ClusterCap, all)
  <2>1. CASE ClusterCap = NoCap
    BY <1>4, <1>7, <1>8, <2>1
  <2>2. CASE ClusterCap # NoCap
    <3>1. Budget(w) = Least(n, room) /\ room \in Nat
      BY <1>4, <1>5, <1>8, <2>2
    <3> HIDE DEF room
    <3>2. Budget(w) \in Nat /\ Budget(w) <= n /\ Budget(w) <= room
      BY <1>6, <1>7, <3>1
    <3>3. QED
      BY <3>2 DEF room
  <2>3. QED
    BY <2>1, <2>2
<1>10. QED
  BY <1>5, <1>7, <1>9 DEF all, own

\* What is charged beyond what is in flight are lapses.
LEMMA ChargedBeyond ==
    ASSUME IInv
    PROVE  /\ Cardinality(Charged) <= Cardinality({t \in Task : InFlight(t)}) + lapses
           /\ \A q \in Capped : Cardinality(ChargedIn(q))
                    <= Cardinality({t \in Task : QueueOf[t] = q /\ InFlight(t)}) + lapses
           /\ \A w \in Worker : Cardinality(ChargedTo(w)) <= Cardinality(InFlightOf(w)) + lapses
<1> DEFINE all == {t \in Task : InFlight(t)}
           In(q) == {t \in Task : QueueOf[t] = q /\ InFlight(t)}
<1>1. /\ Lapsed \subseteq Task /\ Cardinality(Lapsed) \in Nat /\ lapses \in Nat
      /\ Cardinality(Lapsed) <= lapses
  BY ChargedTasks, TasksCounted DEF IInv, Charges, LapsesCounted, TypeOK
<1>2. ASSUME NEW S, S \subseteq Task, NEW U, U \subseteq S \cup Lapsed
      PROVE  Cardinality(U) <= Cardinality(S) + lapses
  <2>1. Cardinality(U) <= Cardinality(S) + Cardinality(Lapsed)
    BY <1>1, <1>2, UnionCounted
  <2>2. U \subseteq Task
    BY <1>1, <1>2
  <2>3. Cardinality(U) \in Nat /\ Cardinality(S) \in Nat
    BY <1>2, <2>2, TasksCounted
  <2>4. QED
    BY <1>1, <2>1, <2>3
<1>3. all \subseteq Task /\ Charged \subseteq all \cup Lapsed
  BY DEF Charged
<1>4. \A q : In(q) \subseteq Task /\ ChargedIn(q) \subseteq In(q) \cup Lapsed
  BY DEF Charged, ChargedIn
<1>5. \A w : InFlightOf(w) \subseteq Task /\ ChargedTo(w) \subseteq InFlightOf(w) \cup Lapsed
  BY DEF Charged, ChargedTo, InFlightOf
<1> HIDE DEF all, In
<1>6. Cardinality(Charged) <= Cardinality(all) + lapses
  BY <1>2, <1>3
<1>7. \A q \in Capped : Cardinality(ChargedIn(q)) <= Cardinality(In(q)) + lapses
  BY <1>2, <1>4
<1>8. \A w \in Worker : Cardinality(ChargedTo(w)) <= Cardinality(InFlightOf(w)) + lapses
  BY <1>2, <1>5
<1>9. QED
  BY <1>6, <1>7, <1>8 DEF all, In

\* A worker that counts finds room for its budget in every cap.
LEMMA CountCharges ==
    ASSUME IInv, TypeOK', NEW w \in Worker, Count(w)
    PROVE  Charges'
<1> DEFINE all == Cardinality({t \in Task : InFlight(t)})
           In(q) == Cardinality({t \in Task : QueueOf[t] = q /\ InFlight(t)})
           own == Cardinality(InFlightOf(w))
<1>1. /\ lapses \in Nat /\ all \in Nat /\ own \in Nat /\ \A q : In(q) \in Nat
      /\ Cardinality(Charged) \in Nat /\ Cardinality(ChargedTo(w)) \in Nat
      /\ \A q : Cardinality(ChargedIn(q)) \in Nat
  BY ChargedTasks, TasksCounted DEF IInv, TypeOK, InFlightOf
<1>2. /\ Cardinality(Charged) <= all + lapses
      /\ \A q \in Capped : Cardinality(ChargedIn(q)) <= In(q) + lapses
      /\ Cardinality(ChargedTo(w)) <= own + lapses
  BY ChargedBeyond
<1>3. UNCHANGED <<row, slot, inDispatch, releasing, up, lapses, faults>>
  BY DEF Count
<1>4. /\ Charged' = Charged /\ Lapsed' = Lapsed
      /\ \A q : ChargedIn(q)' = ChargedIn(q) /\ \A v : ChargedTo(v)' = ChargedTo(v)
  BY <1>3 DEF Charged, Lapsed, ChargedIn, ChargedTo, InFlight
<1>5. pass \in [Worker -> Pass] /\ \A v \in Worker \ {w} : pass'[v] = pass[v]
  BY DEF Count, Enter, IInv, TypeOK
<1>6. CASE Budget(w) > 0
  <2>1. /\ pass'[w].total = Budget(w)
        /\ \A q \in Capped : pass'[w].used[q] = Occupancy(q)
    <3> DEFINE u == [q \in Capped |-> Occupancy(q)]
               p == [Resting EXCEPT !.pc = "take", !.total = Budget(w), !.used = u]
    <3>1. pass' = [pass EXCEPT ![w] = p]
      BY <1>6 DEF Count
    <3>2. p.total = Budget(w) /\ p.used = u
      BY DEF Resting
    <3>3. \A q \in Capped : u[q] = Occupancy(q)
      OBVIOUS
    <3> HIDE DEF u, p
    <3>4. pass'[w] = p
      BY <1>5, <3>1
    <3>5. QED
      BY <3>2, <3>3, <3>4
  <2>2. /\ Budget(w) \in Nat
        /\ Budget(w) <= Left(Processes + PrefetchBuffer, own)
        /\ ClusterCap # NoCap => Budget(w) <= Left(ClusterCap, all)
    BY BudgetBounds DEF IInv
  <2>3. HardCap => \A q \in Capped : Occupancy(q) = In(q)
    BY DEF Occupancy
  <2> HIDE DEF all, In, own
  <2>4. ClusterCharge'
    <3> SUFFICES ASSUME ClusterCap # NoCap, NEW v \in Worker
                 PROVE  /\ Cardinality(Charged) <= ClusterCap + lapses
                        /\ Taking(v)' => Cardinality(Charged) + pass'[v].total <= ClusterCap + lapses
      BY <1>3, <1>4, TasksCounted DEF ClusterCharge
    <3>1. /\ Cardinality(Charged) <= ClusterCap + lapses
          /\ Taking(v) => Cardinality(Charged) + pass[v].total <= ClusterCap + lapses
      BY DEF IInv, Charges, ClusterCharge
    <3>2. CASE v # w
      BY <1>5, <3>1, <3>2 DEF Taking
    <3>3. CASE v = w
      BY <1>1, <1>2, <2>1, <2>2, <3>1, <3>3, ConstantsTyped DEF Left
    <3>4. QED
      BY <3>2, <3>3
  <2>5. QueueCharge'
    <3> SUFFICES ASSUME HardCap, NEW q \in Capped, NEW v \in Worker
                 PROVE  /\ Cardinality(ChargedIn(q)) <= QueueCap[q] + lapses
                        /\ Taking(v)' /\ q \in Serves[v]
                           => Cardinality(ChargedIn(q)) + Left(QueueCap[q], pass'[v].used[q]) <= QueueCap[q] + lapses
      BY <1>3, <1>4 DEF QueueCharge
    <3>1. /\ Cardinality(ChargedIn(q)) <= QueueCap[q] + lapses
          /\ Taking(v) /\ q \in Serves[v]
             => Cardinality(ChargedIn(q)) + Left(QueueCap[q], pass[v].used[q]) <= QueueCap[q] + lapses
      BY DEF IInv, Charges, QueueCharge
    <3>2. CASE v # w
      BY <1>5, <3>1, <3>2 DEF Taking
    <3>3. CASE v = w
      <4>1. pass'[v].used[q] = In(q) /\ Cardinality(ChargedIn(q)) <= In(q) + lapses
        BY <1>2, <2>1, <2>3, <3>3
      <4>2. In(q) \in Nat /\ Cardinality(ChargedIn(q)) \in Nat /\ QueueCap[q] \in Nat
        BY <1>1, ConstantsTyped
      <4>3. QED
        BY <1>1, <3>1, <4>1, <4>2 DEF Left
    <3>4. QED
      BY <3>2, <3>3
  <2>6. WorkerCharge'
    <3> SUFFICES ASSUME NEW v \in Worker
                 PROVE  /\ Cardinality(ChargedTo(v)) <= Processes + PrefetchBuffer + lapses
                        /\ Taking(v)' => Cardinality(ChargedTo(v)) + pass'[v].total <= Processes + PrefetchBuffer + lapses
      BY <1>3, <1>4 DEF WorkerCharge
    <3>1. /\ Cardinality(ChargedTo(v)) <= Processes + PrefetchBuffer + lapses
          /\ Taking(v) => Cardinality(ChargedTo(v)) + pass[v].total <= Processes + PrefetchBuffer + lapses
      BY DEF IInv, Charges, WorkerCharge
    <3>2. CASE v # w
      BY <1>5, <3>1, <3>2 DEF Taking
    <3>3. CASE v = w
      BY <1>1, <1>2, <2>1, <2>2, <3>1, <3>3, ConstantsTyped DEF Left
    <3>4. QED
      BY <3>2, <3>3
  <2>7. QED
    BY <1>3, <1>4, <2>4, <2>5, <2>6 DEF Charges, LapsesCounted, IInv
<1>7. CASE ~(Budget(w) > 0)
  <2>1. pass'[w].pc = "idle"
    BY <1>5, <1>7 DEF Count, Enter, Resting
  <2>2. \A v \in Worker : Taking(v)' => pass'[v] = pass[v]
    BY <1>5, <2>1 DEF Taking
  <2>3. QED
    BY <1>3, <2>2, NoRowsTouched
<1>8. QED
  BY <1>6, <1>7

\* Two workers that hold all their keys serve no capped queue in common, and there is
\* one of them at most under a cluster-wide cap.
LEMMA TakersApart ==
    ASSUME LocksSound, NEW v \in Worker, NEW w \in Worker, v # w, Taking(v), Taking(w)
    PROVE  ClusterCap = NoCap /\ Serves[v] \cap Serves[w] \cap Capped = {}
<1>1. LockKeys(v) \subseteq holds[v] /\ LockKeys(w) \subseteq holds[w]
      /\ holds[v] \cap holds[w] = {}
  BY DEF LocksSound, Missing
<1>2. ClusterCap = NoCap
  BY <1>1 DEF LockKeys
<1>3. QED
  BY <1>1, <1>2 DEF LockKeys

\* A worker claims no more than it counted room for, and nobody else has counted
\* the same room.
LEMMA TakeCharges ==
    ASSUME IInv, TypeOK', NEW w \in Worker, Take(w)
    PROVE  Charges'
<1> PICK S \in SUBSET {t \in Task : Claimable(t) /\ QueueOf[t] \in Serves[w]} :
          /\ Fits(w, S)
          /\ row' = [t \in Task |->
                       IF t \in S
                       THEN [status |-> "CLAIMED", owner |-> w,
                             lease |-> IF Leased THEN "held" ELSE "null"]
                       ELSE row[t]]
          /\ pass' = [v \in Worker |->
                        IF v # w
                        THEN [pass[v] EXCEPT !.stale = @ \cup (pass[v].rows \cap S)]
                        ELSE IF S = {} THEN Resting
                        ELSE [Resting EXCEPT !.pc = "dispatch", !.rows = S]]
  BY DEF Take
<1> DEFINE Sq(q) == {t \in S : QueueOf[t] = q}
<1>1. /\ S \subseteq Task /\ Taking(w) /\ up' = up /\ lapses' = lapses
      /\ \A q : Sq(q) \subseteq S /\ (q \notin Serves[w] => Sq(q) = {})
  BY DEF Take, Taking
<1>2. \A t \in S : row'[t].status = "CLAIMED" /\ row'[t].lease # "lapsed" /\ row'[t].owner = w
  BY <1>1
<1>3. \A t \in Task \ S : row'[t] = row[t]
  OBVIOUS
<1>4. ~Taking(w)'
  BY DEF Taking, Resting
<1>5. \A v \in Worker \ {w} : /\ pass'[v].pc = pass[v].pc
                              /\ pass'[v].total = pass[v].total
                              /\ pass'[v].used = pass[v].used
  BY DEF IInv, TypeOK, Pass
<1>6. /\ Lapsed' \subseteq Lapsed
      /\ Charged' \subseteq Charged \cup S
  BY <1>1, <1>2, <1>3 DEF Lapsed, Charged, InFlight
<1>7. /\ \A q : ChargedIn(q)' \subseteq ChargedIn(q) \cup Sq(q)
      /\ ChargedTo(w)' \subseteq ChargedTo(w) \cup S
      /\ \A v \in Worker \ {w} : ChargedTo(v)' \subseteq ChargedTo(v)
  BY <1>1, <1>2, <1>3, <1>6 DEF ChargedIn, ChargedTo, Charged, Lapsed
<1>8. Cardinality(S) <= pass[w].total
      /\ \A q \in Capped : Cardinality(Sq(q)) <= Left(QueueCap[q], pass[w].used[q])
  BY ConstantsTyped DEF Fits
<1>9. \A v \in Worker : pass[v].total \in Nat /\ \A q \in Capped : pass[v].used[q] \in Nat
  BY DEF IInv, TypeOK, Pass
<1>10. lapses \in Nat
  BY DEF IInv, TypeOK
<1>11. \A v \in Worker \ {w} : Taking(v)' =>
           Taking(v) /\ ClusterCap = NoCap /\ Serves[v] \cap Serves[w] \cap Capped = {}
  BY <1>1, <1>5, TakersApart DEF IInv, Taking
<1> HIDE DEF Sq
<1>12. LapsesCounted'
  <2>1. Cardinality(Lapsed') <= Cardinality(Lapsed) /\ Cardinality(Lapsed') \in Nat
        /\ Cardinality(Lapsed) \in Nat
    BY <1>6, ChargedTasks, FewerCounted, TasksCounted
  <2>2. QED
    BY <1>1, <1>10, <2>1 DEF LapsesCounted, IInv, Charges
<1>13. ClusterCharge'
  <2> SUFFICES ASSUME ClusterCap # NoCap
               PROVE  Cardinality(Charged') <= ClusterCap + lapses
    BY <1>1, <1>4, <1>11 DEF ClusterCharge
  <2>1. /\ Cardinality(Charged') <= Cardinality(Charged) + Cardinality(S)
        /\ Cardinality(Charged') \in Nat /\ Cardinality(Charged) \in Nat /\ Cardinality(S) \in Nat
    BY <1>1, <1>6, ChargedTasks, UnionCounted, TasksCounted
  <2>2. Cardinality(Charged) + pass[w].total <= ClusterCap + lapses
    BY <1>1 DEF IInv, Charges, ClusterCharge
  <2>3. QED
    BY <1>8, <1>9, <1>10, <2>1, <2>2, ConstantsTyped
<1>14. QueueCharge'
  <2> SUFFICES ASSUME HardCap, NEW q \in Capped, NEW v \in Worker
               PROVE  /\ Cardinality(ChargedIn(q)') <= QueueCap[q] + lapses
                      /\ Taking(v)' /\ q \in Serves[v]
                         => Cardinality(ChargedIn(q)') + Left(QueueCap[q], pass'[v].used[q]) <= QueueCap[q] + lapses
    BY <1>1 DEF QueueCharge
  <2>1. /\ Cardinality(ChargedIn(q)') <= Cardinality(ChargedIn(q)) + Cardinality(Sq(q))
        /\ Cardinality(ChargedIn(q)') \in Nat /\ Cardinality(ChargedIn(q)) \in Nat
        /\ Cardinality(Sq(q)) \in Nat
    <3>1. Sq(q) \subseteq Task /\ ChargedIn(q) \subseteq Task
          /\ ChargedIn(q)' \subseteq ChargedIn(q) \cup Sq(q)
      BY <1>1, <1>7, ChargedTasks
    <3>2. QED
      BY <3>1, UnionCounted, TasksCounted
  <2>2. Cardinality(ChargedIn(q)) <= QueueCap[q] + lapses /\ QueueCap[q] \in Nat
    BY ConstantsTyped DEF IInv, Charges, QueueCharge
  <2>3. CASE q \in Serves[w]
    <3>1. Cardinality(ChargedIn(q)) + Left(QueueCap[q], pass[w].used[q]) <= QueueCap[q] + lapses
      BY <1>1, <2>3 DEF IInv, Charges, QueueCharge
    <3>2. Cardinality(ChargedIn(q)') <= QueueCap[q] + lapses
      BY <1>8, <1>9, <1>10, <2>1, <2>2, <3>1 DEF Left
    <3>3. ~(Taking(v)' /\ q \in Serves[v])
      BY <1>4, <1>11, <2>3
    <3>4. QED
      BY <3>2, <3>3
  <2>4. CASE q \notin Serves[w]
    <3>1. ChargedIn(q)' \subseteq ChargedIn(q)
      BY <1>1, <1>7, <2>4
    <3>2. Cardinality(ChargedIn(q)') <= Cardinality(ChargedIn(q))
      BY <3>1, ChargedTasks, FewerCounted
    <3>3. Taking(v)' /\ q \in Serves[v] =>
              /\ pass'[v].used = pass[v].used
              /\ Cardinality(ChargedIn(q)) + Left(QueueCap[q], pass[v].used[q]) <= QueueCap[q] + lapses
      BY <1>4, <1>5, <1>11 DEF IInv, Charges, QueueCharge
    <3>4. QED
      BY <1>9, <1>10, <2>1, <2>2, <3>2, <3>3 DEF Left
  <2>5. QED
    BY <2>3, <2>4
<1>15. WorkerCharge'
  <2> SUFFICES ASSUME NEW v \in Worker
               PROVE  /\ Cardinality(ChargedTo(v)') <= Processes + PrefetchBuffer + lapses
                      /\ Taking(v)' => Cardinality(ChargedTo(v)') + pass'[v].total <= Processes + PrefetchBuffer + lapses
    BY <1>1 DEF WorkerCharge
  <2>1. /\ Cardinality(ChargedTo(v)) <= Processes + PrefetchBuffer + lapses
        /\ Taking(v) => Cardinality(ChargedTo(v)) + pass[v].total <= Processes + PrefetchBuffer + lapses
    BY DEF IInv, Charges, WorkerCharge
  <2>2. CASE v = w
    <3>1. /\ Cardinality(ChargedTo(w)') <= Cardinality(ChargedTo(w)) + Cardinality(S)
          /\ Cardinality(ChargedTo(w)') \in Nat /\ Cardinality(ChargedTo(w)) \in Nat
          /\ Cardinality(S) \in Nat
      BY <1>1, <1>7, ChargedTasks, UnionCounted, TasksCounted
    <3>2. QED
      BY <1>1, <1>4, <1>8, <1>9, <1>10, <2>1, <2>2, <3>1, ConstantsTyped
  <2>3. CASE v # w
    <3>1. /\ Cardinality(ChargedTo(v)') <= Cardinality(ChargedTo(v))
          /\ Cardinality(ChargedTo(v)') \in Nat /\ Cardinality(ChargedTo(v)) \in Nat
      <4>1. ChargedTo(v)' \subseteq ChargedTo(v) /\ ChargedTo(v) \subseteq Task
        BY <1>7, <2>3, ChargedTasks
      <4>2. QED
        BY <4>1, FewerCounted, TasksCounted
    <3>2. /\ pass'[v].total = pass[v].total /\ pass[v].total \in Nat
          /\ Taking(v)' => Taking(v)
      BY <1>5, <1>9, <1>11, <2>3
    <3>3. QED
      BY <1>10, <2>1, <3>1, <3>2, ConstantsTyped
  <2>4. QED
    BY <2>2, <2>3
<1>16. QED
  BY <1>12, <1>13, <1>14, <1>15 DEF Charges

-----------------------------------------------------------------------------
(* The locks.                                                              *)

\* A pass that neither takes nor gives back a key keeps to the order of the keys.
LEMMA LocksKept ==
    ASSUME LocksSound, holds' = holds,
           \A w \in Worker : \/ pass'[w].pc = pass[w].pc
                             \/ pass'[w].pc # "take" /\ pass[w].pc \notin {"lock", "take"}
    PROVE  LocksSound'
BY DEF LocksSound, Missing, LockKeys, Taking

LEMMA LocksReleased ==
    ASSUME LocksSound, NEW w \in Worker, holds \in [Worker -> SUBSET Keys],
           holds' = [holds EXCEPT ![w] = {}], pass'[w].pc # "take",
           \A v \in Worker \ {w} : pass'[v].pc = pass[v].pc
    PROVE  LocksSound'
<1>1. holds'[w] = {} /\ \A v \in Worker \ {w} : holds'[v] = holds[v]
  OBVIOUS
<1>2. \A v \in Worker : Taking(v)' => Taking(v) /\ v # w
  BY DEF Taking
<1>3. ASSUME NEW v \in Worker
      PROVE  /\ holds'[v] \subseteq LockKeys(v)
             /\ Taking(v)' => Missing(v)' = {}
             /\ pass'[v].pc \notin {"lock", "take"} => holds'[v] = {}
             /\ \A k \in holds'[v], j \in Missing(v)' : k < j
  <2>1. CASE v = w
    BY <1>1, <1>2, <2>1
  <2>2. CASE v # w
    <3>1. Missing(v)' = Missing(v)
      BY <1>1, <2>2 DEF Missing, LockKeys
    <3>2. QED
      BY <1>1, <1>2, <2>2, <3>1 DEF LocksSound
  <2>3. QED
    BY <2>1, <2>2
<1>4. \A u, v \in Worker : u # v => holds'[u] \cap holds'[v] = {}
  BY <1>1 DEF LocksSound
<1>5. QED
  BY <1>1, <1>3, <1>4 DEF LocksSound, Missing, LockKeys

LEMMA KeysNatural ==
    ASSUME NEW w \in Worker
    PROVE  LockKeys(w) \subseteq Keys /\ LockKeys(w) \subseteq Nat
BY ConstantsTyped DEF LockKeys, Keys

-----------------------------------------------------------------------------
(* Types.                                                                  *)

LEMMA RestingTyped == Resting \in Pass /\ Resting.pc = "idle" /\ Resting.total = 0
BY ConstantsTyped DEF Resting, Pass

LEMMA EnterTyped ==
    ASSUME TypeOK, NEW w \in Worker, NEW pc \in {"idle", "gate", "lock", "take", "dispatch"},
           NEW rows \in SUBSET Task, Enter(w, pc, rows)
    PROVE  /\ pass' \in [Worker -> Pass]
           /\ pass'[w].pc = pc
           /\ \A v \in Worker \ {w} : pass'[v] = pass[v]
<1> DEFINE p == [Resting EXCEPT !.pc = pc, !.rows = rows]
<1>1. p \in Pass /\ p.pc = pc
  BY RestingTyped DEF Pass
<1>2. pass' = [pass EXCEPT ![w] = p] /\ pass \in [Worker -> Pass]
  BY DEF Enter, TypeOK
<1> HIDE DEF p
<1>3. QED
  BY <1>1, <1>2

LEMMA BusySlot ==
    ASSUME TypeOK, NEW w \in Worker, NEW i \in Slots, slot[w][i].phase # "free"
    PROVE  slot[w][i] \in Execution /\ slot[w][i].t \in Task
<1>1. slot[w][i] \in Execution \cup {Free}
  BY DEF TypeOK
<1>2. slot[w][i] # Free
  BY DEF Free
<1>3. QED
  BY <1>1, <1>2 DEF Execution

LEMMA EndTyped ==
    ASSUME TypeOK, NEW w \in Worker, NEW i \in Slots, End(w, i)
    PROVE  /\ slot' \in [Worker -> [Slots -> Execution \cup {Free}]]
           /\ inDispatch' \in [Worker -> SUBSET Task]
BY DEF End, TypeOK

LEMMA OccupyTyped ==
    ASSUME TypeOK, NEW w \in Worker, NEW D \in SUBSET Task, NEW b \in BOOLEAN, Occupy(w, D, b)
    PROVE  /\ slot' \in [Worker -> [Slots -> Execution \cup {Free}]]
           /\ inDispatch' \in [Worker -> SUBSET Task]
<1> PICK f \in [D -> FreeSlots(w)] :
          slot' = [slot EXCEPT ![w] =
                [i \in Slots |->
                    IF \E t \in D : f[t] = i
                    THEN [t |-> CHOOSE t \in D : f[t] = i, phase |-> "start",
                          live |-> (CHOOSE t \in D : f[t] = i) \notin pass[w].stale,
                          buffered |-> b]
                    ELSE slot[w][i]]]
  BY DEF Occupy
<1> DEFINE at(i) == CHOOSE t \in D : f[t] = i
           x(i) == [t |-> at(i), phase |-> "start", live |-> at(i) \notin pass[w].stale,
                    buffered |-> b]
           g == [i \in Slots |-> IF \E t \in D : f[t] = i THEN x(i) ELSE slot[w][i]]
<1>1. ASSUME NEW i \in Slots, \E t \in D : f[t] = i
      PROVE  x(i) \in Execution
  <2>1. at(i) \in Task
    BY <1>1
  <2> HIDE DEF at
  <2>2. QED
    BY <2>1 DEF Execution
<1>2. \A i \in Slots : slot[w][i] \in Execution \cup {Free}
  BY DEF TypeOK
<1>3. slot' = [slot EXCEPT ![w] = g]
  OBVIOUS
<1> HIDE DEF x
<1>4. g \in [Slots -> Execution \cup {Free}]
  BY <1>1, <1>2
<1> HIDE DEF g
<1>5. slot' \in [Worker -> [Slots -> Execution \cup {Free}]]
  BY <1>3, <1>4 DEF TypeOK
<1>6. inDispatch' \in [Worker -> SUBSET Task]
  BY DEF Occupy, TypeOK
<1>7. QED
  BY <1>5, <1>6

LEMMA PutTyped ==
    ASSUME TypeOK, NEW t \in Task, NEW status \in {"PENDING", "MOVED"}, Put(t, status)
    PROVE  /\ row' \in [Task -> Row]
           /\ row'[t].status = status
           /\ \A u \in Task \ {t} : row'[u] = row[u]
BY DEF Put, TypeOK, Row

-----------------------------------------------------------------------------
(* The invariant, action by action.                                        *)

\* The steps of a pass that move no row: it enters "gate", "lock" or "idle".
LEMMA QuietPass ==
    ASSUME IInv, NEW w \in Worker, NEW pc \in {"idle", "gate", "lock"}, NEW S \in SUBSET Task,
           Enter(w, pc, S), pass[w].pc \notin {"lock", "take"},
           UNCHANGED <<row, holds, up, lapses, faults>>,
           slot' \in [Worker -> [Slots -> Execution \cup {Free}]],
           inDispatch' \in [Worker -> SUBSET Task], releasing' \subseteq Task
    PROVE  IInv'
<1>1. /\ pass' \in [Worker -> Pass] /\ pass'[w].pc = pc
      /\ \A v \in Worker \ {w} : pass'[v] = pass[v]
  BY EnterTyped DEF IInv
<1>2. TypeOK'
  BY <1>1 DEF IInv, TypeOK
<1>3. LocksSound'
  <2>1. \A v \in Worker : \/ pass'[v].pc = pass[v].pc
                          \/ pass'[v].pc # "take" /\ pass[v].pc \notin {"lock", "take"}
    BY <1>1
  <2>2. QED
    BY <2>1, LocksKept DEF IInv
<1>4. Charges'
  <2>1. \A v \in Worker : Taking(v)' => pass'[v] = pass[v]
    BY <1>1 DEF Taking
  <2>2. QED
    BY <1>2, <2>1, NoRowsTouched
<1>5. QED
  BY <1>2, <1>3, <1>4 DEF IInv

LEMMA LoadStep ==
    ASSUME IInv, NEW w \in Worker, LoadBuffered(w) \/ StartPass(w)
    PROVE  IInv'
<1>1. \E pc \in {"gate", "lock"}, S \in SUBSET Task : Enter(w, pc, S)
  <2>1. CASE LoadBuffered(w)
    <3>1. PICK S \in SUBSET Task : Enter(w, IF S = {} THEN "lock" ELSE "gate", S)
      BY <2>1 DEF LoadBuffered
    <3>2. CASE S = {}
      BY <3>1, <3>2
    <3>3. CASE S # {}
      BY <3>1, <3>3
    <3>4. QED
      BY <3>2, <3>3
  <2>2. CASE StartPass(w)
    BY <2>2 DEF StartPass
  <2>3. QED
    BY <2>1, <2>2
<1>2. /\ pass[w].pc = "idle"
      /\ UNCHANGED <<row, holds, slot, inDispatch, releasing, up, lapses, faults>>
  BY DEF LoadBuffered, StartPass
<1>3. QED
  BY <1>1, <1>2, QuietPass DEF IInv, TypeOK

LEMMA DispatchStep ==
    ASSUME IInv, NEW w \in Worker, DispatchBuffered(w) \/ Dispatch(w)
    PROVE  IInv'
<1>1. pass[w].rows \subseteq Task /\ releasing \subseteq Task
  BY DEF IInv, TypeOK, Pass
<1>2. CASE DispatchBuffered(w)
  <2>1. PICK D \in SUBSET Task : Occupy(w, D, TRUE)
    BY <1>1, <1>2 DEF DispatchBuffered
  <2>2. /\ slot' \in [Worker -> [Slots -> Execution \cup {Free}]]
        /\ inDispatch' \in [Worker -> SUBSET Task]
    BY <2>1, OccupyTyped DEF IInv
  <2>3. QED
    BY <1>1, <1>2, <2>2, QuietPass DEF DispatchBuffered
<1>3. CASE Dispatch(w)
  <2>1. PICK D \in SUBSET Task :
            /\ Occupy(w, D, FALSE)
            /\ releasing' = IF HardCap
                            THEN releasing \cup ((pass[w].rows \ D) \ pass[w].stale)
                            ELSE releasing
    BY <1>1, <1>3 DEF Dispatch
  <2>2. /\ slot' \in [Worker -> [Slots -> Execution \cup {Free}]]
        /\ inDispatch' \in [Worker -> SUBSET Task]
    BY <2>1, OccupyTyped DEF IInv
  <2>3. releasing' \subseteq Task
    BY <1>1, <2>1
  <2>4. QED
    BY <1>3, <2>2, <2>3, QuietPass DEF Dispatch
<1>4. QED
  BY <1>2, <1>3

\* The next key is the least of the missing ones, so the order is kept.
LEMMA AcquireStep ==
    ASSUME IInv, NEW w \in Worker, Acquire(w)
    PROVE  IInv'
<1> PICK k \in NextKeys(w) : /\ \A v \in Worker : k \notin holds[v]
                             /\ holds' = [holds EXCEPT ![w] = @ \cup {k}]
  BY DEF Acquire
<1>1. /\ pass[w].pc = "lock"
      /\ UNCHANGED <<row, pass, slot, inDispatch, releasing, up, lapses, faults>>
      /\ holds \in [Worker -> SUBSET Keys]
  BY DEF Acquire, IInv, TypeOK
<1>2. /\ k \in Missing(w) /\ \A j \in Missing(w) : k <= j
      /\ Missing(w) \subseteq LockKeys(w)
  BY DEF NextKeys, Missing
<1>3. /\ k \in Keys /\ k \in LockKeys(w) /\ Missing(w) \subseteq Nat
  BY <1>2, KeysNatural
<1>4. /\ holds'[w] = holds[w] \cup {k}
      /\ \A v \in Worker \ {w} : holds'[v] = holds[v]
      /\ holds' \in [Worker -> SUBSET Keys]
  BY <1>1, <1>3
<1>5. TypeOK'
  BY <1>1, <1>4 DEF IInv, TypeOK
<1>6. Charges'
  BY <1>1, <1>5, NoRowsTouched
<1>7. LocksSound'
  <2>1. ASSUME NEW v \in Worker
        PROVE  /\ holds'[v] \subseteq LockKeys(v)
               /\ Taking(v)' => Missing(v)' = {}
               /\ pass'[v].pc \notin {"lock", "take"} => holds'[v] = {}
               /\ \A h \in holds'[v], j \in Missing(v)' : h < j
    <3>1. CASE v = w
      <4>1. Missing(w)' = Missing(w) \ {k}
        BY <1>4 DEF Missing, LockKeys
      <4>2. ASSUME NEW h \in holds'[w], NEW j \in Missing(w)' PROVE h < j
        <5>1. j \in Missing(w) /\ j # k
          BY <4>1, <4>2
        <5>2. CASE h = k
          BY <1>2, <1>3, <5>1, <5>2
        <5>3. CASE h \in holds[w]
          BY <5>1, <5>3 DEF IInv, LocksSound
        <5>4. QED
          BY <1>4, <4>2, <5>2, <5>3
      <4>3. QED
        BY <1>1, <1>3, <1>4, <3>1, <4>2 DEF IInv, LocksSound, Taking
    <3>2. CASE v # w
      <4>1. Missing(v)' = Missing(v)
        BY <1>4, <3>2 DEF Missing, LockKeys
      <4>2. QED
        BY <1>1, <1>4, <3>2, <4>1 DEF IInv, LocksSound, Taking
    <3>3. QED
      BY <3>1, <3>2
  <2>2. \A u, v \in Worker : u # v => holds'[u] \cap holds'[v] = {}
    BY <1>4 DEF IInv, LocksSound
  <2>3. QED
    BY <2>1, <2>2 DEF LocksSound, LockKeys, Missing, Taking
<1>8. QED
  BY <1>5, <1>6, <1>7 DEF IInv

LEMMA CountStep ==
    ASSUME IInv, NEW w \in Worker, Count(w)
    PROVE  IInv'
<1>1. /\ pass \in [Worker -> Pass] /\ holds \in [Worker -> SUBSET Keys]
      /\ UNCHANGED <<row, slot, inDispatch, releasing, up, lapses, faults>>
      /\ pass[w].pc = "lock" /\ Missing(w) = {}
  BY DEF Count, IInv, TypeOK
<1>2. CASE Budget(w) > 0
  <2> DEFINE u == [q \in Capped |-> Occupancy(q)]
             p == [Resting EXCEPT !.pc = "take", !.total = Budget(w), !.used = u]
  <2>1. pass' = [pass EXCEPT ![w] = p] /\ holds' = holds
    BY <1>2 DEF Count
  <2>2. u \in [Capped -> Nat]
    <3>1. \A q : Occupancy(q) \in Nat
      BY TasksCounted DEF Occupancy, RunningIn
    <3>2. QED
      BY <3>1
  <2>3. Budget(w) \in Nat
    BY BudgetBounds DEF IInv
  <2> HIDE DEF u
  <2>4. p \in Pass
    BY <2>2, <2>3 DEF Resting, Pass
  <2> HIDE DEF p
  <2>5. pass' \in [Worker -> Pass] /\ \A v \in Worker \ {w} : pass'[v] = pass[v]
    BY <1>1, <2>1, <2>4
  <2>6. TypeOK'
    BY <1>1, <2>1, <2>5 DEF IInv, TypeOK
  <2>7. LocksSound'
    <3>1. \A v \in Worker : Missing(v)' = Missing(v) /\ LockKeys(v)' = LockKeys(v)
      BY <2>1 DEF Missing, LockKeys
    <3>2. ASSUME NEW v \in Worker
          PROVE  /\ Taking(v)' => Missing(v) = {}
                 /\ pass'[v].pc \notin {"lock", "take"} => holds[v] = {}
      <4>1. CASE v = w
        <5>1. pass'[w] = p
          BY <1>1, <2>1
        <5>2. p.pc = "take"
          BY DEF p, Resting
        <5>3. QED
          BY <1>1, <4>1, <5>1, <5>2
      <4>2. CASE v # w
        BY <2>5, <4>2 DEF IInv, LocksSound, Taking
      <4>3. QED
        BY <4>1, <4>2
    <3>3. QED
      BY <2>1, <3>1, <3>2 DEF IInv, LocksSound
  <2>8. QED
    BY <2>6, <2>7, CountCharges DEF IInv
<1>3. CASE ~(Budget(w) > 0)
  <2>1. Enter(w, "idle", {}) /\ holds' = [holds EXCEPT ![w] = {}]
    BY <1>3 DEF Count
  <2>2. /\ pass' \in [Worker -> Pass] /\ pass'[w].pc = "idle"
        /\ \A v \in Worker \ {w} : pass'[v] = pass[v]
    BY <2>1, EnterTyped DEF IInv
  <2>3. TypeOK'
    BY <1>1, <2>1, <2>2 DEF IInv, TypeOK
  <2>4. LocksSound'
    BY <1>1, <2>1, <2>2, LocksReleased DEF IInv
  <2>5. QED
    BY <2>3, <2>4, CountCharges DEF IInv
<1>4. QED
  BY <1>2, <1>3

LEMMA TakeStep ==
    ASSUME IInv, NEW w \in Worker, Take(w)
    PROVE  IInv'
<1> PICK S \in SUBSET {t \in Task : Claimable(t) /\ QueueOf[t] \in Serves[w]} :
          /\ row' = [t \in Task |->
                       IF t \in S
                       THEN [status |-> "CLAIMED", owner |-> w,
                             lease |-> IF Leased THEN "held" ELSE "null"]
                       ELSE row[t]]
          /\ pass' = [v \in Worker |->
                        IF v # w
                        THEN [pass[v] EXCEPT !.stale = @ \cup (pass[v].rows \cap S)]
                        ELSE IF S = {} THEN Resting
                        ELSE [Resting EXCEPT !.pc = "dispatch", !.rows = S]]
          /\ slot' = [v \in Worker |-> [i \in Slots |->
                        IF slot[v][i].phase # "free" /\ slot[v][i].t \in S
                        THEN [slot[v][i] EXCEPT !.live = FALSE] ELSE slot[v][i]]]
          /\ releasing' = releasing \ S
  BY DEF Take
<1>1. holds' = [holds EXCEPT ![w] = {}] /\ UNCHANGED <<inDispatch, up, lapses, faults>>
  BY DEF Take
<1>2. row' \in [Task -> Row]
  BY DEF IInv, TypeOK, Row
<1>3. pass' \in [Worker -> Pass] /\ pass'[w].pc # "take"
      /\ \A v \in Worker \ {w} : pass'[v].pc = pass[v].pc
  <2>1. ASSUME NEW v \in Worker
        PROVE  /\ pass'[v] \in Pass /\ (v # w => pass'[v].pc = pass[v].pc)
               /\ (v = w => pass'[v].pc # "take")
    <3>1. CASE v # w
      BY <3>1 DEF IInv, TypeOK, Pass
    <3>2. CASE v = w
      BY <3>2, RestingTyped DEF Pass
    <3>3. QED
      BY <3>1, <3>2
  <2>2. QED
    BY <2>1
<1>4. slot' \in [Worker -> [Slots -> Execution \cup {Free}]]
  <2>1. ASSUME NEW v \in Worker, NEW i \in Slots
        PROVE  slot'[v][i] \in Execution \cup {Free}
    <3>1. CASE slot[v][i].phase # "free"
      BY <3>1, BusySlot DEF IInv, Execution
    <3>2. CASE slot[v][i].phase = "free"
      BY <3>2 DEF IInv, TypeOK
    <3>3. QED
      BY <3>1, <3>2
  <2>2. QED
    BY <2>1
<1>5. TypeOK'
  BY <1>1, <1>2, <1>3, <1>4 DEF IInv, TypeOK
<1>6. LocksSound'
  BY <1>1, <1>3, LocksReleased DEF IInv, TypeOK
<1>7. QED
  BY <1>5, <1>6, TakeCharges DEF IInv

\* The steps of executions, of the reaper and of the heartbeat: no pass moves.
LEMMA RowStep ==
    ASSUME IInv, UNCHANGED <<pass, holds, up, lapses>>,
           row' \in [Task -> Row],
           slot' \in [Worker -> [Slots -> Execution \cup {Free}]],
           inDispatch' \in [Worker -> SUBSET Task], releasing' \subseteq Task, faults' \in Nat,
           \A t \in Task :
               \/ row'[t] = row[t]
               \/ row'[t].status \in {"PENDING", "MOVED"}
               \/ /\ row[t].status = "CLAIMED" /\ row[t].lease # "lapsed"
                  /\ row'[t].status = "RUNNING" /\ row'[t].owner = row[t].owner
               \/ /\ row[t].status = "CLAIMED" /\ row[t].owner \in up
                  /\ row'[t].status = "CLAIMED" /\ row'[t].lease = "held"
                  /\ row'[t].owner = row[t].owner
    PROVE  IInv'
<1>1. TypeOK'
  BY DEF IInv, TypeOK
<1>2. LocksSound'
  BY LocksKept DEF IInv
<1>3. Charges'
  BY <1>1, RowsKept
<1>4. QED
  BY <1>1, <1>2, <1>3 DEF IInv

LEMMA StartStep ==
    ASSUME IInv, NEW w \in Worker, NEW i \in Slots, Start(w, i)
    PROVE  IInv'
<1> DEFINE t == slot[w][i].t
<1>1. slot[w][i].phase = "start" /\ slot[w][i] \in Execution /\ t \in Task
      /\ UNCHANGED <<pass, holds, releasing, up, lapses, faults>>
  BY BusySlot DEF Start, IInv
<1>2. CASE Owned(w, i, "CLAIMED") /\ row[t].lease # "lapsed"
  <2>1. /\ row[t].status = "CLAIMED" /\ row[t].lease # "lapsed"
        /\ row' = [row EXCEPT ![t].status = "RUNNING", ![t].lease = "null"]
        /\ slot' = [slot EXCEPT ![w][i].phase = "run"] /\ inDispatch' = inDispatch
    BY <1>2 DEF Start, Owned
  <2>2. slot' \in [Worker -> [Slots -> Execution \cup {Free}]]
    <3>1. [slot[w][i] EXCEPT !.phase = "run"] \in Execution
      BY <1>1 DEF Execution
    <3>2. QED
      BY <2>1, <3>1 DEF IInv, TypeOK
  <2> HIDE DEF t
  <2>3. /\ row' \in [Task -> Row] /\ row'[t].status = "RUNNING" /\ row'[t].owner = row[t].owner
        /\ \A u \in Task \ {t} : row'[u] = row[u]
    BY <1>1, <2>1 DEF IInv, TypeOK, Row
  <2>4. QED
    BY <1>1, <2>1, <2>2, <2>3, RowStep DEF IInv, TypeOK
<1>3. CASE ~(Owned(w, i, "CLAIMED") /\ row[t].lease # "lapsed")
  <2>1. End(w, i) /\ row' = row
    BY <1>3 DEF Start
  <2>2. /\ slot' \in [Worker -> [Slots -> Execution \cup {Free}]]
        /\ inDispatch' \in [Worker -> SUBSET Task]
    BY <2>1, EndTyped DEF IInv
  <2>3. QED
    BY <1>1, <2>1, <2>2, RowStep DEF IInv, TypeOK
<1>4. QED
  BY <1>2, <1>3

LEMMA FinishStep ==
    ASSUME IInv, NEW w \in Worker, NEW i \in Slots, NEW retry \in BOOLEAN, Finish(w, i, retry)
    PROVE  IInv'
<1> DEFINE t == slot[w][i].t
<1>1. t \in Task /\ UNCHANGED <<pass, holds, releasing, up, lapses>> /\ End(w, i)
  BY BusySlot DEF Finish, IInv
<1>2. /\ slot' \in [Worker -> [Slots -> Execution \cup {Free}]]
      /\ inDispatch' \in [Worker -> SUBSET Task] /\ faults' \in Nat
  BY <1>1, EndTyped DEF Finish, Fault, IInv, TypeOK
<1>3. /\ row' \in [Task -> Row]
      /\ \A u \in Task : row'[u] = row[u] \/ row'[u].status \in {"PENDING", "MOVED"}
  <2>1. CASE Owned(w, i, "RUNNING")
    <3>1. PICK status \in {"PENDING", "MOVED"} : Put(t, status)
      BY <2>1 DEF Finish
    <3> HIDE DEF t
    <3>2. QED
      BY <1>1, <3>1, PutTyped DEF IInv
  <2>2. CASE ~Owned(w, i, "RUNNING")
    BY <2>2 DEF Finish, IInv, TypeOK
  <2>3. QED
    BY <2>1, <2>2
<1>4. QED
  BY <1>1, <1>2, <1>3, RowStep DEF IInv, TypeOK

LEMMA AbandonStep ==
    ASSUME IInv, NEW w \in Worker, NEW i \in Slots, Abandon(w, i)
    PROVE  IInv'
<1>1. /\ slot' \in [Worker -> [Slots -> Execution \cup {Free}]]
      /\ inDispatch' \in [Worker -> SUBSET Task]
  BY EndTyped DEF Abandon, IInv
<1>2. UNCHANGED <<row, pass, holds, releasing, up, lapses>> /\ faults' \in Nat
  BY DEF Abandon, Fault, IInv, TypeOK
<1>3. QED
  BY <1>1, <1>2, RowStep DEF IInv, TypeOK

LEMMA ReleaseStep ==
    ASSUME IInv, NEW t \in Task,
           Unclaim(t) \/ RequeueStaleClaimed(t) \/ ReapStaleRunning(t)
    PROVE  IInv'
<1>1. /\ UNCHANGED <<pass, holds, slot, inDispatch, up, lapses>>
      /\ faults' \in Nat /\ releasing' \subseteq Task
  BY DEF Unclaim, RequeueStaleClaimed, ReapStaleRunning, Fault, IInv, TypeOK
<1>2. row' = row \/ \E status \in {"PENDING", "MOVED"} : Put(t, status)
  BY DEF Unclaim, RequeueStaleClaimed, ReapStaleRunning
<1>3. /\ row' \in [Task -> Row]
      /\ \A u \in Task : row'[u] = row[u] \/ row'[u].status \in {"PENDING", "MOVED"}
  BY <1>2, PutTyped DEF IInv, TypeOK
<1>4. QED
  BY <1>1, <1>3, RowStep DEF IInv, TypeOK

LEMMA RenewStep ==
    ASSUME IInv, NEW w \in Worker, RenewLease(w)
    PROVE  IInv'
<1> PICK S \in SUBSET {t \in Task : row[t].status = "CLAIMED" /\ row[t].owner = w} :
        row' = [t \in Task |-> IF t \in S THEN [row[t] EXCEPT !.lease = "held"] ELSE row[t]]
  BY DEF RenewLease
<1>1. w \in up /\ UNCHANGED <<pass, holds, slot, inDispatch, releasing, up, lapses, faults>>
  BY DEF RenewLease
<1>2. row' \in [Task -> Row]
  BY DEF IInv, TypeOK, Row
<1>3. ASSUME NEW t \in Task
      PROVE  \/ row'[t] = row[t]
             \/ /\ row[t].status = "CLAIMED" /\ row[t].owner \in up
                /\ row'[t].status = "CLAIMED" /\ row'[t].lease = "held"
                /\ row'[t].owner = row[t].owner
  BY <1>1 DEF IInv, TypeOK, Row
<1>4. QED
  BY <1>1, <1>2, <1>3, RowStep DEF IInv, TypeOK

LEMMA LapseStep ==
    ASSUME IInv, NEW t \in Task, LeaseLapses(t)
    PROVE  IInv'
<1>1. UNCHANGED <<pass, holds, slot, inDispatch, releasing, up, faults>>
  BY DEF LeaseLapses
<1>2. row' \in [Task -> Row] /\ lapses' \in Nat
  <2>1. row' \in [Task -> Row]
    <3>1. [row[t] EXCEPT !.lease = "lapsed"] \in Row
      BY DEF IInv, TypeOK, Row
    <3>2. row' = [row EXCEPT ![t] = [row[t] EXCEPT !.lease = "lapsed"]]
      BY DEF LeaseLapses
    <3>3. QED
      BY <3>1, <3>2 DEF IInv, TypeOK
  <2>2. lapses' \in Nat
    BY DEF LeaseLapses, IInv, TypeOK
  <2>3. QED
    BY <2>1, <2>2
<1>3. TypeOK'
  BY <1>1, <1>2 DEF IInv, TypeOK
<1>4. LocksSound'
  BY <1>1, LocksKept DEF IInv
<1>5. QED
  BY <1>3, <1>4, LapseCharges DEF IInv

\* The claims of a dead worker cannot be renewed, so their lapses need no account.
LEMMA CrashStep ==
    ASSUME IInv, NEW w \in Worker, Crash(w)
    PROVE  IInv'
<1>1. /\ UNCHANGED <<row, lapses>> /\ up' = up \ {w}
      /\ pass' = [pass EXCEPT ![w] = Resting]
      /\ holds' = [holds EXCEPT ![w] = {}]
      /\ pass \in [Worker -> Pass] /\ holds \in [Worker -> SUBSET Keys]
  BY DEF Crash, IInv, TypeOK
<1>2. /\ pass' \in [Worker -> Pass] /\ pass'[w].pc = "idle"
      /\ \A v \in Worker \ {w} : pass'[v] = pass[v]
  BY <1>1, RestingTyped
<1>3. /\ slot' \in [Worker -> [Slots -> Execution \cup {Free}]]
      /\ inDispatch' \in [Worker -> SUBSET Task] /\ releasing' \subseteq Task
      /\ holds' \in [Worker -> SUBSET Keys] /\ faults' \in Nat
  BY DEF Crash, Fault, IInv, TypeOK
<1>4. TypeOK'
  BY <1>1, <1>2, <1>3 DEF IInv, TypeOK
<1>5. LocksSound'
  BY <1>1, <1>2, LocksReleased DEF IInv
<1>6. Charges'
  <2>1. \A v \in Worker : Taking(v)' => pass'[v] = pass[v]
    BY <1>2 DEF Taking
  <2>2. QED
    BY <1>1, <1>4, <2>1, RowsKept
<1>7. QED
  BY <1>4, <1>5, <1>6 DEF IInv

LEMMA NextStep ==
    ASSUME IInv, [Next]_vars
    PROVE  IInv'
<1>1. ASSUME NEW w \in Worker, PassStep(w) PROVE IInv'
  BY <1>1, LoadStep, DispatchStep, AcquireStep, CountStep, TakeStep DEF PassStep
<1>2. ASSUME NEW w \in Worker, Execute(w) PROVE IInv'
  BY <1>2, StartStep, FinishStep DEF Execute
<1>3. ASSUME NEW w \in Worker, Disturb(w) PROVE IInv'
  BY <1>3, FinishStep, AbandonStep DEF Disturb
<1>4. ASSUME NEW w \in Worker, RenewLease(w) PROVE IInv'
  BY <1>4, RenewStep
<1>5. ASSUME NEW w \in Worker, Crash(w) PROVE IInv'
  BY <1>5, CrashStep
<1>6. ASSUME NEW t \in Task, Unclaim(t) \/ RequeueStaleClaimed(t) \/ ReapStaleRunning(t)
      PROVE  IInv'
  BY <1>6, ReleaseStep
<1>7. ASSUME NEW t \in Task, LeaseLapses(t) PROVE IInv'
  BY <1>7, LapseStep
<1>8. ASSUME UNCHANGED vars PROVE IInv'
  <2>1. \A t \in Task : row'[t] = row[t]
    BY <1>8 DEF vars
  <2>2. QED
    BY <1>8, <2>1, RowStep DEF vars, IInv, TypeOK
<1>9. QED
  BY <1>1, <1>2, <1>3, <1>4, <1>5, <1>6, <1>7, <1>8 DEF Next

LEMMA InitCharges ==
    ASSUME Init
    PROVE  IInv
<1>1. TypeOK
  BY RestingTyped, ConstantsTyped DEF Init, TypeOK, Row
<1>2. /\ Lapsed = {} /\ Charged = {}
      /\ \A q : ChargedIn(q) = {} /\ \A w : ChargedTo(w) = {}
      /\ \A w \in Worker : ~Taking(w)
  BY RestingTyped DEF Init, Lapsed, Charged, ChargedIn, ChargedTo, InFlight, Taking
<1>3. Charges
  <2>1. lapses = 0
    BY DEF Init
  <2>2. \A q \in Capped : QueueCap[q] \in Nat
    BY ConstantsTyped
  <2>3. ClusterCharge
    BY <1>2, <2>1, EmptyCounted, ConstantsTyped DEF ClusterCharge
  <2>4. QueueCharge
    BY <1>2, <2>1, <2>2, EmptyCounted DEF QueueCharge
  <2>5. WorkerCharge
    <3> SUFFICES ASSUME NEW w \in Worker
                 PROVE  Cardinality(ChargedTo(w)) <= Processes + PrefetchBuffer + lapses
      BY <1>2 DEF WorkerCharge
    <3>1. Cardinality(ChargedTo(w)) = 0
      BY <1>2, EmptyCounted
    <3>2. QED
      BY <2>1, <3>1, ConstantsTyped
  <2>6. LapsesCounted
    BY <1>2, <2>1, EmptyCounted DEF LapsesCounted
  <2>7. QED
    BY <2>3, <2>4, <2>5, <2>6 DEF Charges
<1>4. LocksSound
  BY <1>2, RestingTyped DEF Init, LocksSound
<1>5. QED
  BY <1>1, <1>3, <1>4 DEF IInv

-----------------------------------------------------------------------------
(* What the claim passes promise, for every number of workers, tasks,      *)
(* queues and permits.                                                     *)

\* The inductive invariant: what is charged, and what is counted but not yet
\* claimed, fits every cap.
THEOREM InvariantHolds == Spec => []IInv
<1>1. Init => IInv
  BY InitCharges
<1>2. IInv /\ [Next]_vars => IInv'
  BY NextStep
<1>3. QED
  BY <1>1, <1>2, PTL DEF Spec

\* The variables stay in their types.
THEOREM TypeCorrect == Spec => []TypeOK
<1>1. IInv => TypeOK
  BY DEF IInv
<1>2. QED
  BY <1>1, InvariantHolds, PTL

\* The cluster-wide cap and every queue's cap hold, up to the number of lapses,
\* whatever the interleaving of counting and claiming.
THEOREM CapsRespected == Spec => []CapsHeld
<1>1. ASSUME IInv PROVE CapsHeld
  <2>1. lapses \in Nat
    BY <1>1 DEF IInv, TypeOK
  <2>2. ClusterCapHeld
    <3>1. InFlightTasks \subseteq Charged /\ Charged \subseteq Task
      BY ChargedTasks DEF InFlightTasks, Charged
    <3>2. /\ Cardinality(InFlightTasks) <= Cardinality(Charged)
          /\ Cardinality(InFlightTasks) \in Nat /\ Cardinality(Charged) \in Nat
      BY <3>1, FewerCounted, TasksCounted
    <3>3. QED
      BY <1>1, <2>1, <3>2, ConstantsTyped DEF ClusterCapHeld, IInv, Charges, ClusterCharge
  <2>3. QueueCapHeld
    <3> SUFFICES ASSUME HardCap, NEW q \in Capped
                 PROVE  Cardinality({t \in InFlightTasks : QueueOf[t] = q}) <= QueueCap[q] + lapses
      BY DEF QueueCapHeld
    <3> DEFINE In == {t \in InFlightTasks : QueueOf[t] = q}
    <3>1. In \subseteq ChargedIn(q) /\ ChargedIn(q) \subseteq Task
      BY ChargedTasks DEF InFlightTasks, Charged, ChargedIn
    <3> HIDE DEF In
    <3>2. /\ Cardinality(In) <= Cardinality(ChargedIn(q))
          /\ Cardinality(In) \in Nat /\ Cardinality(ChargedIn(q)) \in Nat
      BY <3>1, FewerCounted, TasksCounted
    <3>3. Cardinality(In) <= QueueCap[q] + lapses
      BY <1>1, <2>1, <3>2, ConstantsTyped DEF IInv, Charges, QueueCharge
    <3>4. QED
      BY <3>3 DEF In
  <2>4. QED
    BY <2>2, <2>3 DEF CapsHeld
<1>2. QED
  BY <1>1, InvariantHolds, PTL

\* No worker runs and claims more than its concurrency and its buffer, up to the
\* number of lapses.
THEOREM BudgetRespected == Spec => []WorkerBudgetHeld
<1>1. ASSUME IInv PROVE WorkerBudgetHeld
  <2> SUFFICES ASSUME NEW w \in Worker
               PROVE  Cardinality(InFlightOf(w)) <= Processes + PrefetchBuffer + lapses
    BY DEF WorkerBudgetHeld
  <2>1. InFlightOf(w) \subseteq ChargedTo(w) /\ ChargedTo(w) \subseteq Task
    BY ChargedTasks DEF InFlightOf, ChargedTo, Charged
  <2>2. /\ Cardinality(InFlightOf(w)) <= Cardinality(ChargedTo(w))
        /\ Cardinality(InFlightOf(w)) \in Nat /\ Cardinality(ChargedTo(w)) \in Nat
    BY <2>1, FewerCounted, TasksCounted
  <2>3. QED
    BY <1>1, <2>2, ConstantsTyped DEF IInv, TypeOK, Charges, WorkerCharge
<1>2. QED
  BY <1>1, InvariantHolds, PTL

-----------------------------------------------------------------------------
(* The advisory locks.                                                     *)

\* A finite set of keys has a least and a greatest one.
LEMMA Extremes ==
    ASSUME NEW H \in SUBSET Nat, IsFiniteSet(H), H # {}
    PROVE  /\ \E m \in H : \A j \in H : m <= j
           /\ \E m \in H : \A j \in H : j <= m
<1> DEFINE Below(k) == {j \in H : j < k}
           Above(k) == {j \in H : k < j}
<1>1. /\ \A k : /\ Below(k) \subseteq H /\ \A j : j \in Below(k) <=> j \in H /\ j < k
               /\ Above(k) \subseteq H /\ \A j : j \in Above(k) <=> j \in H /\ k < j
      /\ \A i, j, k \in H : ~(i < i) /\ (i < j /\ j < k => i < k) /\ (~(i < j) => j <= i)
  OBVIOUS
<1> HIDE DEF Below, Above
<1>2. IsWellFoundedOn(StrictSubsetOrdering(H), FiniteSubsetsOf(H))
  BY FS_StrictSubsetOrderingWellFounded
<1>3. \A k : Below(k) \in FiniteSubsetsOf(H) /\ Above(k) \in FiniteSubsetsOf(H)
  BY <1>1, FS_Subset DEF FiniteSubsetsOf
<1>4. \E m \in H : \A j \in H : m <= j
  <2> DEFINE T == {Below(k) : k \in H}
  <2>1. T \subseteq FiniteSubsetsOf(H) /\ T # {}
    BY <1>3
  <2>2. \E x \in T : \A y \in T : <<y, x>> \notin StrictSubsetOrdering(H)
    BY <1>2, <2>1, WFMin
  <2>3. PICK m \in H : \A k \in H : <<Below(k), Below(m)>> \notin StrictSubsetOrdering(H)
    BY <2>2
  <2>4. ASSUME NEW j \in H, j < m PROVE FALSE
    <3>1. j \in Below(m) /\ j \notin Below(j) /\ Below(j) \subseteq Below(m)
      BY <1>1, <2>4
    <3>2. <<Below(j), Below(m)>> \in StrictSubsetOrdering(H)
      BY <1>1, <3>1 DEF StrictSubsetOrdering
    <3>3. QED
      BY <2>3, <3>2
  <2>5. QED
    BY <1>1, <2>4
<1>5. \E m \in H : \A j \in H : j <= m
  <2> DEFINE T == {Above(k) : k \in H}
  <2>1. T \subseteq FiniteSubsetsOf(H) /\ T # {}
    BY <1>3
  <2>2. \E x \in T : \A y \in T : <<y, x>> \notin StrictSubsetOrdering(H)
    BY <1>2, <2>1, WFMin
  <2>3. PICK m \in H : \A k \in H : <<Above(k), Above(m)>> \notin StrictSubsetOrdering(H)
    BY <2>2
  <2>4. ASSUME NEW j \in H, m < j PROVE FALSE
    <3>1. j \in Above(m) /\ j \notin Above(j) /\ Above(j) \subseteq Above(m)
      BY <1>1, <2>4
    <3>2. <<Above(j), Above(m)>> \in StrictSubsetOrdering(H)
      BY <1>1, <3>1 DEF StrictSubsetOrdering
    <3>3. QED
      BY <2>3, <3>2
  <2>5. QED
    BY <1>1, <2>4
<1>6. QED
  BY <1>4, <1>5

LEMMA KeysFinite == IsFiniteSet(Keys) /\ Keys \subseteq Nat
<1> DEFINE K == {QueueKey[q] : q \in Queue}
<1>1. QueueKey \in Surjection(Queue, K)
  BY CapsAssumption DEF Surjection
<1>2. IsFiniteSet(K)
  BY <1>1, ConstantsTyped, FS_Surjection
<1>3. IsFiniteSet(K \cup {GlobalKey})
  BY <1>2, FS_AddElement
<1>4. QED
  BY <1>3, ConstantsTyped DEF Keys

\* Claim passes never wait for each other in a ring: the greatest key that is held
\* belongs to a worker that waits for no key that is held, for every assignment of
\* keys to queues, collisions included.
THEOREM LocksNeverCycle == Spec => []NoLockCycle
<1>1. ASSUME IInv PROVE NoLockCycle
  <2> DEFINE Passing(w) == pass[w].pc \in {"lock", "take"}
  <2> SUFFICES ASSUME NEW v \in Worker, Passing(v),
                      \A w \in Worker : Passing(w) => Blocked(w)
               PROVE  FALSE
    BY DEF NoLockCycle
  <2> DEFINE H == {k \in Keys : \E w \in Worker : k \in holds[w]}
  <2>1. ASSUME NEW w \in Worker, Passing(w)
        PROVE  \E k \in Missing(w) : k \in H
    <3>1. Blocked(w)
      BY <2>1
    <3>2. /\ Missing(w) # {} /\ Missing(w) \subseteq Keys
          /\ \A k \in NextKeys(w) : \E u \in Worker : k \in holds[u]
      BY <3>1, KeysNatural DEF Blocked, Missing
    <3>3. IsFiniteSet(Missing(w)) /\ Missing(w) \in SUBSET Nat
      BY <3>2, KeysFinite, FS_Subset
    <3>4. PICK k \in Missing(w) : \A j \in Missing(w) : k <= j
      BY <3>2, <3>3, Extremes
    <3>5. k \in NextKeys(w)
      BY <3>4 DEF NextKeys
    <3>6. QED
      BY <3>2, <3>5
  <2>2. H # {} /\ H \in SUBSET Nat /\ IsFiniteSet(H)
    BY <2>1, KeysFinite, FS_Subset
  <2>3. PICK m \in H : \A j \in H : j <= m
    BY <2>2, Extremes
  <2>4. PICK w \in Worker : m \in holds[w]
    OBVIOUS
  <2>5. Passing(w)
    BY <1>1, <2>4 DEF IInv, LocksSound
  <2>6. PICK k \in Missing(w) : k \in H
    BY <2>1, <2>5
  <2>7. m < k
    BY <1>1, <2>4, <2>6 DEF IInv, LocksSound
  <2>8. QED
    BY <2>2, <2>3, <2>6, <2>7
<1>2. QED
  BY <1>1, InvariantHolds, PTL

=============================================================================
