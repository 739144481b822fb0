-------------------------- MODULE TaskSends_proofs --------------------------
(***************************************************************************)
(* Type correctness, KeyHasOneTask and AnswersAgree of TaskSends, for any  *)
(* number of sends, ids, keys, attempts and lost connections.              *)
(***************************************************************************)
EXTENDS TaskSends, TLAPS

\* The key may be reserved: nobody has, or its window ran out.
Free(r) == r = None \/ r.st = "lapsed"

Holding == {"insert", "bind", "commit", "rebind"}

\* What an open transaction may rely on until it commits.
TxOK(x) ==
    /\ x.pc \in {"claim", "reserve", "bind", "rebind"} => Keyed(x.s)
    /\ x.pc = "reserve" => Free(x.seen)
    /\ Keyed(x.s) /\ x.pc \in Holding => Free(res[KeyOf[x.s]])
    /\ x.pc = "commit" => live[IdOf[x.s]] = None
    /\ x.pc = "rebind" => /\ live[IdOf[x.s]] # None
                          /\ live[IdOf[x.s]].key \in {NoKey, KeyOf[x.s]}

\* The unique indexes and the row lock admit one transaction at a time.
Exclusive ==
    \A x, y \in txs :
        /\ \A k \in Key : HoldsKey(x, k) /\ HoldsKey(y, k) => x = y
        /\ \A i \in Id : Inserting(x, i) /\ Inserting(y, i) => x = y
        /\ \A i \in Id : Locking(x, i) /\ Locking(y, i) => x = y

IInv ==
    /\ TypeOK
    /\ KeyHasOneTask
    /\ \A x \in txs : TxOK(x)
    /\ Exclusive

LEMMA ConstantsTyped ==
    /\ IdOf \in [Send -> Id] /\ KeyOf \in [Send -> Key \cup {NoKey}] /\ NoKey \notin Key
    /\ MaxAttempts \in Nat \ {0} /\ MaxFaults \in Nat
    /\ None \notin Row /\ None \notin Reservation /\ None \notin Refusal
    /\ None \notin Id /\ Id \cap Refusal = {}
BY SendsAssumption DEF SendsAssumption

LEMMA InvInit == Init => IInv
<1> SUFFICES ASSUME Init PROVE IInv OBVIOUS
<1>1. TypeOK BY ConstantsTyped DEF Init, TypeOK
<1>2. KeyHasOneTask BY DEF Init, KeyHasOneTask, Bound
<1>3. txs = {} BY DEF Init
<1> QED BY <1>1, <1>2, <1>3 DEF IInv, Exclusive

----------------------------------------------------------------------------
(* Steps that write neither rows nor reservations.                         *)

\* Two transactions that may be open together.
Apart(x, y) ==
    /\ \A k \in Key : ~(HoldsKey(x, k) /\ HoldsKey(y, k))
    /\ \A i \in Id : ~(Inserting(x, i) /\ Inserting(y, i))
    /\ \A i \in Id : ~(Locking(x, i) /\ Locking(y, i))

\* One transaction begins or goes on, and is apart from those that stay.
LEMMA GoesOn ==
    ASSUME IInv, TypeOK', UNCHANGED <<live, history, res, taken>>,
           NEW z, txs' \subseteq txs \cup {z}, TxOK(z),
           \A y \in txs' : y # z => Apart(z, y)
    PROVE  IInv'
<1>1. KeyHasOneTask' BY DEF IInv, KeyHasOneTask, Bound
<1>2. \A x \in txs' : TxOK(x)' BY DEF IInv, TxOK, Keyed
<1>3. Exclusive'
  BY DEF IInv, Exclusive, Apart, HoldsKey, Inserting, Locking
<1> QED BY <1>1, <1>2, <1>3 DEF IInv

\* Transactions only end.
LEMMA Ends ==
    ASSUME IInv, TypeOK', UNCHANGED <<live, history, res, taken>>, txs' \subseteq txs
    PROVE  IInv'
<1>1. KeyHasOneTask' BY DEF IInv, KeyHasOneTask, Bound
<1>2. \A x \in txs' : TxOK(x)' BY DEF IInv, TxOK, Keyed
<1>3. Exclusive'
  BY DEF IInv, Exclusive, HoldsKey, Inserting, Locking
<1> QED BY <1>1, <1>2, <1>3 DEF IInv

\* A transaction at a statement holds what it held, and is apart from others.
LEMMA TxTyped ==
    ASSUME IInv, NEW x \in txs
    PROVE  /\ x \in Tx /\ x.s \in Send /\ x.n \in 1..MaxAttempts
           /\ IdOf[x.s] \in Id /\ KeyOf[x.s] \in Key \cup {NoKey}
           /\ (Keyed(x.s) <=> KeyOf[x.s] \in Key) /\ TxOK(x)
           /\ \A y \in txs : y # x => Apart(x, y)
BY ConstantsTyped DEF IInv, TypeOK, Tx, Keyed, Exclusive, Apart

LEMMA OpenStep ==
    ASSUME IInv, NEW s \in Send, Open(s), tries[s] < MaxAttempts, TypeOK',
           UNCHANGED <<live, history, res, taken>>
    PROVE  IInv'
<1> DEFINE z == [s |-> s, n |-> tries[s] + 1, seen |-> None,
                 pc |-> IF Keyed(s) THEN "claim" ELSE "insert"]
<1>1. txs' = txs \cup {z} BY DEF Open
<1>2. TxOK(z) BY DEF TxOK, Holding
<1>3. \A y \in txs' : Apart(z, y)
  BY ConstantsTyped DEF Apart, HoldsKey, Inserting, Locking, Keyed
<1> HIDE DEF z
<1> QED BY <1>1, <1>2, <1>3, GoesOn

LEMMA OpenTyped ==
    ASSUME TypeOK, NEW s \in Send, Open(s), tries[s] < MaxAttempts
    PROVE  tries' \in [Send -> 0..MaxAttempts] /\ txs' \subseteq Tx
<1>1. tries[s] + 1 \in 0..MaxAttempts /\ tries[s] + 1 \in 1..MaxAttempts
  BY ConstantsTyped DEF TypeOK
<1>2. tries' \in [Send -> 0..MaxAttempts] BY <1>1 DEF Open, TypeOK
<1>3. txs' \subseteq Tx BY <1>1 DEF Open, TypeOK, Tx
<1> QED BY <1>2, <1>3

\* A statement that moves x to pc, where x takes no lock that is held.
LEMMA GotoStep ==
    ASSUME IInv, NEW x \in txs, NEW pc, Goto(x, pc), TypeOK',
           UNCHANGED <<live, history, res, taken>>,
           TxOK([x EXCEPT !.pc = pc]),
           \A y \in txs : y # x => Apart([x EXCEPT !.pc = pc], y)
    PROVE  IInv'
<1> DEFINE z == [x EXCEPT !.pc = pc]
<1>1. txs' = (txs \ {x}) \cup {z} BY DEF Goto
<1> HIDE DEF z
<1>2. TxOK(z) /\ \A y \in txs : y # x => Apart(z, y) BY DEF z
<1> QED BY <1>1, <1>2, GoesOn

LEMMA GotoTyped ==
    ASSUME TypeOK, NEW x \in txs, NEW pc, Goto(x, pc),
           pc \in {"claim", "reserve", "insert", "bind", "verify", "commit", "rebind"}
    PROVE  txs' \subseteq Tx
BY DEF TypeOK, Goto, Tx

----------------------------------------------------------------------------
(* The statements of an attempt.                                           *)

LEMMA AnswerTyped ==
    ASSUME TypeOK, NEW s \in Send, NEW a \in Id \cup Refusal \cup {None}, Returns(s, a)
    PROVE  ans' \in [Send -> Id \cup Refusal \cup {None}]
BY DEF TypeOK, Returns

LEMMA BeginStep ==
    ASSUME IInv, NEW s \in Send, Begin(s)
    PROVE  IInv'
<1>1. tries[s] < MaxAttempts
  BY ConstantsTyped DEF Begin, Resends, IInv, TypeOK
<1>2. Open(s) /\ UNCHANGED <<live, history, res, taken, ans, faults>>
  BY DEF Begin, rows
<1>3. TypeOK' BY <1>1, <1>2, OpenTyped DEF IInv, TypeOK
<1> QED BY <1>1, <1>2, <1>3, OpenStep

LEMMA LoseStep ==
    ASSUME IInv, NEW x \in txs, LoseConnection(x)
    PROVE  IInv'
<1>1. x.s \in Send /\ faults' \in 0..MaxFaults
      /\ UNCHANGED <<live, history, res, taken>>
  BY TxTyped, ConstantsTyped DEF LoseConnection, rows, IInv, TypeOK
<1>2. CASE Resends(x.s)
  <2>1. tries[x.s] < MaxAttempts /\ Open(x.s) /\ UNCHANGED ans
    BY <1>2 DEF LoseConnection, Resends
  <2>2. TypeOK' BY <1>1, <2>1, OpenTyped DEF IInv, TypeOK
  <2> QED BY <1>1, <2>1, <2>2, OpenStep
<1>3. CASE ~Resends(x.s)
  <2>1. Returns(x.s, "failed") /\ UNCHANGED <<tries, txs>>
    BY <1>3 DEF LoseConnection
  <2>2. ans' \in [Send -> Id \cup Refusal \cup {None}]
    BY <1>1, <2>1, AnswerTyped DEF IInv, Refusal
  <2>3. TypeOK' BY <1>1, <2>1, <2>2 DEF IInv, TypeOK
  <2> QED BY <1>1, <2>1, <2>3, Ends
<1> QED BY <1>2, <1>3

LEMMA RollBackStep ==
    ASSUME IInv, NEW x \in txs, RollBack(x)
    PROVE  IInv'
<1>1. txs' \subseteq txs /\ UNCHANGED <<live, history, res, taken, tries, ans, faults>>
  BY DEF RollBack, Over, rows
<1>2. TypeOK' BY <1>1 DEF IInv, TypeOK
<1> QED BY <1>1, <1>2, Ends

\* An attempt that ends with an answer and writes nothing.
LEMMA AnswerStep ==
    ASSUME IInv, NEW x \in txs, NEW a \in Id \cup Refusal \cup {None},
           Over(x), Returns(x.s, a), UNCHANGED <<live, history, res, taken, tries, faults>>
    PROVE  IInv'
<1>1. txs' \subseteq txs BY DEF Over
<1>2. ans' \in [Send -> Id \cup Refusal \cup {None}] BY TxTyped, AnswerTyped DEF IInv
<1>3. TypeOK' BY <1>1, <1>2 DEF IInv, TypeOK
<1> QED BY <1>1, <1>3, Ends

LEMMA ClaimStep ==
    ASSUME IInv, NEW x \in txs, Claim(x)
    PROVE  IInv'
<1> DEFINE r == res[KeyOf[x.s]]
<1>1. x.pc = "claim" /\ KeyOf[x.s] \in Key /\ x \in Tx /\ Keyed(x.s)
  BY TxTyped DEF Claim, TxOK
<1>2. r \in Reservation \cup {None} BY <1>1 DEF IInv, TypeOK
<1>3. UNCHANGED <<live, history, res, taken, tries, faults>> BY DEF Claim, rows
<1>4. CASE r # None /\ r.st # "lapsed"
  <2>1. r.owner \in Id BY <1>2, <1>4 DEF Reservation
  <2>2. PICK a \in Id \cup Refusal : Returns(x.s, a) /\ Over(x)
    BY <1>4, <2>1 DEF Claim, Refusal
  <2> QED BY <1>3, <2>2, AnswerStep
<1>5. CASE ~(r # None /\ r.st # "lapsed")
  <2> DEFINE z == [x EXCEPT !.pc = "reserve", !.seen = r]
  <2>1. txs' = (txs \ {x}) \cup {z} /\ UNCHANGED ans BY <1>5 DEF Claim
  <2>2. /\ z \in Tx /\ z.pc = "reserve" /\ z.seen = r /\ z.s = x.s
    BY <1>1, <1>2 DEF Tx
  <2>3. TypeOK' BY <1>3, <2>1, <2>2 DEF IInv, TypeOK
  <2>4. TxOK(z) BY <1>1, <1>5, <2>2 DEF TxOK, Free, Holding, Keyed
  <2>5. \A y \in txs : Apart(z, y)
    BY <2>2 DEF Apart, HoldsKey, Inserting, Locking
  <2> HIDE DEF z
  <2> QED BY <1>3, <2>1, <2>3, <2>4, <2>5, GoesOn
<1> QED BY <1>4, <1>5

LEMMA ReserveStep ==
    ASSUME IInv, NEW x \in txs, Reserve(x)
    PROVE  IInv'
<1> DEFINE k == KeyOf[x.s]
           z == [x EXCEPT !.pc = "insert"]
<1>1. x.pc = "reserve" /\ k \in Key /\ x \in Tx /\ Keyed(x.s) /\ Free(x.seen)
  BY TxTyped DEF Reserve, TxOK
<1>2. UNCHANGED <<live, history, res, taken, tries, faults>> BY DEF Reserve, rows
<1>3. CASE res[k] = x.seen
  <2>1. Goto(x, "insert") /\ UNCHANGED ans BY <1>3 DEF Reserve
  <2>2. TypeOK' BY <1>2, <2>1, GotoTyped DEF IInv, TypeOK
  <2>3. z.pc = "insert" /\ z.s = x.s BY <1>1 DEF Tx
  <2>4. TxOK(z) BY <1>1, <1>3, <2>3 DEF TxOK
  <2>5. \A y \in txs : ~HoldsKey(y, k) BY DEF Reserve
  <2>6. \A y \in txs : Apart(z, y)
    BY <2>3, <2>5 DEF Apart, HoldsKey, Inserting, Locking
  <2> QED BY <1>2, <2>1, <2>2, <2>4, <2>6, GotoStep
<1>4. CASE res[k] # x.seen
  BY <1>2, <1>4, AnswerStep DEF Reserve, Refusal
<1> QED BY <1>3, <1>4

LEMMA InsertStep ==
    ASSUME IInv, NEW x \in txs, Insert(x)
    PROVE  IInv'
<1> DEFINE i == IdOf[x.s]
           pc == IF live[i] = None THEN "commit" ELSE IF Keyed(x.s) THEN "bind" ELSE "verify"
           z == [x EXCEPT !.pc = pc]
<1>1. x.pc = "insert" /\ x \in Tx /\ i \in Id /\ TxOK(x)
  BY TxTyped DEF Insert
<1>2. UNCHANGED <<live, history, res, taken, tries, ans, faults>> /\ Goto(x, pc)
  BY DEF Insert, rows
<1>3. z.s = x.s /\ z.pc = pc BY <1>1 DEF Tx
<1>4. TypeOK' BY <1>2, GotoTyped DEF IInv, TypeOK
<1>5. \/ pc = "commit" /\ live[i] = None
      \/ pc = "bind" /\ Keyed(x.s)
      \/ pc = "verify" /\ ~Keyed(x.s)
  OBVIOUS
<1> HIDE DEF pc
<1>6. TxOK(z) BY <1>1, <1>3, <1>5 DEF TxOK, Holding
<1>7. \A y \in txs : ~Inserting(y, i) BY DEF Insert
<1>8. ASSUME NEW y \in txs, y # x PROVE Apart(z, y)
  <2>1. \A j \in Id : ~(Inserting(z, j) /\ Inserting(y, j))
    BY <1>3, <1>7 DEF Inserting
  <2>2. \A j \in Id : ~Locking(z, j) BY <1>3, <1>5 DEF Locking
  <2>3. \A k \in Key : HoldsKey(z, k) => HoldsKey(x, k)
    BY <1>1, <1>3 DEF HoldsKey
  <2>4. \A k \in Key : ~(HoldsKey(x, k) /\ HoldsKey(y, k))
    BY <1>8, TxTyped DEF Apart
  <2> QED BY <2>1, <2>2, <2>3, <2>4 DEF Apart
<1> QED BY <1>2, <1>4, <1>6, <1>8, GotoStep

LEMMA VerifyStep ==
    ASSUME IInv, NEW x \in txs, Verify(x)
    PROVE  IInv'
<1>1. UNCHANGED <<live, history, res, taken, tries, faults>> /\ Over(x)
  BY DEF Verify, rows
<1>2. \E a \in Id \cup Refusal : Returns(x.s, a) BY TxTyped DEF Verify, Refusal
<1> QED BY <1>1, <1>2, AnswerStep

LEMMA BindStep ==
    ASSUME IInv, NEW x \in txs, Bind(x)
    PROVE  IInv'
<1> DEFINE i == IdOf[x.s]
           z == [x EXCEPT !.pc = "rebind"]
<1>1. x.pc = "bind" /\ x \in Tx /\ i \in Id /\ TxOK(x) BY TxTyped DEF Bind
<1>2. UNCHANGED <<live, history, res, taken, tries, faults>> BY DEF Bind, rows
<1>3. \/ /\ Goto(x, "rebind") /\ UNCHANGED ans
         /\ live[i] # None /\ live[i].key \in {NoKey, KeyOf[x.s]}
      \/ \E a \in Refusal : Over(x) /\ Returns(x.s, a)
  BY ConstantsTyped DEF Bind, Refusal
<1>4. CASE \E a \in Refusal : Over(x) /\ Returns(x.s, a)
  BY <1>2, <1>4, AnswerStep
<1>5. CASE /\ Goto(x, "rebind") /\ UNCHANGED ans
           /\ live[i] # None /\ live[i].key \in {NoKey, KeyOf[x.s]}
  <2>1. TypeOK' BY <1>2, <1>5, GotoTyped DEF IInv, TypeOK
  <2>2. z.s = x.s /\ z.pc = "rebind" BY <1>1 DEF Tx
  <2>3. TxOK(z) BY <1>1, <1>5, <2>2 DEF TxOK, Holding
  <2>4. \A y \in txs : ~Locking(y, i) BY DEF Bind
  <2>5. ASSUME NEW y \in txs, y # x PROVE Apart(z, y)
    <3>1. \A j \in Id : ~(Locking(z, j) /\ Locking(y, j)) /\ ~Inserting(z, j)
      BY <2>2, <2>4 DEF Inserting, Locking
    <3>2. \A k \in Key : HoldsKey(z, k) => HoldsKey(x, k)
      BY <1>1, <2>2 DEF HoldsKey
    <3>3. \A k \in Key : ~(HoldsKey(x, k) /\ HoldsKey(y, k))
      BY <2>5, TxTyped DEF Apart
    <3> QED BY <3>1, <3>2, <3>3 DEF Apart
  <2> QED BY <1>2, <1>5, <2>1, <2>3, <2>5, GotoStep
<1> QED BY <1>3, <1>4, <1>5

----------------------------------------------------------------------------
(* Commit, the end of a task and the end of a window.                      *)

\* What is in a row and in a reservation is typed.
LEMMA RowTyped ==
    ASSUME IInv, NEW x \in txs, x.pc \in {"commit", "rebind"}
    PROVE  /\ RowOf(x) \in Row /\ RowOf(x) # None /\ RowOf(x).key = KeyOf[x.s]
           /\ IdOf[x.s] \in Id /\ x.s \in Send
<1>1. TxOK(x) /\ IdOf[x.s] \in Id /\ x.s \in Send /\ KeyOf[x.s] \in Key \cup {NoKey}
  BY TxTyped
<1>2. CASE x.pc = "commit" BY <1>1, <1>2, ConstantsTyped DEF RowOf, Row
<1>3. CASE x.pc = "rebind"
  <2>1. live[IdOf[x.s]] \in Row BY <1>1, <1>3 DEF TxOK, IInv, TypeOK
  <2>2. RowOf(x) = [live[IdOf[x.s]] EXCEPT !.key = KeyOf[x.s]] BY <1>3 DEF RowOf
  <2> QED BY <1>1, <2>1, <2>2, ConstantsTyped DEF Row
<1> QED BY <1>2, <1>3

LEMMA CommitTyped ==
    ASSUME IInv, NEW x \in txs, Commit(x)
    PROVE  TypeOK'
<1>1. /\ x.pc \in {"commit", "rebind"} /\ IdOf[x.s] \in Id /\ x.s \in Send
      /\ RowOf(x) \in Row /\ (Keyed(x.s) => KeyOf[x.s] \in Key)
  BY RowTyped, TxTyped DEF Commit
<1>2. live' \in [Id -> Row \cup {None}] BY <1>1 DEF Commit, IInv, TypeOK
<1>3. res' \in [Key -> Reservation \cup {None}]
  <2>1. [owner |-> IdOf[x.s], by |-> x.s, st |-> "live"] \in Reservation
    BY <1>1 DEF Reservation
  <2> QED BY <1>1, <2>1 DEF Commit, IInv, TypeOK
<1>4. taken' \in [Key -> SUBSET Id] BY <1>1 DEF Commit, IInv, TypeOK
<1>5. ans' \in [Send -> Id \cup Refusal \cup {None}]
  BY <1>1, AnswerTyped DEF Commit, IInv, TypeOK
<1>6. txs' \subseteq Tx /\ UNCHANGED <<history, tries, faults>>
  BY DEF Commit, Over, IInv, TypeOK
<1> QED BY <1>2, <1>3, <1>4, <1>5, <1>6 DEF IInv, TypeOK

\* A commit binds its key, which was free, to its task.
LEMMA CommitKeys ==
    ASSUME IInv, NEW x \in txs, Commit(x)
    PROVE  KeyHasOneTask'
<1> DEFINE i == IdOf[x.s]
           k == KeyOf[x.s]
<1>1. /\ x.pc \in {"commit", "rebind"} /\ i \in Id /\ TxOK(x)
      /\ RowOf(x) # None /\ RowOf(x).key = k
      /\ live' = [live EXCEPT ![i] = RowOf(x)] /\ live \in [Id -> Row \cup {None}]
  BY RowTyped, TxTyped DEF Commit, IInv, TypeOK
<1>2. res \in [Key -> Reservation \cup {None}] /\ taken \in [Key -> SUBSET Id]
  BY DEF IInv, TypeOK
<1>3. ASSUME NEW j \in Key, j # k
      PROVE  Bound(j)' = Bound(j) /\ res'[j] = res[j] /\ taken'[j] = taken[j]
  <2>1. res'[j] = res[j] /\ taken'[j] = taken[j]
    BY <1>2, <1>3 DEF Commit
  <2>2. i \notin Bound(j)
    BY <1>1, <1>3, ConstantsTyped DEF Bound, TxOK
  <2>3. live'[i].key # j BY <1>1, <1>3
  <2>4. \A h \in Id : h # i => live'[h] = live[h] BY <1>1
  <2>5. Bound(j)' = Bound(j) BY <2>2, <2>3, <2>4 DEF Bound
  <2> QED BY <2>1, <2>5
<1>4. ASSUME k \in Key
      PROVE  /\ res'[k] = [owner |-> i, by |-> x.s, st |-> "live"]
             /\ taken'[k] = {i} /\ Bound(k)' = {i}
  <2>1. Keyed(x.s) /\ Free(res[k])
    BY <1>1, <1>4, ConstantsTyped DEF TxOK, Keyed, Holding
  <2>2. taken[k] = {} /\ Bound(k) = {}
    BY <1>4, <2>1 DEF Free, IInv, KeyHasOneTask
  <2>3. res'[k] = [owner |-> i, by |-> x.s, st |-> "live"] /\ taken'[k] = taken[k] \cup {i}
    BY <1>2, <1>4, <2>1 DEF Commit
  <2>4. \A h \in Id : h # i => live'[h] = live[h] BY <1>1
  <2>5. live'[i] # None /\ live'[i].key = k BY <1>1
  <2>6. Bound(k)' = {i} BY <1>1, <2>2, <2>4, <2>5 DEF Bound
  <2> QED BY <2>2, <2>3, <2>6
<1>5. ASSUME NEW j \in Key
      PROVE  /\ taken'[j] = IF res'[j] = None \/ res'[j].st = "lapsed" THEN {} ELSE {res'[j].owner}
             /\ Bound(j)' = IF res'[j] = None \/ res'[j].st # "live" THEN {} ELSE {res'[j].owner}
  <2>1. CASE j # k BY <1>3, <2>1 DEF IInv, KeyHasOneTask
  <2>2. CASE j = k
    <3> DEFINE r == [owner |-> i, by |-> x.s, st |-> "live"]
    <3>1. r \in Reservation /\ r # None /\ r.st = "live" /\ r.owner = i
      BY <1>1, TxTyped, ConstantsTyped DEF Reservation
    <3>2. res'[j] = r /\ taken'[j] = {i} /\ Bound(j)' = {i} BY <1>4, <2>2
    <3> HIDE DEF r
    <3> QED BY <3>1, <3>2
  <2> QED BY <2>1, <2>2
<1> QED BY <1>5 DEF KeyHasOneTask

\* The other open transactions lose nothing they rely on.
LEMMA CommitOthers ==
    ASSUME IInv, NEW x \in txs, Commit(x), NEW y \in txs, y # x
    PROVE  TxOK(y)'
<1> DEFINE i == IdOf[x.s]
           k == KeyOf[x.s]
<1>1. /\ x.pc \in {"commit", "rebind"} /\ i \in Id /\ TxOK(x) /\ TxOK(y)
      /\ live' = [live EXCEPT ![i] = RowOf(x)] /\ live \in [Id -> Row \cup {None}]
      /\ IdOf[y.s] \in Id /\ Apart(x, y)
  BY RowTyped, TxTyped DEF Commit, IInv, TypeOK
<1>2. Keyed(y.s) /\ y.pc \in Holding => res'[KeyOf[y.s]] = res[KeyOf[y.s]]
  <2> SUFFICES ASSUME Keyed(y.s), y.pc \in Holding
               PROVE  res'[KeyOf[y.s]] = res[KeyOf[y.s]]
    OBVIOUS
  <2>1. KeyOf[y.s] \in Key BY TxTyped
  <2>2. KeyOf[y.s] # k BY <1>1, <2>1 DEF Apart, HoldsKey, Holding
  <2> QED BY <2>1, <2>2 DEF Commit, IInv, TypeOK
<1>3. y.pc \in {"commit", "rebind"} => IdOf[y.s] # i
  BY <1>1 DEF Apart, Inserting, Locking, TxOK
<1>4. y.pc \in {"commit", "rebind"} => live'[IdOf[y.s]] = live[IdOf[y.s]]
  BY <1>1, <1>3
<1> QED BY <1>1, <1>2, <1>4 DEF TxOK, Free, Keyed

LEMMA CommitStep ==
    ASSUME IInv, NEW x \in txs, Commit(x)
    PROVE  IInv'
<1>1. txs' = txs \ {x} BY DEF Commit, Over
<1>2. \A y \in txs' : TxOK(y)' BY <1>1, CommitOthers
<1>3. Exclusive' BY <1>1 DEF IInv, Exclusive, HoldsKey, Inserting, Locking
<1> QED BY <1>2, <1>3, CommitTyped, CommitKeys DEF IInv

\* The end of a task closes the reservation that names it.
LEMMA EndStep ==
    ASSUME IInv, NEW i \in Id, End(i)
    PROVE  IInv'
<1>0. PICK k \in Key \cup {NoKey} : k = live[i].key
  BY DEF End, IInv, TypeOK, Row
<1>1. /\ live[i] \in Row /\ live' = [live EXCEPT ![i] = None] /\ k = live[i].key
      /\ live \in [Id -> Row \cup {None}] /\ res \in [Key -> Reservation \cup {None}]
      /\ UNCHANGED <<txs, tries, ans, taken, faults>>
  BY <1>0 DEF End, IInv, TypeOK
<1>2. ASSUME NEW j \in Key, j # k PROVE res'[j] = res[j] /\ Bound(j)' = Bound(j)
  <2>1. res'[j] = res[j] BY <1>1, <1>2 DEF End
  <2>2. i \notin Bound(j) /\ live'[i] = None BY <1>1, <1>2 DEF Bound
  <2>3. \A h \in Id : h # i => live'[h] = live[h] BY <1>1
  <2>4. Bound(j)' = Bound(j) BY <2>2, <2>3 DEF Bound
  <2> QED BY <2>1, <2>4
<1>3. ASSUME k \in Key
      PROVE  /\ res[k] \in Reservation /\ res[k].st = "live"
             /\ res'[k] = [res[k] EXCEPT !.st = "terminal"] /\ Bound(k)' = {}
             /\ taken[k] = {res[k].owner}
  <2>1. i \in Bound(k) BY <1>1 DEF Bound, End
  <2>2. res[k] # None /\ res[k].st = "live" /\ Bound(k) = {res[k].owner}
    BY <1>3, <2>1 DEF IInv, KeyHasOneTask
  <2>3. taken[k] = {res[k].owner} BY <1>3, <2>2 DEF IInv, KeyHasOneTask
  <2>4. k # NoKey /\ res[k].owner = i BY <1>3, <2>1, <2>2, ConstantsTyped
  <2>5. res'[k] = [res[k] EXCEPT !.st = "terminal"]
    BY <1>1, <1>3, <2>2, <2>4 DEF End
  <2>6. live'[i] = None /\ \A h \in Id : h # i => live'[h] = live[h] BY <1>1
  <2>7. Bound(k)' = {} BY <2>2, <2>4, <2>6 DEF Bound
  <2> QED BY <1>1, <1>3, <2>2, <2>3, <2>5, <2>7
<1>4. TypeOK'
  <2>1. res' \in [Key -> Reservation \cup {None}]
    BY <1>1 DEF End, Reservation
  <2>2. live' \in [Id -> Row \cup {None}] /\ history' \subseteq Id
    BY <1>1 DEF End, IInv, TypeOK
  <2> QED BY <1>1, <2>1, <2>2 DEF IInv, TypeOK
<1>5. KeyHasOneTask'
  <2>1. ASSUME NEW j \in Key
        PROVE  /\ taken'[j] = IF res'[j] = None \/ res'[j].st = "lapsed" THEN {} ELSE {res'[j].owner}
               /\ Bound(j)' = IF res'[j] = None \/ res'[j].st # "live" THEN {} ELSE {res'[j].owner}
    <3>1. CASE j # k BY <1>1, <1>2, <3>1 DEF IInv, KeyHasOneTask
    <3>2. CASE j = k
      <4>1. res'[j] \in Reservation /\ res'[j].st = "terminal" /\ res'[j].owner = res[j].owner
        BY <1>3, <2>1, <3>2 DEF Reservation
      <4>2. res'[j] # None /\ taken'[j] = {res[j].owner} /\ Bound(j)' = {}
        BY <1>1, <1>3, <2>1, <3>2, <4>1, ConstantsTyped
      <4> QED BY <4>1, <4>2
    <3> QED BY <3>1, <3>2
  <2> QED BY <2>1 DEF KeyHasOneTask
<1>6. ASSUME NEW x \in txs PROVE TxOK(x)'
  <2>1. TxOK(x) /\ IdOf[x.s] \in Id /\ (Keyed(x.s) => KeyOf[x.s] \in Key) BY TxTyped
  <2>2. Keyed(x.s) /\ x.pc \in Holding => res'[KeyOf[x.s]] = res[KeyOf[x.s]]
    BY <1>2, <1>3, <2>1, ConstantsTyped DEF TxOK, Free
  <2>3. x.pc \in {"commit", "rebind"} => IdOf[x.s] # i
    BY <2>1 DEF End, TxOK, Locking
  <2>4. x.pc \in {"commit", "rebind"} => live'[IdOf[x.s]] = live[IdOf[x.s]]
    BY <1>1, <2>1, <2>3
  <2> QED BY <2>1, <2>2, <2>4 DEF TxOK, Free, Keyed
<1>7. Exclusive' BY <1>1 DEF IInv, Exclusive, HoldsKey, Inserting, Locking
<1> QED BY <1>1, <1>4, <1>5, <1>6, <1>7 DEF IInv

LEMMA LapseStep ==
    ASSUME IInv, NEW k \in Key, Lapse(k)
    PROVE  IInv'
<1>1. /\ res[k] \in Reservation /\ res[k].st = "terminal"
      /\ res' = [res EXCEPT ![k] = [res[k] EXCEPT !.st = "lapsed"]]
      /\ taken' = [taken EXCEPT ![k] = {}]
      /\ UNCHANGED <<live, history, txs, tries, ans, faults>>
  BY DEF Lapse, rows, IInv, TypeOK
<1>2. [res[k] EXCEPT !.st = "lapsed"] \in Reservation BY <1>1 DEF Reservation
<1>3. TypeOK' BY <1>1, <1>2 DEF IInv, TypeOK
<1>4. res'[k].st = "lapsed" /\ \A j \in Key : j # k => res'[j] = res[j]
  BY <1>1 DEF IInv, TypeOK, Reservation
<1>5. taken'[k] = {} /\ \A j \in Key : j # k => taken'[j] = taken[j]
  BY <1>1 DEF IInv, TypeOK
<1>6. \A j \in Key : Bound(j)' = Bound(j) BY <1>1 DEF Bound
<1>7. Bound(k) = {} BY <1>1 DEF IInv, KeyHasOneTask
<1>8. KeyHasOneTask'
  <2>1. ASSUME NEW j \in Key
        PROVE  /\ taken'[j] = IF res'[j] = None \/ res'[j].st = "lapsed" THEN {} ELSE {res'[j].owner}
               /\ Bound(j)' = IF res'[j] = None \/ res'[j].st # "live" THEN {} ELSE {res'[j].owner}
    <3>1. CASE j # k BY <1>4, <1>5, <1>6, <3>1 DEF IInv, KeyHasOneTask
    <3>2. CASE j = k BY <1>4, <1>5, <1>6, <1>7, <3>2
    <3> QED BY <3>1, <3>2
  <2> QED BY <2>1 DEF KeyHasOneTask
<1>9. ASSUME NEW x \in txs PROVE TxOK(x)'
  <2>1. TxOK(x) /\ (Keyed(x.s) => KeyOf[x.s] \in Key) BY TxTyped
  <2>2. Keyed(x.s) /\ x.pc \in Holding => Free(res'[KeyOf[x.s]])
    BY <1>4, <2>1 DEF TxOK, Free
  <2> QED BY <1>1, <2>1, <2>2 DEF TxOK, Free, Keyed
<1>10. Exclusive' BY <1>1 DEF IInv, Exclusive, HoldsKey, Inserting, Locking
<1> QED BY <1>1, <1>3, <1>8, <1>9, <1>10 DEF IInv

----------------------------------------------------------------------------
LEMMA InvStep == IInv /\ [Next]_vars => IInv'
<1> SUFFICES ASSUME IInv, [Next]_vars PROVE IInv' OBVIOUS
<1>1. CASE UNCHANGED vars
  <2>1. TypeOK' BY <1>1 DEF vars, rows, IInv, TypeOK
  <2> QED BY <1>1, <2>1, Ends DEF vars, rows
<1>2. ASSUME NEW x \in txs, Attempt(x) PROVE IInv'
  BY <1>2, ClaimStep, ReserveStep, InsertStep, VerifyStep, BindStep, CommitStep DEF Attempt
<1> QED BY <1>1, <1>2, BeginStep, LoseStep, RollBackStep, EndStep, LapseStep DEF Next

\* Every variable keeps its type.
THEOREM TypeCorrect == Spec => []TypeOK
<1>1. IInv => TypeOK BY DEF IInv
<1> QED BY <1>1, InvInit, InvStep, PTL DEF Spec

\* In its window a key has one task, and its reservation is open exactly as
\* long as that task is live, however many sends race, lose their connection
\* and are repeated (horsies_key_reservation_claim, enqueue,
\* bind_key_after_task_id_conflict, close of the reservation).
THEOREM OneTaskPerKey == Spec => []KeyHasOneTask
<1>1. IInv => KeyHasOneTask BY DEF IInv
<1> QED BY <1>1, InvInit, InvStep, PTL DEF Spec

----------------------------------------------------------------------------
(* Answers.                                                                *)

\* A reservation names a task of an equal command while it is live, and one
\* in history afterwards.
ReservedAt(k) ==
    res[k] # None =>
        /\ res[k].st = "live" => Payload[live[res[k].owner].by] = Payload[res[k].by]
        /\ res[k].st # "live" => res[k].owner \in history

\* What a transaction has found out stays true.
FoundAt(x) ==
    /\ x.pc = "verify" => ~Keyed(x.s)
    /\ x.pc = "reserve" /\ x.seen # None => res[KeyOf[x.s]] # None
    /\ x.pc = "rebind" => Payload[live[IdOf[x.s]].by] = Payload[x.s]

AInv ==
    /\ IInv
    /\ \A k \in Key : ReservedAt(k)
    /\ \A x \in txs : FoundAt(x)

LEMMA AnswersInit == Init => AInv
<1> SUFFICES ASSUME Init PROVE AInv OBVIOUS
<1>1. \A k \in Key : ReservedAt(k) BY DEF Init, ReservedAt
<1>2. txs = {} BY DEF Init
<1> QED BY <1>1, <1>2, InvInit DEF AInv

\* One transaction begins, goes on or ends, and nothing is written.
LEMMA FindsOut ==
    ASSUME AInv, IInv', UNCHANGED <<live, history, res>>, NEW z, FoundAt(z),
           txs' \subseteq txs \cup {z}
    PROVE  AInv'
<1>1. \A k \in Key : ReservedAt(k)' BY DEF AInv, ReservedAt
<1>2. \A x \in txs' : FoundAt(x)' BY DEF AInv, FoundAt, Keyed
<1> QED BY <1>1, <1>2 DEF AInv

LEMMA OnlyEnd ==
    ASSUME AInv, IInv', UNCHANGED <<live, history, res>>, txs' \subseteq txs
    PROVE  AInv'
<1>1. \A k \in Key : ReservedAt(k)' BY DEF AInv, ReservedAt
<1>2. \A x \in txs' : FoundAt(x)' BY DEF AInv, FoundAt, Keyed
<1> QED BY <1>1, <1>2 DEF AInv

\* Where a statement without a write leaves its transaction.
LEMMA FoundGoto ==
    ASSUME AInv, IInv', UNCHANGED <<live, history, res>>, NEW x \in txs, NEW pc, Goto(x, pc),
           pc = "verify" => ~Keyed(x.s), pc # "reserve",
           pc = "rebind" => Payload[live[IdOf[x.s]].by] = Payload[x.s]
    PROVE  AInv'
<1> DEFINE z == [x EXCEPT !.pc = pc]
<1>1. x \in Tx BY TxTyped DEF AInv
<1>2. z.pc = pc /\ z.s = x.s BY <1>1 DEF Tx
<1>3. txs' \subseteq txs \cup {z} BY DEF Goto
<1> HIDE DEF z
<1>4. FoundAt(z) BY <1>2 DEF FoundAt
<1> QED BY <1>3, <1>4, FindsOut

LEMMA OpenFound ==
    ASSUME AInv, IInv', UNCHANGED <<live, history, res>>, NEW s \in Send, Open(s)
    PROVE  AInv'
<1> DEFINE z == [s |-> s, n |-> tries[s] + 1, seen |-> None,
                 pc |-> IF Keyed(s) THEN "claim" ELSE "insert"]
<1>1. txs' = txs \cup {z} BY DEF Open
<1>2. FoundAt(z) BY DEF FoundAt
<1> HIDE DEF z
<1> QED BY <1>1, <1>2, FindsOut

LEMMA ReadFound ==
    ASSUME AInv, IInv', NEW x \in txs, Claim(x) \/ Reserve(x) \/ Insert(x) \/ Verify(x) \/ Bind(x)
    PROVE  AInv'
<1>1. UNCHANGED <<live, history, res>>
  BY DEF Claim, Reserve, Insert, Verify, Bind, rows
<1>2. CASE Over(x) BY <1>1, <1>2, OnlyEnd DEF Over
<1>3. CASE Claim(x)
  <2> DEFINE r == res[KeyOf[x.s]]
             z == [x EXCEPT !.pc = "reserve", !.seen = r]
  <2>1. CASE ~Over(x)
    <3>1. txs' = (txs \ {x}) \cup {z} BY <1>3, <2>1 DEF Claim
    <3>2. x \in Tx BY TxTyped DEF AInv
    <3>3. z.pc = "reserve" /\ z.seen = r /\ z.s = x.s BY <3>2 DEF Tx
    <3>4. FoundAt(z) BY <3>3 DEF FoundAt
    <3> HIDE DEF z
    <3> QED BY <1>1, <3>1, <3>4, FindsOut
  <2> QED BY <1>2, <2>1
<1>4. CASE Reserve(x)
  <2>1. Over(x) \/ Goto(x, "insert") BY <1>4 DEF Reserve
  <2> QED BY <1>1, <1>2, <2>1, FoundGoto
<1>5. CASE Insert(x)
  <2>1. PICK pc : Goto(x, pc) /\ pc \in {"commit", "bind", "verify"} /\ (pc = "verify" => ~Keyed(x.s))
    BY <1>5 DEF Insert
  <2> QED BY <1>1, <2>1, FoundGoto
<1>6. CASE Verify(x) BY <1>2, <1>6 DEF Verify
<1>7. CASE Bind(x)
  <2>1. \/ Over(x)
        \/ Goto(x, "rebind") /\ Payload[x.s] = Payload[live[IdOf[x.s]].by]
    BY <1>7, ConstantsTyped DEF Bind, Matches, Refusal
  <2> QED BY <1>1, <1>2, <2>1, FoundGoto
<1> QED BY <1>3, <1>4, <1>5, <1>6, <1>7

\* The row and the reservation of a commit are of the same command.
LEMMA CommitFound ==
    ASSUME AInv, IInv', NEW x \in txs, Commit(x)
    PROVE  AInv' /\ Payload[RowOf(x).by] = Payload[x.s]
<1>0. IInv BY DEF AInv
<1> DEFINE i == IdOf[x.s]
           k == KeyOf[x.s]
<1>1. /\ x.pc \in {"commit", "rebind"} /\ i \in Id /\ TxOK(x) /\ FoundAt(x)
      /\ live' = [live EXCEPT ![i] = RowOf(x)] /\ live \in [Id -> Row \cup {None}]
      /\ res \in [Key -> Reservation \cup {None}] /\ history' = history
      /\ x.s \in Send /\ txs' = txs \ {x}
  BY <1>0, RowTyped, TxTyped DEF Commit, IInv, TypeOK, AInv, Over
<1>2. /\ Payload[RowOf(x).by] = Payload[x.s]
      /\ live[i] # None => RowOf(x).by = live[i].by
  <2>1. CASE x.pc = "commit" BY <1>1, <2>1 DEF RowOf, TxOK
  <2>2. CASE x.pc = "rebind"
    <3>1. live[i] \in Row BY <1>1, <2>2 DEF TxOK
    <3>2. RowOf(x) = [live[i] EXCEPT !.key = k] BY <2>2 DEF RowOf
    <3>3. RowOf(x).by = live[i].by BY <3>1, <3>2 DEF Row
    <3> QED BY <1>1, <2>2, <3>3 DEF FoundAt
  <2> QED BY <1>1, <2>1, <2>2
<1>3. \A h \in Id : live[h] # None => live'[h].by = live[h].by
  BY <1>1, <1>2
<1>4. ASSUME NEW j \in Key PROVE ReservedAt(j)'
  <2>1. CASE Keyed(x.s) /\ j = k
    <3> DEFINE r == [owner |-> i, by |-> x.s, st |-> "live"]
    <3>1. r.owner = i /\ r.by = x.s /\ r.st = "live" OBVIOUS
    <3>2. res'[j] = r BY <1>1, <2>1 DEF Commit
    <3>3. live'[i].by = RowOf(x).by BY <1>1
    <3> HIDE DEF r
    <3> QED BY <1>2, <3>1, <3>2, <3>3 DEF ReservedAt
  <2>2. CASE ~(Keyed(x.s) /\ j = k)
    <3>1. res'[j] = res[j] BY <1>1, <2>2 DEF Commit
    <3>2. ReservedAt(j) BY DEF AInv
    <3>3. res[j] # None /\ res[j].st = "live" => res[j].owner \in Id /\ live[res[j].owner] # None
      <4>1. res[j] # None /\ res[j].st = "live" => Bound(j) = {res[j].owner}
        BY <1>0 DEF IInv, KeyHasOneTask
      <4> QED BY <4>1 DEF Bound
    <3> QED BY <1>1, <1>3, <3>1, <3>2, <3>3 DEF ReservedAt
  <2> QED BY <2>1, <2>2
<1>5. ASSUME NEW y \in txs' PROVE FoundAt(y)'
  <2>1. y \in txs /\ FoundAt(y) /\ TxOK(y) /\ IdOf[y.s] \in Id BY <1>0, <1>1, TxTyped DEF AInv
  <2>2. y.pc = "rebind" => live'[IdOf[y.s]].by = live[IdOf[y.s]].by
    BY <1>3, <2>1 DEF TxOK
  <2>3. y.pc = "reserve" /\ y.seen # None => res'[KeyOf[y.s]] # None
    <3> SUFFICES ASSUME y.pc = "reserve", y.seen # None PROVE res'[KeyOf[y.s]] # None
      OBVIOUS
    <3>1. KeyOf[y.s] \in Key BY <1>0, <2>1, TxTyped DEF TxOK
    <3>2. res[KeyOf[y.s]] # None BY <2>1 DEF FoundAt
    <3>3. res'[KeyOf[y.s]] = res[KeyOf[y.s]]
          \/ res'[KeyOf[y.s]] = [owner |-> i, by |-> x.s, st |-> "live"]
      BY <1>1, <3>1 DEF Commit
    <3>4. [owner |-> i, by |-> x.s, st |-> "live"] \in Reservation
      BY <1>1 DEF Reservation
    <3> QED BY <3>2, <3>3, <3>4, ConstantsTyped
  <2> QED BY <2>1, <2>2, <2>3 DEF FoundAt, Keyed
<1> QED BY <1>2, <1>4, <1>5 DEF AInv

LEMMA EndFound ==
    ASSUME AInv, IInv', NEW i \in Id, End(i)
    PROVE  AInv'
<1>0. IInv BY DEF AInv
<1>1. PICK k \in Key \cup {NoKey} : k = live[i].key
  BY <1>0 DEF End, IInv, TypeOK, Row
<1>2. /\ live[i] # None /\ live' = [live EXCEPT ![i] = None] /\ history' = history \cup {i}
      /\ live \in [Id -> Row \cup {None}] /\ res \in [Key -> Reservation \cup {None}]
      /\ txs' = txs /\ \A y \in txs : ~Locking(y, i)
  BY <1>0 DEF End, IInv, TypeOK
<1>3. \A j \in Key : res[j] # None /\ res[j].st = "live" =>
         /\ res[j].owner \in Id /\ live[res[j].owner] # None /\ live[res[j].owner].key = j
  <2>1. ASSUME NEW j \in Key, res[j] # None, res[j].st = "live"
        PROVE  res[j].owner \in Bound(j)
    BY <1>0, <2>1 DEF IInv, KeyHasOneTask
  <2> QED BY <2>1 DEF Bound
<1>4. \A j \in Key : (res'[j] = None <=> res[j] = None) /\ (j # k => res'[j] = res[j])
  <2>1. k \in Key /\ res[k] # None => [res[k] EXCEPT !.st = "terminal"] \in Reservation
    BY <1>2 DEF Reservation
  <2>2. \/ res' = res
        \/ k \in Key /\ res[k] # None /\ res' = [res EXCEPT ![k] = [res[k] EXCEPT !.st = "terminal"]]
    BY <1>1, ConstantsTyped DEF End
  <2> QED BY <1>2, <2>1, <2>2, ConstantsTyped
<1>5. ASSUME NEW j \in Key PROVE ReservedAt(j)'
  <2>1. ReservedAt(j) BY DEF AInv
  <2>2. CASE res'[j] = res[j]
    <3>1. CASE res[j] # None /\ res[j].st = "live"
      <4>1. res[j].owner # i
        <5> SUFFICES ASSUME res[j].owner = i PROVE FALSE OBVIOUS
        <5>1. k = j BY <1>1, <1>3, <3>1
        <5>2. res' = [res EXCEPT ![k].st = "terminal"]
          BY <1>1, <3>1, <5>1, ConstantsTyped DEF End
        <5>3. res'[j].st = "terminal" BY <1>2, <3>1, <5>1, <5>2 DEF Reservation
        <5> QED BY <2>2, <3>1, <5>3
      <4>2. live'[res[j].owner] = live[res[j].owner] BY <1>2, <1>3, <3>1, <4>1
      <4> QED BY <2>1, <2>2, <3>1, <4>2 DEF ReservedAt
    <3>2. CASE ~(res[j] # None /\ res[j].st = "live")
      BY <1>2, <2>1, <2>2, <3>2 DEF ReservedAt
    <3> QED BY <3>1, <3>2
  <2>3. CASE res'[j] # res[j]
    <3>1. /\ j = k /\ res[k] # None /\ res[k].owner = i
          /\ res' = [res EXCEPT ![k] = [res[k] EXCEPT !.st = "terminal"]]
      BY <1>1, <1>4, <2>3 DEF End
    <3>2. res'[j].st = "terminal" /\ res'[j].owner = i
      BY <1>2, <3>1 DEF Reservation
    <3> QED BY <1>2, <3>2 DEF ReservedAt
  <2> QED BY <2>2, <2>3
<1>6. ASSUME NEW y \in txs PROVE FoundAt(y)'
  <2>1. FoundAt(y) /\ TxOK(y) /\ IdOf[y.s] \in Id /\ (Keyed(y.s) => KeyOf[y.s] \in Key)
    BY <1>0, TxTyped DEF AInv
  <2>2. y.pc = "rebind" => live'[IdOf[y.s]] = live[IdOf[y.s]]
    BY <1>2, <2>1 DEF Locking
  <2>3. y.pc = "reserve" /\ y.seen # None => res'[KeyOf[y.s]] # None
    BY <1>4, <2>1 DEF FoundAt, TxOK
  <2> QED BY <2>1, <2>2, <2>3 DEF FoundAt, Keyed
<1> QED BY <1>2, <1>5, <1>6 DEF AInv

LEMMA LapseFound ==
    ASSUME AInv, IInv', NEW k \in Key, Lapse(k)
    PROVE  AInv'
<1>0. IInv BY DEF AInv
<1>1. /\ res[k] \in Reservation /\ res[k].st = "terminal"
      /\ res \in [Key -> Reservation \cup {None}]
      /\ res' = [res EXCEPT ![k] = [res[k] EXCEPT !.st = "lapsed"]]
      /\ UNCHANGED <<live, history, txs>>
  BY <1>0 DEF Lapse, rows, IInv, TypeOK
<1> DEFINE r == [res[k] EXCEPT !.st = "lapsed"]
<1>2. r \in Reservation /\ r.st = "lapsed" /\ r.owner = res[k].owner BY <1>1 DEF Reservation
<1>3. res'[k] = r /\ \A j \in Key : j # k => res'[j] = res[j] BY <1>1
<1> HIDE DEF r
<1>4. ASSUME NEW j \in Key PROVE ReservedAt(j)'
  <2>1. CASE j = k
    <3>1. res[k] # None /\ ReservedAt(k) BY <1>1, ConstantsTyped DEF AInv
    <3> QED BY <1>1, <1>2, <1>3, <2>1, <3>1 DEF ReservedAt
  <2>2. CASE j # k BY <1>1, <1>3, <2>2 DEF AInv, ReservedAt
  <2> QED BY <2>1, <2>2
<1>5. ASSUME NEW y \in txs PROVE FoundAt(y)'
  <2>1. FoundAt(y) /\ TxOK(y) /\ (Keyed(y.s) => KeyOf[y.s] \in Key)
    BY <1>0, TxTyped DEF AInv
  <2>2. y.pc = "reserve" /\ y.seen # None => res'[KeyOf[y.s]] # None
    BY <1>2, <1>3, <2>1, ConstantsTyped DEF FoundAt, TxOK
  <2> QED BY <1>1, <2>1, <2>2 DEF FoundAt, Keyed
<1> QED BY <1>1, <1>4, <1>5 DEF AInv

LEMMA AnswersInvStep == AInv /\ [Next]_vars => AInv'
<1> SUFFICES ASSUME AInv, [Next]_vars PROVE AInv' OBVIOUS
<1>1. IInv' BY InvStep DEF AInv
<1>2. CASE UNCHANGED vars BY <1>1, <1>2, OnlyEnd DEF vars, rows
<1>3. ASSUME NEW x \in txs, Attempt(x) PROVE AInv'
  BY <1>1, <1>3, ReadFound, CommitFound DEF Attempt
<1>4. ASSUME NEW s \in Send, Begin(s) PROVE AInv'
  <2>1. Open(s) /\ UNCHANGED <<live, history, res>> BY <1>4 DEF Begin, rows
  <2> QED BY <1>1, <2>1, OpenFound
<1>5. ASSUME NEW x \in txs, LoseConnection(x) PROVE AInv'
  <2>1. UNCHANGED <<live, history, res>> /\ (Open(x.s) \/ UNCHANGED txs)
    BY <1>5 DEF LoseConnection, rows
  <2>2. x.s \in Send BY TxTyped DEF AInv
  <2> QED BY <1>1, <2>1, <2>2, OpenFound, OnlyEnd
<1>6. ASSUME NEW x \in txs, RollBack(x) PROVE AInv'
  <2>1. UNCHANGED <<live, history, res>> /\ txs' \subseteq txs
    BY <1>6 DEF RollBack, rows, Over
  <2> QED BY <1>1, <2>1, OnlyEnd
<1> QED BY <1>1, <1>2, <1>3, <1>4, <1>5, <1>6, EndFound, LapseFound DEF Next

\* Who answers, and what.
LEMMA AnswerOnly ==
    ASSUME IInv, NEW x \in txs, NEW a, Returns(x.s, a)
    PROVE  ans'[x.s] = a /\ \A s \in Send : s # x.s => ans'[s] = ans[s]
<1>1. x.s \in Send /\ ans \in [Send -> Id \cup Refusal \cup {None}]
  BY TxTyped DEF IInv, TypeOK
<1> QED BY <1>1 DEF Returns

Agrees == \A s \in Send : ans'[s] # ans[s] => AnswerAgrees(s)

\* A refusal that is neither a conflict nor a violation says nothing.
LEMMA PlainRefusal ==
    ASSUME IInv, NEW x \in txs, NEW a \in Refusal \ {"conflict", "violation"}, Returns(x.s, a)
    PROVE  Agrees
<1>1. ans'[x.s] = a /\ \A s \in Send : s # x.s => ans'[s] = ans[s] BY AnswerOnly
<1>2. a \notin Id BY ConstantsTyped
<1> QED BY <1>1, <1>2 DEF Agrees, AnswerAgrees

LEMMA ClaimAgrees == ASSUME AInv, NEW x \in txs, Claim(x) PROVE Agrees
<1>0. IInv BY DEF AInv
<1>1. PICK k \in Key : k = KeyOf[x.s] BY <1>0, TxTyped DEF Claim, TxOK
<1>2. UNCHANGED <<live, history, res, taken>> BY DEF Claim, rows
<1>3. CASE ~(res[k] # None /\ res[k].st # "lapsed") BY <1>1, <1>3 DEF Claim, Agrees
<1>4. CASE res[k] # None /\ res[k].st # "lapsed"
  <2>1. Returns(x.s, IF Matches(x.s, res[k].by) THEN res[k].owner ELSE "conflict")
    BY <1>1, <1>4 DEF Claim
  <2>2. CASE Matches(x.s, res[k].by)
    <3>1. ans'[x.s] = res[k].owner /\ \A s \in Send : s # x.s => ans'[s] = ans[s]
      BY <1>0, <2>1, <2>2, AnswerOnly
    <3>2. res[k] \in Reservation BY <1>0, <1>4 DEF IInv, TypeOK
    <3>3. res[k].owner \in Id /\ res[k].st \in {"live", "terminal"}
      BY <1>4, <3>2 DEF Reservation
    <3>4. taken[k] = {res[k].owner} /\ (res[k].st = "live" => Bound(k) = {res[k].owner})
      BY <1>0, <1>4 DEF IInv, KeyHasOneTask
    <3>5. res[k].st = "live" => live[res[k].owner] # None BY <3>4 DEF Bound
    <3>6. ReservedAt(k) /\ Payload[x.s] = Payload[res[k].by] BY <2>2 DEF AInv, Matches
    <3>7. IdAgrees(x.s, res[k].owner)
      BY <1>1, <1>2, <1>4, <3>3, <3>4, <3>5, <3>6 DEF IdAgrees, ReservedAt
    <3>8. res[k].owner \notin Refusal BY <3>3, ConstantsTyped
    <3>9. AnswerAgrees(x.s) BY <3>1, <3>7, <3>8 DEF AnswerAgrees, Refusal
    <3> QED BY <3>1, <3>9 DEF Agrees
  <2>3. CASE ~Matches(x.s, res[k].by)
    <3>1. ans'[x.s] = "conflict" /\ \A s \in Send : s # x.s => ans'[s] = ans[s]
      BY <1>0, <2>1, <2>3, AnswerOnly
    <3>2. "conflict" \notin Id BY ConstantsTyped DEF Refusal
    <3>3. AnswerAgrees(x.s) BY <1>1, <2>3, <3>1, <3>2 DEF AnswerAgrees, Matches
    <3> QED BY <3>1, <3>3 DEF Agrees
  <2> QED BY <2>2, <2>3
<1> QED BY <1>3, <1>4

LEMMA ReserveAgrees == ASSUME AInv, NEW x \in txs, Reserve(x) PROVE Agrees
<1>0. IInv BY DEF AInv
<1>1. PICK k \in Key : k = KeyOf[x.s] BY <1>0, TxTyped DEF Reserve, TxOK
<1>2. CASE res[k] = x.seen BY <1>1, <1>2 DEF Reserve, Agrees
<1>3. CASE res[k] # x.seen
  <2>1. x.pc = "reserve" /\ Returns(x.s, "violation") BY <1>1, <1>3 DEF Reserve
  <2>2. ans'[x.s] = "violation" /\ \A s \in Send : s # x.s => ans'[s] = ans[s]
    BY <1>0, <2>1, AnswerOnly
  <2>3. "violation" \notin Id BY ConstantsTyped DEF Refusal
  <2>4. FoundAt(x) /\ ReservedAt(k) BY DEF AInv
  <2>5. res[k] # None BY <1>1, <1>3, <2>1, <2>4 DEF FoundAt
  <2>6. res[k].st = "lapsed" \/ taken[k] = {res[k].owner}
    BY <1>0, <2>5 DEF IInv, KeyHasOneTask
  <2>7. taken[k] \cup history # {} BY <2>4, <2>5, <2>6 DEF ReservedAt
  <2>8. AnswerAgrees(x.s) BY <1>1, <2>2, <2>3, <2>7 DEF AnswerAgrees
  <2> QED BY <2>2, <2>8 DEF Agrees
<1> QED BY <1>2, <1>3

LEMMA VerifyAgrees == ASSUME AInv, NEW x \in txs, Verify(x) PROVE Agrees
<1>0. IInv BY DEF AInv
<1> DEFINE i == IdOf[x.s]
<1>1. i \in Id /\ FoundAt(x) /\ x.pc = "verify" /\ UNCHANGED <<live, history, res, taken>>
  BY <1>0, TxTyped DEF AInv, Verify, rows
<1>2. CASE live[i] # None /\ Matches(x.s, live[i].by)
  <2>1. Returns(x.s, i) BY <1>2 DEF Verify
  <2>2. ans'[x.s] = i /\ \A s \in Send : s # x.s => ans'[s] = ans[s]
    BY <1>0, <2>1, AnswerOnly
  <2>3. IdAgrees(x.s, i) BY <1>1, <1>2 DEF IdAgrees, Matches, FoundAt
  <2>4. i \notin Refusal BY <1>1, ConstantsTyped
  <2>5. AnswerAgrees(x.s) BY <2>2, <2>3, <2>4 DEF AnswerAgrees, Refusal
  <2> QED BY <2>2, <2>5 DEF Agrees
<1>3. CASE ~(live[i] # None /\ Matches(x.s, live[i].by))
  <2>1. \E a \in Refusal \ {"conflict", "violation"} : Returns(x.s, a)
    BY <1>3 DEF Verify, Refusal
  <2> QED BY <1>0, <2>1, PlainRefusal
<1> QED BY <1>2, <1>3

LEMMA BindAgrees == ASSUME AInv, NEW x \in txs, Bind(x) PROVE Agrees
<1>0. IInv BY DEF AInv
<1>1. \/ UNCHANGED ans
      \/ \E a \in Refusal \ {"conflict", "violation"} : Returns(x.s, a)
      \/ Returns(x.s, "conflict") /\ live[IdOf[x.s]].key # KeyOf[x.s]
  BY ConstantsTyped DEF Bind, Refusal
<1>2. CASE UNCHANGED ans BY <1>2 DEF Agrees
<1>3. CASE Returns(x.s, "conflict") /\ live[IdOf[x.s]].key # KeyOf[x.s]
  <2>1. ans'[x.s] = "conflict" /\ \A s \in Send : s # x.s => ans'[s] = ans[s]
    BY <1>0, <1>3, AnswerOnly
  <2>2. "conflict" \notin Id BY ConstantsTyped DEF Refusal
  <2>3. AnswerAgrees(x.s) BY <1>3, <2>1, <2>2 DEF AnswerAgrees
  <2> QED BY <2>1, <2>3 DEF Agrees
<1> QED BY <1>0, <1>1, <1>2, <1>3, PlainRefusal

LEMMA CommitAgrees == ASSUME AInv, NEW x \in txs, Commit(x) PROVE Agrees
<1>0. IInv /\ IInv' BY CommitStep DEF AInv
<1> DEFINE i == IdOf[x.s]
<1>1. CASE ~Heard(x) BY <1>1 DEF Commit, Agrees
<1>2. CASE Heard(x)
  <2>1. Returns(x.s, i) BY <1>2 DEF Commit
  <2>2. ans'[x.s] = i /\ \A s \in Send : s # x.s => ans'[s] = ans[s]
    BY <1>0, <2>1, AnswerOnly
  <2>3. i \in Id /\ i \notin Refusal /\ x.s \in Send BY <1>0, TxTyped, ConstantsTyped
  <2>4. live'[i] = RowOf(x) /\ RowOf(x) # None
    BY <1>0, <2>3, RowTyped DEF Commit, IInv, TypeOK
  <2>5. Payload[RowOf(x).by] = Payload[x.s] BY <1>0, CommitFound
  <2>6. Keyed(x.s) => taken'[KeyOf[x.s]] = {i} /\ Payload[res'[KeyOf[x.s]].by] = Payload[x.s]
    <3> SUFFICES ASSUME Keyed(x.s)
                 PROVE  taken'[KeyOf[x.s]] = {i} /\ Payload[res'[KeyOf[x.s]].by] = Payload[x.s]
      OBVIOUS
    <3>1. PICK k \in Key : k = KeyOf[x.s] BY <1>0, TxTyped
    <3> DEFINE r == [owner |-> i, by |-> x.s, st |-> "live"]
    <3>2. r \in Reservation BY <2>3 DEF Reservation
    <3>3. r # None /\ r.st = "live" /\ r.owner = i /\ r.by = x.s BY <3>2, ConstantsTyped
    <3>4. res'[k] = r BY <1>0, <3>1 DEF Commit, IInv, TypeOK
    <3> HIDE DEF r
    <3>5. taken'[k] = {i} BY <1>0, <3>3, <3>4 DEF IInv, KeyHasOneTask
    <3> QED BY <3>1, <3>3, <3>4, <3>5
  <2>7. IdAgrees(x.s, i) BY <2>4, <2>5, <2>6 DEF IdAgrees
  <2>8. AnswerAgrees(x.s) BY <2>2, <2>3, <2>7 DEF AnswerAgrees, Refusal
  <2> QED BY <2>2, <2>8 DEF Agrees
<1> QED BY <1>1, <1>2

LEMMA StepAgrees == AInv /\ [Next]_vars => Agrees \/ UNCHANGED vars
<1> SUFFICES ASSUME AInv, Next PROVE Agrees OBVIOUS
<1>0. IInv BY DEF AInv
<1>1. ASSUME UNCHANGED ans PROVE Agrees BY <1>1 DEF Agrees
<1>2. ASSUME NEW x \in txs, Attempt(x) PROVE Agrees
  <2>1. CASE Insert(x) BY <1>1, <2>1 DEF Insert
  <2> QED BY <1>2, <2>1, ClaimAgrees, ReserveAgrees, VerifyAgrees, BindAgrees, CommitAgrees
          DEF Attempt
<1>3. ASSUME NEW x \in txs, LoseConnection(x) PROVE Agrees
  <2>1. UNCHANGED ans \/ Returns(x.s, "failed") BY <1>3 DEF LoseConnection
  <2> QED BY <1>0, <1>1, <2>1, PlainRefusal DEF Refusal
<1>4. ASSUME \/ \E s \in Send : Begin(s)
             \/ \E x \in txs : RollBack(x)
             \/ \E i \in Id : End(i)
             \/ \E k \in Key : Lapse(k)
      PROVE  Agrees
  <2>1. UNCHANGED ans BY <1>4 DEF Begin, RollBack, End, Lapse
  <2> QED BY <1>1, <2>1
<1> QED BY <1>2, <1>3, <1>4 DEF Next

\* What a send returns is true when it returns it: an id names a task of an
\* equal command and the one of its key, a conflict is with a different
\* command, a violation comes of a key that was taken.
THEOREM AnswersTrue == Spec => AnswersAgree
<1>1. AInv /\ [Next]_vars => [\A s \in Send : ans'[s] # ans[s] => AnswerAgrees(s)]_vars
  BY StepAgrees DEF Agrees
<1> QED BY <1>1, AnswersInit, AnswersInvStep, PTL DEF Spec, AnswersAgree

=============================================================================
