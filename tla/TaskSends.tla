----------------------------- MODULE TaskSends -----------------------------
(***************************************************************************)
(* Sends of tasks, with and without an idempotency key (task.rs, enqueue   *)
(* in broker/postgres.rs, horsies_key_reservation_claim), beside the end   *)
(* of tasks, which moves them to history and closes their reservation, and *)
(* the window of a closed reservation that runs out.                       *)
(*                                                                         *)
(* An attempt of a send is one transaction.  Its uncommitted reservation   *)
(* and row make others wait on the unique indexes.  When the connection is *)
(* lost the sender tries again, while the server may still hold the old    *)
(* transaction, and commits it if the commit was on its way.               *)
(***************************************************************************)
EXTENDS Naturals, FiniteSets

CONSTANTS
    Send, Id, Key, NoKey,
    IdOf,         \* the task id a send minted or was given
    KeyOf,        \* its scoped key, or NoKey
    Payload,      \* what fingerprint and enqueue_sha cover
    MaxAttempts,  \* 1 + SEND_RETRY_COUNT, retry_send included
    MaxFaults,    \* bound on lost connections
    None

Refusal == {"conflict", "mismatch", "unverifiable", "violation", "failed"}
Row == [by : Send, key : Key \cup {NoKey}]
Reservation == [owner : Id, by : Send, st : {"live", "terminal", "lapsed"}]

ASSUME SendsAssumption ==
    /\ IdOf \in [Send -> Id]
    /\ NoKey \notin Key /\ KeyOf \in [Send -> Key \cup {NoKey}]
    /\ DOMAIN Payload = Send
    /\ MaxAttempts \in Nat \ {0} /\ MaxFaults \in Nat
    /\ None \notin Id \cup Refusal \cup Row \cup Reservation
    /\ Id \cap Refusal = {}

VARIABLES
    live,      \* horsies_tasks
    history,   \* the ids in history
    res,       \* horsies_key_reservations
    txs,       \* open transactions
    tries,     \* attempts of each send
    ans,       \* what each send returned
    taken,     \* ghost: the ids accepted under a key since its window ran out
    faults

vars == <<live, history, res, txs, tries, ans, taken, faults>>
rows == <<live, history>>

Tx == [s : Send, n : 1..MaxAttempts, seen : Reservation \cup {None},
       pc : {"claim", "reserve", "insert", "bind", "verify", "commit", "rebind"}]

TypeOK ==
    /\ live \in [Id -> Row \cup {None}]
    /\ history \subseteq Id
    /\ res \in [Key -> Reservation \cup {None}]
    /\ txs \subseteq Tx
    /\ tries \in [Send -> 0..MaxAttempts]
    /\ ans \in [Send -> Id \cup Refusal \cup {None}]
    /\ taken \in [Key -> SUBSET Id]
    /\ faults \in 0..MaxFaults

Init ==
    /\ live = [i \in Id |-> None]
    /\ history = {}
    /\ res = [k \in Key |-> None]
    /\ txs = {}
    /\ tries = [s \in Send |-> 0]
    /\ ans = [s \in Send |-> None]
    /\ taken = [k \in Key |-> {}]
    /\ faults = 0

----------------------------------------------------------------------------
(* Transactions.                                                           *)

Keyed(s) == KeyOf[s] # NoKey
\* The sender still waits for this attempt.
Heard(x) == x.n = tries[x.s] /\ ans[x.s] = None
Goto(x, pc) == txs' = (txs \ {x}) \cup {[x EXCEPT !.pc = pc]}
Over(x) == txs' = txs \ {x}
Returns(s, a) == ans' = [ans EXCEPT ![s] = a]

HoldsKey(x, k) ==
    KeyOf[x.s] = k /\ x.pc \in {"insert", "bind", "commit", "rebind"}
Inserting(x, i) == IdOf[x.s] = i /\ x.pc = "commit"
Locking(x, i) == IdOf[x.s] = i /\ x.pc = "rebind"

\* Slip: a commit that was lost is retried without limit.
ResendsAlways(s) == TRUE
Resends(s) == tries[s] < MaxAttempts

\* A new transaction of the send.
Open(s) ==
    /\ tries' = [tries EXCEPT ![s] = @ + 1]
    /\ txs' = txs \cup {[s |-> s, n |-> tries[s] + 1, seen |-> None,
                         pc |-> IF Keyed(s) THEN "claim" ELSE "insert"]}

\* The first attempt, or the next after a lost connection.
Begin(s) ==
    /\ ans[s] = None /\ \A x \in txs : x.s = s => ~Heard(x)
    /\ tries[s] = 0 \/ Resends(s)
    /\ Open(s)
    /\ UNCHANGED <<rows, res, ans, taken, faults>>

\* Slip: a replay is answered without comparing the fingerprints.
MatchesAny(s, t) == TRUE
Matches(s, t) == Payload[s] = Payload[t]

\* Read the reservation: a live or unexpired one decides at once, and the
\* transaction is rolled back.
Claim(x) ==
    LET r == res[KeyOf[x.s]] IN
    /\ Heard(x) /\ x.pc = "claim"
    /\ IF r # None /\ r.st # "lapsed"
       THEN /\ Returns(x.s, IF Matches(x.s, r.by) THEN r.owner ELSE "conflict")
            /\ Over(x)
       ELSE /\ txs' = (txs \ {x}) \cup {[x EXCEPT !.pc = "reserve", !.seen = r]}
            /\ UNCHANGED ans
    /\ UNCHANGED <<rows, res, tries, taken, faults>>

\* Delete the expired one and insert: waits for an uncommitted insert of the
\* same key, and violates the index when another one was committed since.
Reserve(x) ==
    LET k == KeyOf[x.s] IN
    /\ Heard(x) /\ x.pc = "reserve"
    /\ \A y \in txs : ~HoldsKey(y, k)
    /\ IF res[k] = x.seen
       THEN Goto(x, "insert") /\ UNCHANGED ans
       ELSE Over(x) /\ Returns(x.s, "violation")
    /\ UNCHANGED <<rows, res, tries, taken, faults>>

\* ON CONFLICT (id) DO NOTHING: waits for an uncommitted row of the same id.
\* A keyed send keeps its transaction, another rolls back before it compares.
Insert(x) ==
    LET i == IdOf[x.s] IN
    /\ Heard(x) /\ x.pc = "insert"
    /\ \A y \in txs : ~Inserting(y, i)
    /\ Goto(x, IF live[i] = None THEN "commit"
               ELSE IF Keyed(x.s) THEN "bind" ELSE "verify")
    /\ UNCHANGED <<rows, res, tries, ans, taken, faults>>

\* Without a lock: the row may have left meanwhile.
Verify(x) ==
    LET r == live[IdOf[x.s]] IN
    /\ Heard(x) /\ x.pc = "verify"
    /\ Returns(x.s, IF r = None THEN "unverifiable"
                    ELSE IF Matches(x.s, r.by) THEN IdOf[x.s] ELSE "mismatch")
    /\ Over(x)
    /\ UNCHANGED <<rows, res, tries, taken, faults>>

\* bind_key_after_task_id_conflict, up to its commit.
Bind(x) ==
    LET r == live[IdOf[x.s]]
        refused == IF r = None THEN "unverifiable"
                   ELSE IF ~Matches(x.s, r.by) THEN "mismatch"
                   ELSE IF r.key \notin {NoKey, KeyOf[x.s]} THEN "conflict"
                   ELSE None
    IN  /\ Heard(x) /\ x.pc = "bind"
        /\ \A y \in txs : ~Locking(y, IdOf[x.s])
        /\ IF refused = None THEN Goto(x, "rebind") /\ UNCHANGED ans
                             ELSE Over(x) /\ Returns(x.s, refused)
        /\ UNCHANGED <<rows, res, tries, taken, faults>>

\* Slip: the row that exists does not get the digest of the reserved key.
RowUnbound(x) == IF x.pc = "commit" THEN [by |-> x.s, key |-> KeyOf[x.s]]
                 ELSE live[IdOf[x.s]]
\* The row as the transaction leaves it.
RowOf(x) == IF x.pc = "commit" THEN [by |-> x.s, key |-> KeyOf[x.s]]
            ELSE [live[IdOf[x.s]] EXCEPT !.key = KeyOf[x.s]]

Commit(x) ==
    LET i == IdOf[x.s]  k == KeyOf[x.s] IN
    /\ x.pc \in {"commit", "rebind"}
    /\ live' = [live EXCEPT ![i] = RowOf(x)]
    /\ IF Keyed(x.s)
       THEN /\ res' = [res EXCEPT ![k] = [owner |-> i, by |-> x.s, st |-> "live"]]
            /\ taken' = [taken EXCEPT ![k] = @ \cup {i}]
       ELSE UNCHANGED <<res, taken>>
    /\ IF Heard(x) THEN Returns(x.s, i) ELSE UNCHANGED ans
    /\ Over(x)
    /\ UNCHANGED <<history, tries, faults>>

----------------------------------------------------------------------------
(* Lost connections.                                                       *)

\* The sender has a retryable error, and the last one is returned.
LoseConnection(x) ==
    /\ Heard(x) /\ faults < MaxFaults
    /\ faults' = faults + 1
    /\ IF Resends(x.s)
       THEN Open(x.s) /\ UNCHANGED ans
       ELSE Returns(x.s, "failed") /\ UNCHANGED <<tries, txs>>
    /\ UNCHANGED <<rows, res, taken>>

\* The server notices: only a commit that was on its way may still happen.
RollBack(x) ==
    /\ ~Heard(x)
    /\ Over(x)
    /\ UNCHANGED <<rows, res, tries, ans, taken, faults>>

----------------------------------------------------------------------------
(* Tasks and windows.                                                      *)

\* The move to history: it refuses an id the history has already.
End(i) ==
    /\ live[i] # None /\ i \notin history
    /\ \A y \in txs : ~Locking(y, i)
    /\ live' = [live EXCEPT ![i] = None]
    /\ history' = history \cup {i}
    /\ LET k == live[i].key IN
       res' = IF k # NoKey /\ res[k] # None /\ res[k].owner = i /\ res[k].st = "live"
              THEN [res EXCEPT ![k].st = "terminal"] ELSE res
    /\ UNCHANGED <<txs, tries, ans, taken, faults>>

\* The window of a closed reservation runs out.
Lapse(k) ==
    /\ res[k] # None /\ res[k].st = "terminal"
    /\ res' = [res EXCEPT ![k].st = "lapsed"]
    /\ taken' = [taken EXCEPT ![k] = {}]
    /\ UNCHANGED <<rows, txs, tries, ans, faults>>

----------------------------------------------------------------------------
Attempt(x) ==
    Claim(x) \/ Reserve(x) \/ Insert(x) \/ Verify(x) \/ Bind(x) \/ Commit(x)

Next ==
    \/ \E s \in Send : Begin(s)
    \/ \E x \in txs : Attempt(x) \/ LoseConnection(x) \/ RollBack(x)
    \/ \E i \in Id : End(i)
    \/ \E k \in Key : Lapse(k)

Spec == Init /\ [][Next]_vars

----------------------------------------------------------------------------
(* Properties.                                                             *)

\* The tasks a key is bound to.
Bound(k) == {i \in Id : live[i] # None /\ live[i].key = k}

\* In its window a key has one task, whichever sends race, are lost or are
\* repeated, and its reservation names it: it is open exactly as long as the
\* task is live, so it neither lets a second task in nor stays behind.
KeyHasOneTask ==
    \A k \in Key :
        LET r == res[k] IN
        /\ taken[k] = IF r = None \/ r.st = "lapsed" THEN {} ELSE {r.owner}
        /\ Bound(k) = IF r = None \/ r.st # "live" THEN {} ELSE {r.owner}

\* An answer that is an id names the task of an equal command, stored by then,
\* and under a key the one task of the key.
IdAgrees(s, i) ==
    /\ \/ live'[i] # None /\ Payload[live'[i].by] = Payload[s]
       \/ i \in history
    /\ Keyed(s) => taken'[KeyOf[s]] = {i} /\ Payload[res'[KeyOf[s]].by] = Payload[s]

\* A send that returns an id returns the task of an equal command (IdAgrees).
\* A send is told of a conflict only when a different command has the key or
\* the id, and fails on the index only when its key was taken.
AnswerAgrees(s) ==
    /\ ans'[s] \in Id => IdAgrees(s, ans'[s])
    /\ ans'[s] = "conflict" => \/ Payload[res[KeyOf[s]].by] # Payload[s]
                               \/ live[IdOf[s]].key # KeyOf[s]
    /\ ans'[s] = "violation" => taken[KeyOf[s]] \cup history # {}

\* What a send returns is true when it returns it, whatever it raced with.
AnswersAgree ==
    [][\A s \in Send : ans'[s] # ans[s] => AnswerAgrees(s)]_vars
=============================================================================
