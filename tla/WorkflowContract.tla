-------------------------- MODULE WorkflowContract --------------------------
(***************************************************************************)
(* What the engine promises about a workflow, without workers, claims,     *)
(* task rows, links or an outbox: the code of a node runs once its         *)
(* dependencies decide for it and not in a workflow that was paused or     *)
(* cancelled; it has one result, which the node shows unless the workflow  *)
(* was stopped before; every other node is skipped for a reason; and a     *)
(* workflow that ended by itself ended with all its nodes and is final.    *)
(***************************************************************************)
EXTENDS Naturals, FiniteSets

CONSTANTS
    Node,
    Deps,          \* Deps[n]: dependencies of node n
    Join,          \* Join[n]: "all", "any" or "quorum"
    MinSuccess,    \* MinSuccess[n]: min_success of a quorum
    AllowFailed,   \* the nodes with allow_failed_deps
    Context,       \* Context[n]: dependencies whose results n wants
    OnError        \* "fail" or "pause"

VARIABLES
    status,        \* of the workflow
    node,          \* node[n]: "waiting", "out", or how it ended
    executing,     \* the nodes whose code runs
    result         \* result[n]: what the code of n returned

cvars == <<status, node, executing, result>>

Ended == {"COMPLETED", "FAILED", "SKIPPED"}
Outcome == {"COMPLETED", "FAILED"}

-----------------------------------------------------------------------------
(* When a view v of the nodes decides about node n: the ways its           *)
(* dependencies can still turn out, and what its join asks of them.        *)

Futures(v, n) ==
    {f \in [Deps[n] -> Ended] : \A m \in Deps[n] : v[m] \in Ended => v[m] = f[m]}
Met(f, n) ==
    LET won == {m \in Deps[n] : f[m] = "COMPLETED"} IN
    \/ Join[n] = "all" /\ (n \in AllowFailed \/ won = Deps[n])
    \/ Join[n] = "any" /\ won # {}
    \/ Join[n] = "quorum" /\ Cardinality(won) >= MinSuccess[n]

\* The dependencies that n waits for whatever its join says of the others.
Awaited(n) == IF Join[n] = "all" THEN Deps[n] ELSE Context[n]

MayStart(v, n) ==
    Deps[n] # {} =>
        /\ \A f \in Futures(v, n) : Met(f, n)
        /\ \A m \in Awaited(n) : v[m] \in Ended
Lost(v, n) == \A f \in Futures(v, n) : ~Met(f, n)

\* From v to w the last dependencies of n end and n goes on to wait, although it was
\* not decided before.
Forgotten(v, w, n) ==
    /\ w[n] = "waiting" /\ ~MayStart(v, n)
    /\ \E m \in Deps[n] : v[m] \notin Ended
    /\ \A m \in Deps[n] : w[m] \in Ended

\* Nodes that can be taken back before their code ran.
Idle == {n \in Node : node[n] = "out" /\ n \notin executing /\ result[n] = "none"}
TakenBack(v, K) == [n \in Node |-> IF n \in K THEN "waiting" ELSE v[n]]

-----------------------------------------------------------------------------

Init ==
    /\ status = "RUNNING"
    /\ node = [n \in Node |-> IF Deps[n] = {} THEN "out" ELSE "waiting"]
    /\ executing = {}
    /\ result = [n \in Node |-> "none"]

\* The code of a node starts.  An expiry, unlike a pause and a cancel, does not
\* keep a node from it that was sent out before and is tried again.
Begin(n) ==
    /\ status \in {"RUNNING", "EXPIRED"}
    /\ n \in Idle
    /\ executing' = executing \cup {n}
    /\ UNCHANGED <<status, node, result>>

\* The attempt failed or was lost, and the node gets another one.
TryAgain(n) ==
    /\ n \in executing
    /\ executing' = executing \ {n}
    /\ UNCHANGED <<status, node, result>>

\* The code ended or was given up as crashed: the only result of the node.
Return(n, r) ==
    /\ n \in executing
    /\ result[n] = "none"
    /\ executing' = executing \ {n}
    /\ result' = [result EXCEPT ![n] = r]
    /\ UNCHANGED <<status, node>>

Shows(n) == node[n] = "out" /\ result[n] # "none"
Shown(n) == [node EXCEPT ![n] = result[n]]

\* A running workflow takes a result, sends out nodes that may start, skips nodes
\* that lost, forgets none whose dependencies ended with it, and ends with its last.
Advance(n) ==
    /\ status = "RUNNING"
    /\ Shows(n)
    /\ result[n] = "FAILED" => OnError # "pause"
    /\ node' \in [Node -> Ended \cup {"waiting", "out"}]
    /\ \A m \in Node :
        \/ node'[m] = Shown(n)[m]
        \/ node[m] = "waiting" /\ node'[m] = "out" /\ MayStart(node', m)
        \/ node[m] = "waiting" /\ node'[m] = "SKIPPED" /\ Lost(node', m)
    /\ \A m \in Node : ~Forgotten(node, node', m)
    /\ status' = IF \E m \in Node : node'[m] \notin Ended THEN "RUNNING"
                 ELSE IF \E m \in Node : node'[m] = "FAILED" THEN "FAILED" ELSE "COMPLETED"
    /\ UNCHANGED <<executing, result>>

\* A failure pauses a running workflow, if that is its policy, like Pause below.
Halt(n) ==
    /\ status = "RUNNING"
    /\ Shows(n)
    /\ result[n] = "FAILED" /\ OnError = "pause"
    /\ status' = "PAUSED"
    /\ \E K \in SUBSET Idle : node' = TakenBack(Shown(n), K)
    /\ UNCHANGED <<executing, result>>

\* A paused workflow takes a result and goes no further.
Note(n) ==
    /\ status = "PAUSED"
    /\ Shows(n)
    /\ node' = Shown(n)
    /\ UNCHANGED <<status, executing, result>>

\* A resume or recovery sends out or skips what was decided meanwhile.
Send(n) ==
    /\ status = "RUNNING"
    /\ node[n] = "waiting" /\ MayStart(node, n)
    /\ node' = [node EXCEPT ![n] = "out"]
    /\ UNCHANGED <<status, executing, result>>

Skip(n) ==
    /\ status \in {"RUNNING", "PAUSED"}
    /\ node[n] = "waiting" /\ Lost(node, n)
    /\ node' = [node EXCEPT ![n] = "SKIPPED"]
    /\ UNCHANGED <<status, executing, result>>

\* A pause takes back any nodes whose code does not run; a claim that learns of it
\* late takes back its own, even after a resume or a stop.
Pause ==
    /\ status = "RUNNING"
    /\ status' = "PAUSED"
    /\ \E K \in SUBSET Idle : node' = TakenBack(node, K)
    /\ UNCHANGED <<executing, result>>

TakeBack(n) ==
    /\ status \notin Outcome
    /\ n \in Idle
    /\ node' = TakenBack(node, {n})
    /\ UNCHANGED <<status, executing, result>>

Resume ==
    /\ status = "PAUSED"
    /\ status' = "RUNNING"
    /\ UNCHANGED <<node, executing, result>>

\* A cancel, or the expiry of a paused workflow, ends every node that waits and any
\* that has no result; a claim that learns of a cancel late ends its own.
Stop(st) ==
    /\ \/ st = "CANCELLED" /\ status \in {"RUNNING", "PAUSED"}
       \/ st = "EXPIRED" /\ status = "PAUSED"
    /\ status' = st
    /\ \E K \in SUBSET {n \in Node : node[n] = "out" /\ result[n] = "none"} :
          /\ node' = [n \in Node |-> IF n \in K \/ node[n] = "waiting" THEN "SKIPPED" ELSE node[n]]
          /\ executing' = executing \ K
    /\ UNCHANGED result

StopLate(n) ==
    /\ status = "CANCELLED"
    /\ n \in Idle
    /\ node' = [node EXCEPT ![n] = "SKIPPED"]
    /\ UNCHANGED <<status, executing, result>>

\* The workflow ends by itself.
Finish ==
    /\ status = "RUNNING"
    /\ \A n \in Node : node[n] \in Ended
    /\ status' = IF \E n \in Node : node[n] = "FAILED" THEN "FAILED" ELSE "COMPLETED"
    /\ UNCHANGED <<node, executing, result>>

Next ==
    \/ \E n \in Node :
        \/ Begin(n) \/ TryAgain(n) \/ \E r \in Outcome : Return(n, r)
        \/ Advance(n) \/ Halt(n) \/ Note(n)
        \/ Send(n) \/ Skip(n) \/ TakeBack(n) \/ StopLate(n)
    \/ Pause \/ Resume \/ Finish
    \/ \E st \in {"CANCELLED", "EXPIRED"} : Stop(st)

Spec == Init /\ [][Next]_cvars

=============================================================================
