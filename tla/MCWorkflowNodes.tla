-------------------------- MODULE MCWorkflowNodes --------------------------
(* Instances of WorkflowNodes for TLC.                                     *)
EXTENDS WorkflowNodes, TLC

CONSTANTS a, b, c, d, e

\* a -> b
Pair == {a, b}
PairDeps == (a :> {}) @@ (b :> {a})
PairJoin == [n \in Pair |-> "all"]
PairMin == [n \in Pair |-> 1]

\* a, b -> c when one of them completed, a, b, c -> d when two of them did,
\* c, d -> e whatever became of them
Web == {a, b, c, d, e}
WebDeps == (a :> {}) @@ (b :> {}) @@ (c :> {a, b}) @@ (d :> {a, b, c}) @@ (e :> {c, d})
WebJoin == (a :> "all") @@ (b :> "all") @@ (c :> "any") @@ (d :> "quorum") @@ (e :> "all")
WebMin == [n \in Web |-> 2]

\* c may run when a completed, and waits for the context of b all the same
WebContext == [n \in Web |-> IF n = c THEN {b} ELSE {}]
NoContext == [n \in Pair |-> {}]

NoneAllowed == {}
LastAllowed == {e}
=============================================================================
