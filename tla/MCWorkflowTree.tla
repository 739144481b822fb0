--------------------------- MODULE MCWorkflowTree ---------------------------
(* Instances of WorkflowTree for TLC.                                      *)
EXTENDS WorkflowTree, TLC

CONSTANTS r, m, l

\* r with the child m, m with the child l
Chain == {r, m, l}
ChainParent == (r :> NoFlow) @@ (m :> r) @@ (l :> m)
LastWaits == {l}
RootOnly == {r}
=============================================================================
