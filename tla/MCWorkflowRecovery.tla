------------------------- MODULE MCWorkflowRecovery -------------------------
(* Instances of WorkflowRecovery for TLC.                                  *)
EXTENDS WorkflowRecovery, TLC

CONSTANTS r1, r2

Three == 1..3
TwoReapers == {r1, r2}
First1 == {1}
Second == {2}
KindsOfNodes == <<{"result"}, {"result", "rest"}, {}>>
=============================================================================
