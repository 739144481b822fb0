------------------------ MODULE MCHistoryPartitions ------------------------
(* Instances of HistoryPartitions for TLC.                                 *)
EXTENDS HistoryPartitions, TLC

CONSTANTS w1, w2, p, q

TwoWorkers == {w1, w2}
TwoRows == {p, q}
OnlyP == {p}
OnlyQ == {q}
=============================================================================
