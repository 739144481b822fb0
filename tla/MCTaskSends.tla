---------------------------- MODULE MCTaskSends ----------------------------
(* Instances of TaskSends for TLC.                                         *)
EXTENDS TaskSends

CONSTANTS i1, i2, i3, k1

Four == 1..4
ThreeIds == {i1, i2, i3}
OneKey == {k1}

\* The first two share an id: sent without a key, and again with it.  The
\* last is a different command with the key.
Ids == <<i1, i1, i2, i3>>
Keys == <<NoKey, k1, k1, k1>>
Commands == <<1, 1, 1, 2>>
=============================================================================
