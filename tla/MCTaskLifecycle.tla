-------------------------- MODULE MCTaskLifecycle --------------------------
(* Instances of TaskLifecycle for TLC.                                     *)
EXTENDS TaskLifecycle

CONSTANTS t1, w1, w2

NoTask == {}
OneTask == {t1}
TwoWorkers == {w1, w2}

\* Both workers know the task, or only one of them.
BothKnow == {<<w1, t1>>, <<w2, t1>>}
OneKnows == {<<w1, t1>>}

============================================================================
