---------------------------- MODULE MCScheduler ----------------------------
(* Instances of Scheduler for TLC.                                         *)
EXTENDS Scheduler, TLC

CONSTANTS s1, s2

TwoSchedulers == {s1, s2}
OneScheduler == {s1}
OneVersion == {1}
TwoVersions == {1, 2}
=============================================================================
