---------------------------- MODULE MCClaimCaps ----------------------------
(* Instances of ClaimCaps for TLC.                                         *)
EXTENDS ClaimCaps, TLC

CONSTANTS t1, t2, t3, t4, w1, w2, qa, qb

TwoWorkers == {w1, w2}
TwoQueues == {qa, qb}
QueueKeys == (qa :> 2) @@ (qb :> 1)

\* Two capped queues that both workers serve
ThreeTasks == {t1, t2, t3}
TwoAndOne == (t1 :> qa) @@ (t2 :> qa) @@ (t3 :> qb)
ServeAll == [w \in TwoWorkers |-> TwoQueues]
CapOneTwo == (qa :> 1) @@ (qb :> 2)

\* An open queue and a capped one, which only the second worker serves
FourTasks == {t1, t2, t3, t4}
TwoAndTwo == (t1 :> qa) @@ (t2 :> qa) @@ (t3 :> qb) @@ (t4 :> qb)
ServeUneven == (w1 :> {qa}) @@ (w2 :> TwoQueues)
CapSecond == (qa :> NoCap) @@ (qb :> 1)

\* Tasks of one queue are interchangeable; used without liveness properties.
TaskPairs == Permutations({t1, t2}) \cup Permutations({t3, t4})
=============================================================================
