---------------------------- MODULE TaskContract ----------------------------
(***************************************************************************)
(* What the queue promises about a plain task, without workers, leases,    *)
(* fences or clocks: runs happen one at a time and in order, a task is     *)
(* run again only against its retry budget, and it is settled once, by     *)
(* its current run, by the loss of that run, by its deadline or by an      *)
(* operator.                                                               *)
(***************************************************************************)
EXTENDS Naturals

CONSTANTS
    Task,        \* the tasks of the queue
    MaxRetries,  \* max_retries of every task
    Deadlined    \* the tasks with a good_until

VARIABLES
    phase,       \* phase[t]: waiting, running or settled
    retries,     \* retries[t]: runs that were given another try
    run,         \* run[t]: identity of the latest run, 0 before the first
    outcome      \* outcome[t]: how the task was settled, and by which run

cvars == <<phase, retries, run, outcome>>

Unsettled == [kind |-> "none", by |-> 0]

Init ==
    /\ phase = [t \in Task |-> "waiting"]
    /\ retries = [t \in Task |-> 0]
    /\ run = [t \in Task |-> 0]
    /\ outcome = [t \in Task |-> Unsettled]

Settle(t, kind, by) ==
    /\ phase' = [phase EXCEPT ![t] = "settled"]
    /\ outcome' = [outcome EXCEPT ![t] = [kind |-> kind, by |-> by]]
    /\ UNCHANGED <<retries, run>>

\* A worker starts a new run.
Begin(t) ==
    /\ phase[t] = "waiting"
    /\ phase' = [phase EXCEPT ![t] = "running"]
    /\ run'[t] > run[t]
    /\ run' = [run EXCEPT ![t] = run'[t]]
    /\ UNCHANGED <<retries, outcome>>

\* The run failed or was lost, and the task gets another try.
TryAgain(t) ==
    /\ phase[t] = "running"
    /\ retries[t] < MaxRetries
    /\ phase' = [phase EXCEPT ![t] = "waiting"]
    /\ retries' = [retries EXCEPT ![t] = @ + 1]
    /\ UNCHANGED <<run, outcome>>

\* The current run reports its own result.
Report(t, kind) ==
    /\ phase[t] = "running"
    /\ Settle(t, kind, run[t])

\* The current run is given up as crashed.
Lose(t) ==
    /\ phase[t] = "running"
    /\ Settle(t, "crashed", 0)

Expire(t) ==
    /\ phase[t] = "waiting"
    /\ t \in Deadlined
    /\ Settle(t, "expired", 0)

Cancel(t) ==
    /\ phase[t] # "settled"
    /\ Settle(t, "cancelled", 0)

Next ==
    \E t \in Task :
        \/ Begin(t)
        \/ TryAgain(t)
        \/ \E kind \in {"completed", "failed"} : Report(t, kind)
        \/ Lose(t)
        \/ Expire(t)
        \/ Cancel(t)

Spec == Init /\ [][Next]_cvars

=============================================================================
