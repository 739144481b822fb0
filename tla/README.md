# horsies: a verification project

horsies is a task queue and workflow engine on PostgreSQL. Workers are processes
that share nothing but the database; every guarantee rests on the guards of SQL
statements, on a few row and advisory locks, and on loops that repair what a dead
process left behind. This directory holds TLA+ models of those parts, TLC
configurations that check them on small instances, and proofs checked by TLAPS.

Paths below are relative to `src/horsies/src`, migrations to `src/horsies/migrations`.

## 1. Inventory

### Parts of the system

| Part | State it keeps | Operations |
|---|---|---|
| Task rows (`broker/postgres.rs`) | `horsies_tasks`: status, owner, `claimed_at`, `started_at`, lease, `retry_count`, `next_retry_at`, `finalizing_at`, `good_until` | enqueue, `claim_batch`, `set_running`, unclaim, `schedule_retry` / `REQUEUE_SQL`, pre-start expiry, stop before start, filter of stopped workflows |
| Terminalization (`broker/terminalization.rs`, 0041, 0065) | history and attempt tables, phase-2 outbox | complete, fail, fail stale, expire, cancel: fenced moves of the live row to history |
| Claim function (0062) | advisory locks, counts | lock keys, count in flight, choose and take candidates |
| Worker loop (`worker/worker.rs`) | permits (semaphore), `in_dispatch` | buffered dispatch with its gate, claim pass, dispatch, drain |
| Execution (`worker/execution.rs`) | snapshot of the claimed row | ownership confirmation, user code, finalizing stamp, phase 1 with retries, phase 2 |
| Heartbeats (`worker/heartbeat.rs`) | heartbeat rows, leases | runner beat, claimer beat, lease renewal |
| Reaper (`worker/recovery.rs`) | scan gates | requeue of stale claims, crash retry or crash failure, expiry of pending rows, retention |
| Workflow engine (`workflow_engine/engine.rs`, `start.rs`) | `horsies_workflows`, `horsies_workflow_tasks` | start, enqueue of nodes, consumption of results, promotion or skip of dependents, completion, propagation to a parent |
| Workflow controls (`workflow_engine/lifecycle.rs`) | workflow status | pause, resume, cancel, cascade to children |
| Workflow recovery (`workflow_engine/recovery.rs`, `phase2_recovery.rs`, 0059) | outbox rows, audit cursors | stuck nodes, results not consumed, expiry of paused workflows, completion |
| Scheduler (`worker/scheduler`) | schedule state, advisory lock per schedule | initialise, existence check, due slots, catch-up, enqueue, stored progress |
| Sends (`task.rs`, `core/history/identity`, 0034) | key reservations | enqueue with retries, claim of a key, bind after a conflict |
| History partitions (`core/history/partitions`, `maintenance`, `reads/publisher.rs`) | leaf catalog, relations, manifest, rendered functions | create ahead, detach, finalize, drop, publish |
| Rest of the history (`core/history`) | cutover state | cutover, transcode, reads, rerun |
| Listeners (`broker/listener.rs`, `shared_listener.rs`) | LISTEN connections | wake-ups; polling is the fallback |
| Monitoring and web (`monitoring`, `web`) | caches | reads; actions that call the controls above |
| Configuration, registry, codec, macros, CLI | values | validation, conversion, start-up |

### How they interact

A client inserts a row. A worker's loop claims rows through the SQL function and
spawns an execution per row; the execution starts the row, runs user code with a
heartbeat beside it, and moves the row to history (phase 1). If the row backs a
workflow node, the same transaction writes an outbox row, and phase 2 consumes it in a
second transaction: it sets the node, enqueues or skips dependents and ends the
workflow. Reapers of every worker, the workflow recovery and operators change the same
rows at any time. Nothing is coordinated except by the guards in the statements: each
actor acts on a snapshot read earlier and must find that snapshot still true in the
statement that writes.

### What is hard, and what must hold

| Part | Hard behaviour | Correct when |
|---|---|---|
| Task rows | stale dispatches, reclaims by the same worker, crashes, lost acknowledgements, deadlines against starts | one run per claim; the latest run settles the task; attempts are counted exactly; the retry budget is a bound on starts; every task is settled |
| Claims and caps | counting and taking are two statements; leases lapse and are renewed; several locks | caps hold up to the leases that lapsed; no cycle of waiting; no starvation in the buffer |
| Workflow nodes | stop against dispatch, crash between phase 1 and phase 2, crash in resume, stale verdicts | one live task per node, linked; one outcome per node; joins respected; a stopped workflow starts nothing; a running one ends |
| Sub-workflows | cascade over a tree, parent and child locked from both ends, deadlock victims | parent and child agree; a pause and a cancel cover the tree; the tree ends |
| Recovery passes | shared cursor, claims that lapse, rows that always fail | one finalizer at a time; a result is applied once; nothing stuck is passed over |
| Scheduler | several schedulers, missed slots, a death between enqueue and progress | no slot is lost by a catch-up, slots are enqueued in order, a due schedule is served |
| Idempotent enqueue | key reservation against live rows and history, lost acknowledgements | one task per key; every answer is true |
| History partitions | two procedures publish with no common lock, DDL in several commits, late rows | wanted rows stay; no reader names a dropped leaf; expired leaves go |

`PROJECT.json` lists every component with what is modelled of it, and every hazard at
its line with the properties that cover it.

## 2. Modules

| Module | Contents |
|---|---|
| `TaskContract` | abstract: what a client of one task is promised |
| `TaskLifecycle` | task rows, dispatches, reaper, heartbeats, faults; the refinement mapping to the contract |
| `ClaimCaps` | claim pass of several workers against the caps |
| `WorkflowContract` | abstract: what a client of one workflow is promised |
| `WorkflowNodes` | nodes of one workflow, their tasks, the outbox, controls, recovery; the refinement mapping to the contract |
| `WorkflowTree` | flows with sub-workflow nodes: controls that descend, results that climb |
| `WorkflowRecovery` | the audit pages and the outbox passes of several reapers |
| `Scheduler` | one schedule, several scheduler processes |
| `TaskSends` | sends, keys, reservations, the end of tasks |
| `HistoryPartitions` | leaves of the task history, their publication and retention |
| `MC...` | constants and symmetry for TLC |
| `..._proofs` | one module of theorems for each of the eight detailed modules; those of `TaskLifecycle` and `WorkflowNodes` also have the refinements of `TaskContract` and `WorkflowContract` |

The models overlap on purpose where one part needs the other: `ClaimCaps` knows only
whether the holder of a row's data is still its owner (`live`), which is the fence
`TaskLifecycle` models in full; `WorkflowNodes` uses the same abstraction (`fresh`) and
leaves leases, deadlines and attempts to `TaskLifecycle`. `WorkflowTree` reduces the plain
nodes of a flow to one item of work, `WorkflowRecovery` reduces a flow to the question
whether its nodes are terminal: what happens inside is `WorkflowNodes`. `TaskSends`,
`Scheduler` and `HistoryPartitions` see of a task only that it is live or in history.

### TaskLifecycle

*State.* `row[t]` has the columns the guards read. `claimedAt` and `startedAt` are
ordinals of claims (`gen`) instead of time stamps: the code compares them only for
equality, and a claim always writes a new one. Time itself is a set of facts that become
true by a step: a lease lapses, `claimed_at` grows old, a beat or a finalizing stamp goes
stale, a deadline passes, a backoff is over. `disp` is the set of executions, each with
the snapshot it was born from (worker, task, claim ordinal), its position `pc` and the
result of user code; `inDispatch[w]` is the set `Worker::in_dispatch`, kept in prefetch
mode only because it is read there only. `history` and `attempts` are what phase 1 and
the reaper wrote; `starts` counts how often user code began.

*Actions.*

| Action | Code |
|---|---|
| `Claim`, `DispatchBuffered` | `horsies_claim` and `dispatch_task`, with the branches "no permit" and "reply lost"; `load_buffered_claimed` |
| `SetRunning`, `NotStarted`, `ExpireBeforeStart`, `Unclaim` | `confirm_ownership_and_set_running` |
| `Finish`, `Stamp` | end of user code, `mark_finalizing` |
| `Complete`, `FailLocked`, `FinalizeMiss`, `PhaseError` | phase 1 with its fenced statements and `retry_phase1` |
| `Requeue`, `FallThrough` | `schedule_retry_for_task` and what happens when it does not apply |
| `RunnerBeat`, `RenewLease` | heartbeat.rs |
| `RequeueStaleClaimed`, `ReapRetry`, `ReapFail`, `ExpirePending` | recovery.rs |
| `AdminCancel` | cancel of a task |
| `Drain`, `Exit` | shutdown and death of a worker |
| `LeaseLapses`, `ClaimAges`, `BeatGoesStale`, `StampGoesStale`, `BackoffOver`, `DeadlinePasses` | time |

A database statement whose answer is lost is one step that changes the row and leaves
the dispatch where the code goes after an error (`heard` is FALSE). The reaper's scan is
advisory and its per-task transaction checks again, so the two are one step.

Which worker has which task in its registry is a constant: a task its worker does not
know fails right after its start, without heartbeat or stamp.

*Bounds.* One task (tasks share no state here but the permits, which are in
`ClaimCaps`), two workers, `MaxRetries` 1, up to two faults. A fault is a death, a lost
answer, an error, a beat or lease lost under a live dispatch. Two dispatches of one claim
may be alive at a time (`n` in 1..2). One worker stays up (`OthersUp`): without it there
is nothing to say about progress.

### ClaimCaps

*State.* Rows with owner and lease, the position of every worker's pass with the rows,
counts and budget it carries from one statement to the next, the advisory locks it
holds, its permits (`slot`), `inDispatch`, and spawned unclaims.

*Actions.* `LoadBuffered`, `DispatchBuffered` (with the gate) and `StartPass` begin a
pass; `Acquire`, `Count`, `Take` are the three parts of the SQL function: locks in
ascending order, counts, and the taking of a maximal batch within every limit; `Dispatch`
gives out permits and hands the rest to `Unclaim` in hard cap mode. `Start`, `Finish`,
`Abandon` are executions, `RenewLease`, `LeaseLapses`, `RequeueStaleClaimed`,
`ReapStaleRunning`, `Crash` their surroundings. `Take` marks what other workers hold of
the same rows as stale, which is all that a new `claimed_at` does.

*Bounds.* Three or four tasks, two workers. `MaxLapses` bounds the leases that lapse under a
live worker (one in `caps_limits`): the caps are stated up to that number because the code itself does not count
lapsed claims and renews them afterwards (section 3). Locks are taken one by one
although the code takes them in one statement: another session may come between two of
them.

### WorkflowNodes

*State.* `db` is what PostgreSQL holds: the workflow's status, the status of each node
with the generation of the task it links, the status of every task generation. A node
gets a new generation every time a task row is created for it, so an old dispatch and a
new one of the same node are told apart. `outbox` holds results not yet consumed, `disp`
the dispatches with what they read, `eval` the node a re-evaluation decided on.

*Actions.* `Claim`; then the filter in two steps (read, act); the hand-off of the node
and the start of the task as two statements; the stop of a refused start in two steps
(read the status, act on it); `Finish` with completion, failure or retry; `Consume` as
the whole phase-2 transaction, with the failure policy, the skips level by level, the
enqueues and the completion; `Pause`, `Resume`, `Cancel`, `ExpirePaused`; re-evaluation as
read (`BeginEval`) and write (`EndEval`); recovery of READY nodes and completion; the
reaper; crashes and failing statements wherever a dispatch can be. Where code skips locked rows (the
relocation of claimed tasks by a pause), any subset may be skipped.

What a result skips is stated as the least set of PENDING nodes that is closed under "its
join cannot be met any more once these are skipped" (`SkipClosed`, `SkipSet`): the code
computes it level by level and reaches the same set, since a skip never makes another
node's verdict better. `RunSet` is what may start after the skips.

A node may have context sources outside of its join (`Context`): when its join is met and
a source is still open it stays PENDING, and the end of any context source looks at it
again, as in `process_dependents`.

*The contract.* `WorkflowContract` has neither tasks nor an outbox: the workflow's status, each
node as "waiting", "out" or ended, the nodes whose code runs and the result each node's code
returned. It decides by the ways the open dependencies can still turn out (`Futures`): a node
may start when every one of them meets its join and what it waits for is there, and is
lost when none does. `WorkflowNodes` maps PENDING and READY to "waiting" and ENQUEUED and
RUNNING to "out" (`View`); the task a node links says whether its code runs and what it
returned (`Executing`, `Result`), so that a result exists from phase 1 on, before phase 2
shows it. `ImplementsWorkflow` is the contract under this mapping.

*Bounds.* A chain of two nodes, and a graph of five with the three joins, skips that cascade,
a node that accepts failed dependencies and one with a context source. Two or three controls, up to two faults, one
retry; `MaxGen` tasks for a node are enough for the controls a run allows. A transaction
that would need one more task than that does not happen (`Spare`), whole: it never
enqueues half of its nodes. One re-evaluation at a time is under way.

### WorkflowTree

*State.* `db` has the status of each flow, of the node of each child in its parent
(LINKED stands for ENQUEUED and RUNNING) and of the work of the flow's own plain nodes.
`fin[w]` is the open phase-2 transaction of the result of `w`: the rows it holds, the rows
as it will leave them, the flow it has climbed to. `op` is the operator's walk over the
tree, `launch` the children a resume or recovery has read READY and will start, `lacking`
those a worker without their definition has made READY and will fail. Some worker lacks the
definitions of `Unknown`.
A flow that starts starts the flows of its roots with it; `Starting` is the least set that
does (`StartClosed`), which the code reaches by recursion.

*Actions.* `Work`, `Consume`, `Climb`, `Commit`: a result is consumed and, while the flow
it ends has a parent, that parent is locked too, in one transaction upwards.
`BeginPause`, `BeginCancel`, `BeginResume`, then `Scan`, `Visit`, `End`: a pause holds every
row it updates until it commits, a cancel and a resume commit flow by flow. `Deadlocked`
flows are ended as a `Victim`, which rolls back. `CheckCompletion` and
`OnSubworkflowComplete` are the two commits of a completion outside of phase 2,
`RecoverChild`, `Reevaluate`, `BeginLaunch` and `EndLaunch` the passes over sub-workflow
nodes; `ExpirePaused`, `CrashOp`, `CrashLaunch` the rest.

What a missing definition does depends on who meets it. Phase 2 fails the node in its own
transaction (`lack` in `Promoted`), and the parent may end at once. `process_dependents`
commits the node READY and `fail_subworkflow_load` fails it in the next statement
(`FailLoad`); a death between the two leaves it READY. A resume and recovery case 1.5
return an error for a READY node they cannot launch, so they change nothing. The start of
a workflow, or of a child with its roots, is undone whole when a definition is missing
(start.rs:889–905), which is why `Started` starts all of them.

*Bounds.* A chain of three flows, which has a middle flow that is child and parent; the last
one starts after work and is in `Unknown`. Three controls, one fault.

### WorkflowRecovery

*State.* Flows numbered in the order of `created_at`; the kinds of nodes that are still
open; the outbox row with its attempts; the shared cursor with its token; the pass of
each reaper with the page it took.

*Actions.* `Audit` (page and claim in one transaction), `LockClaim`, `Finalize`,
`FailOrphan`, `OrphanRefused`, `Dropped`, `Release`; `Discover`, `ReadRow`, `ConsumeRow` with
the dispositions of `horsies_phase2_consume`; `FinRead`, `FinConsume` of the worker that
finalizes its own task; `StatementFails`, `Crash`, `Lapse`.

*Bounds.* Three flows (a progression that always fails, a recorded result that cannot be
read, an orphan), two reapers, pages of two, a bound of one attempt, one fault.

### Scheduler

*State.* The row of the schedule (next slot, hash of the configuration), the holder of the
advisory lock, the position of each process with what it read, the slots with a live row
and how often each was executed. Slot `k` falls due when the clock reaches `k`: patterns
and time zones only give the order of slots.

*Actions.* `Start`, `Initialize` (outside of the lock); `Tick`, `Heal`, `HealFails`;
`TryLock`, `ReadState`, `Recreate`, `Enqueue`, `Verify`, `EnqueueFails`, `Store`,
`StoreFails`, `Release`; around them `LoseLock`, `Crash`, `DeleteRow`, `Run`, `Advance`.

*Bounds.* Two processes, two versions of the configuration, three slots, a catch-up of two,
a scan of one, one fault. An insert of `Heal` may fail any number of times.

### TaskSends

*State.* Live rows, ids in history, reservations, and the open transactions of the sends: a
sender whose connection is lost goes on to its next attempt while the old transaction
may still commit.

*Actions.* `Begin`, `Claim`, `Reserve`, `Insert`, `Verify`, `Bind`, `Commit`,
`LoseConnection`, `RollBack`, one action per statement of `enqueue`; `End` is the move of a
task to history with the end of its reservation, `Lapse` the end of its window.

*Bounds.* Four sends over three ids and one key (two sends share the id, three the key),
two attempts each, two lost connections.

### HistoryPartitions

*State.* Per leaf the relation (`phys`) and its catalog row (`stamp`); `pub`, from which
leaves the manifest and the functions (readers and duplicate guard) were rendered; `wk`,
the procedure a worker is in; the rows that move in. Leaves are days of a finite class,
days of the forever class before its open-ended leaf begins, and that leaf.

*Actions.* Coverage: `ProbeConformant`, `ProbeMissing`, `CreateLeaf` (one transaction per
leaf), `EndCoverage`, `Install` (manifest and functions in one transaction). Pruning:
`BeginDetach`, `MarkDetach`, `EndDetach` (the two transactions of DETACH CONCURRENTLY),
`BeginFinalize`, `RecordDetached`, then the publication statement by statement, since the
connection commits each: `Republish`, `RenderFunctions`, `ClearManifest`, `FillManifest`;
`Drop`. Rows: `Insert`, `CommitRow`, `Apply`. `Fail` is a death or a failing statement
between any two of them.

*Bounds.* Two workers, two rows (one for a workflow node, one kept for ever), three days, one
leaf created ahead, one fault. With two faults `ReadersIntact` does not hold (section 3);
what remains true for any number of faults and days is proved (section 5).
`mixed` records that a publication was overtaken, by another one or by the drop of a leaf
it had read. The reaper's gate is assumed held
(see below for a pool of one connection).

## 3. Runs

Passing runs:

| Run | Instance | Shows |
|---|---|---|
| `lifecycle_prefetch` | leases, prefetch buffer, deadline, one fault, fair | `TypeOK`, `OneRunPerClaim`, `LostRetryCannotFail`, `SupersededOnlyExpires`, `EventuallySettled` |
| `lifecycle_faults` | no lease, deadline, two faults, one of the workers does not know the task | `LatestRunSettles`, `AttemptLedger`, and `ImplementsContract`: `TaskLifecycle` implements `TaskContract` |
| `caps_limits` | hard cap mode, a cluster cap of 2, one of two queues capped at 1, a lapse and a crash | `TypeOK`, `CapsHeld` |
| `caps_buffer` | prefetch buffer, queues with caps 1 and 2, a crash, fair | `WorkerBudgetHeld`, `NoLockCycle`, `BacklogDrains` |
| `nodes_pair` | a then b, a failure pauses, three controls, a fault, a retry, fair | `TypeOK`, `LiveTaskLinked`, `OneOutcomePerNode`, `NodeNeverStranded`, `WorkflowsSettle`, and `ImplementsWorkflow`: `WorkflowNodes` implements `WorkflowContract` |
| `nodes_joins` | five nodes: any, quorum, all with failures allowed, a context source; two controls | `JoinRespected` |
| `tree` | a chain of three flows, three controls, a fault, fair | `TypeOK`, `TreeAgrees`, `CancelReachesChildren`, `PauseCoversTree`, `TreeEnds` |
| `recovery` | three flows, two reapers, a fault, fair | `TypeOK`, `OneFinalizer`, `AppliedOnce`, `PassesReachAll` |
| `scheduler` | two processes, three slots, a fault, fair | `TypeOK`, `NoSlotSkipped`, `SlotsInOrder`, `DueIsServed` |
| `sends` | four sends, two lost connections | `TypeOK`, `KeyHasOneTask`, `AnswersAgree` |
| `partitions` | two workers, two rows, three days, a fault, fair | `TypeOK`, `WantedRowsStay`, `ReadersIntact`, `ExpiredGo` |

The instances are small and chosen so that each hazard happens within them: one task is
enough for every race over its row, two workers for every race between passes, three
tasks to have one waiting behind a full cap, two nodes for every race between a task and
its dependents, three flows for a walk that must go on below a child, two reapers or
schedulers for every race between passes. All of them are explored completely, each within
about three minutes.

The runs of the workflow modules, of `TaskSends` and of `HistoryPartitions` switch the
deadlock check off: a workflow that ended or is paused, a batch of sends that all have an
answer, and the last day do stop. In the others every terminal state is a named stutter or there is none.

Every property is also checked against a plausible slip in the code: the operators whose
comment begins with "Slip:" stand beside the definition they would replace, and
`PROJECT.json` says which property notices which.

### Where the code and what is said of it differ

The run `scheduler_restart` checks one statement of the documentation and ends in a
counterexample.

| Run | Statement | What happens |
|---|---|---|
| `scheduler_restart` | a slot is enqueued once although a scheduler dies and restarts, since the task id is a function of the slot (website, scheduling/scheduler-overview.md:213–217; worker/scheduler/service.rs:91–93) | the process dies between the enqueue and the stored progress; the first task ends and leaves its live row; the restarted process enqueues the slot again and the task runs a second time. The second row cannot be moved to history, where its id already is (0065:151) |

Smaller disagreements, without a run of their own; the models follow the code.

Tasks and caps:

* worker/execution.rs:212–214 says that `claimed_at` fences the pre-start expiry too; the
  statement (broker/postgres.rs:1617) has no such fence, so a superseded dispatch expires
  the row its worker claimed again (`SupersededOnlyExpires` allows for that).
* broker/postgres.rs:166 says that every requeue clears `claimed_at`; `REQUEUE_SQL` keeps
  it (`Rescheduled` against `Released`).
* core/config/app.rs:37 speaks of a default lease of 60 seconds; without `claim_lease_ms`
  a claim has no lease (`Leased` FALSE).
* website, workers/concurrency.md:121, promises that exactly `cluster_wide_cap` tasks can
  be in flight; a lapsed claim is not counted and may be renewed afterwards, so `CapsHeld`
  allows for the leases that lapsed.
* worker/worker.rs:730–732 says that a buffered task never starts beyond the cap; the gate
  counts without a lock (worker/worker.rs:733), so two workers read the same count and both
  start one.

Workflows:

* website, monitoring/action-semantics.md:163, says that a cancelled workflow settles; a
  stop that read PAUSED resets its node after a cancel (broker/postgres.rs:360) and it stays
  READY. The same page is not true of the node of a child whose parent was cancelled: it
  never settles.
* website, concepts/workflows/workflow-semantics.md:105, says that expiry ends the remaining
  tasks; the retry of a RUNNING node (broker/postgres.rs:176) survives it and may start
  (`Begin` of `WorkflowContract` admits EXPIRED for that).
* worker/recovery.rs:743 says that a terminal workflow has only terminal backing tasks; a
  cancel keeps the tasks of RUNNING nodes, which `StoppedDrains` lets end later.
* The doc comments of `handle_workflow_stop_before_start` and of the filter
  (broker/postgres.rs:2158) say that a paused task goes back to PENDING; the code abandons
  it to history and gives the node a new row later, and with it a new retry budget.
* workflow_engine/lifecycle.rs:647–650 calls a resume idempotent; one that dies after the
  second level and is repeated finds no PAUSED child to descend from (:807) and leaves the
  third level PAUSED (`TreeEnds` speaks only of trees in which nothing stays paused).
* workflow_engine/engine.rs:306–309 relies on a guard that `LINK_SUBWORKFLOW_SQL`
  (lifecycle.rs:212) lacks: a launch that read its parent RUNNING may start a child under a
  parent that was stopped since.
* workflow_engine/engine.rs:2117–2120 says that a child whose definition is missing is
  failed instead of leaving its node READY for ever. That holds in `process_dependents`; a
  resume (lifecycle.rs:1090) and recovery case 1.5 (recovery.rs:1564) return an error, so a
  node left READY by a death stays so unless a worker that knows the definition comes to it.
* `fail_subworkflow_load` (engine.rs:2036) is guarded on the node alone (engine.rs:95–100).
  If recovery on a worker that knows the definition has launched the child since the node
  became READY, the node of a live child is failed: the parent may end FAILED over it, and
  the child may complete. `overrun` marks these children and `TreeAgrees` excepts them.
* A cancel that dies inside its cascade is not repaired by any pass, and a middle flow that
  expired hides its live descendants from a later cancel, since `FIND_CANCELLABLE_CHILDREN`
  filters by status (website, monitoring/action-semantics.md:151).
* website, configuration/recovery-config.md:107–110, promises a bound on failing attempts;
  progression errors of the audit are not counted or quarantined, and two hundred of them
  (`GLOBAL_SCAN_ROW_CAP`, worker/recovery.rs:574) fill every page of the oldest rows.
  Quarantine of an outbox row succeeds only for a row of another version whose locator
  agrees (0041:2846–2966); any other row stays pending beyond its bound.

Scheduler and sends:

* `max_catch_up_runs` is documented from 1 to 10000 (website, scheduling/schedule-config.md:60)
  and `ScheduleConfig::validate` (core/config/schedule.rs:864) does not check it. With 0 no
  missed slot is found, so `process_schedule` takes the branch for the latest slot
  (service.rs:430, 498) and skips slots although catch-up is on. `SchedulerAssumption` takes
  1 or more, where `ReadState` may branch on `catchUp`; `NoSlotSkipped` says nothing about 0.
* `initialize` reads and writes outside of the schedule's lock and can set `next_run_at`
  back, and `upsert` may write an old `config_hash` over a new one. Two such faults in a row
  can rewind to a slot whose live row has another payload, after which every tick ends in
  `PayloadMismatch`: `DueIsServed` is stated for one fault.
* website, scheduling/scheduler-overview.md:237, says that without catch-up only the next slot
  is executed; the code executes the latest slot that is due (`Scheduler`). `run_count` grows by
  one for a whole batch of catch-up, though line 211 calls it the number of executions.
* website, tasks/sending-tasks.md:126, says that a matching command replays the task id; when two
  first claims of one key overlap, the loser gets a unique violation, which `error.rs:137`
  does not call retryable.
* website, tasks/errors.md:119, calls a retry idempotent; a send without a key whose answer was
  lost and whose task has ended since inserts the task again and it runs twice.
  `horsies_key_reservation_cleanup` has no caller.

History partitions:

* core/history/reads/publisher.rs:1 and the website (internals/database-schema.md:97) call
  the publication atomic. The pruner publishes on a connection that commits each statement.
  A coverage publication that read the catalog before the stamp and installs between the
  pruner's functions and its manifest leaves functions that name a leaf the manifest lacks;
  the leaf is dropped, and readers fail until the next leaf is created, because
  `needs_republication` compares only the manifest with the catalog. `ReadersIntact`
  excepts this state (`mixed`). It also excepts a publication that has read the catalog and
  stalls until a leaf it read, created and never published, has expired and was dropped:
  with a manifest that does not name the leaf nothing asks for a publication before.
* worker/recovery.rs:929–932 says that a pass without its gate stays correct through SKIP
  LOCKED; with a pool of one connection the gate is not held, and two pruners at a time
  would violate `ReadersIntact`.
* Two deaths lead to the same end without an overlap: one between the statement that clears
  the manifest and the one that fills it, then, before a coverage pass publishes again
  (coverage and pruning fail independently, worker/recovery.rs:1215), one between the DETACH
  of another leaf and its record. The leaf found detached is dropped against an empty
  manifest while the functions still name it. One death between the functions and the
  manifest is enough if coverage then fails for so many days that a leaf only the functions
  name expires. `ReadersIntact` holds for one death within the days of its run.
* website, configuration/retention-config.md, says that the next pass retries a leaf; after
  a death between DETACH and `record_detached` the leaf is detached without a stamp, a state
  in which `finalize_interrupted_detaches` does not take it and `drop` refuses for ever
  (`Orphaned`).
* website, internals/database-schema.md, says that a daily leaf of the forever class that
  holds rows is kept; one that gains a late row after the check of emptiness is detached and
  kept, but no reader sees it.
* A leaf that coverage created is not seen by readers until the publication that follows.

## 4. Fairness

* Steps that a loop repeats are weakly fair: claims, buffered dispatches, the reaper's
  passes, recovery, the consumption of the outbox. The loops poll on a timer, so a
  notification that is lost delays them only.
* Steps of an execution are weakly fair as long as its worker lives: user code is assumed
  to end, which the code's own timeout cannot force either.
* Clocks advance: deadlines of leases, of ages and of beats are reached when nothing
  renews them. The passing of `good_until` is not forced, since no property waits for it.
* `Acquire` (advisory locks) and the steps of `WorkflowTree` that wait for a row lock
  (`Climb`, `Visit`) are strongly fair: PostgreSQL serves the waiters of a lock in turn.
* Every definition of a tree is known to some worker that gets its turn at the passes:
  `BeginLaunch` of a READY child is weakly fair. Where no worker knows it `TreeEnds` fails as
  section 3 says.
* In `nodes_pair` recovery covers what the code's case 0 covers, PENDING nodes all of whose
  dependencies are terminal (`RecoverPending`), though a re-evaluation after a resume
  may begin for more nodes.
* `Scheduler`: a dead process is restarted, loops tick, a live task runs and time passes. An
  insert that is tried again and again succeeds some time, so `Heal` is strongly fair.
* `WorkflowRecovery`: passes of the living reapers go on, and the claim of a dead or slow
  one lapses.
* `HistoryPartitions`: a worker goes on with what it began, transactions end, results are
  consumed and days pass. A worker's pass gets from coverage to the candidates of its
  pruning again and again, which is strong fairness of those.
* No fault and no control is ever fair: nobody has to crash, pause or cancel.

## 5. Proofs

`TaskLifecycle_proofs` proves for any set of tasks and workers, any retry budget and any
number of faults, from `LifecycleAssumption` alone:

| Theorem | Statement |
|---|---|
| `Inductive` | `Spec => []IInv` |
| `TypeCorrect` | `Spec => []TypeOK` |
| `OneRun` | `Spec => []OneRunPerClaim` |
| `LatestRun` | `Spec => []LatestRunSettles` |
| `Ledger` | `Spec => []AttemptLedger` |
| `Starts` | `Spec => []StartsBounded` |
| `LostRetry` | `Spec => []LostRetryCannotFail` |
| `SupersededQuiet` | `Spec => SupersededOnlyExpires` |
| `Refines` | `Spec => ImplementsContract` |

The invariant `IInv` is `TypeOK`, four facts per task, one per dispatch, and
`OneRunPerClaim`. It is needed because none of the properties is inductive alone:

* `ClockAt(t)`: no ordinal on the row is ahead of `gen[t]`, so that a new claim is
  different from every old one (without it a claim could bring an old dispatch back); a
  CLAIMED row has a claim newer than its last start, a RUNNING row was started by its
  claim.
* `SettledAt(t)`: the row is gone exactly when the history has a verdict, and what the
  verdict says of a run is what the archived row says.
* `LedgerAt(t)`: the attempt rows and `retry` agree; the crash retry and the retry by the
  worker write the same row number, from the row and from the snapshot `rc`.
* `StartsAt(t)`: each start is a counted retry, or the current run, or the last one.
* `BornAt(d)`: the ordinal of a dispatch was issued; if its user code ran, no older start
  is on the row; the dispatch of the current run carries that run's retry count; once its
  requeue went unheard the row is no longer its RUNNING row.

The proof has a lemma per action (or per group that changes a row in the same way) and
per conjunct the action can disturb, first for one task and one dispatch, then lifted to
all of them; the last steps combine them with the temporal rule.

`SupersededQuiet` is an action property of the same invariant: a retry is fenced by
`started_at` only, and that a RUNNING row was started by its claim makes it a fence of the
claim as well.

`Refines` maps every step of `TaskLifecycle` to a step of `TaskContract`
or to a stutter, under `IInv`: a start is a newer run because a CLAIMED row's claim is
newer than its last start; a terminal write reports the run it belongs to because a
RUNNING row was started by its claim; a retry by the worker is within the budget because
the dispatch of the current run knows the row's retry count; only a task with a deadline
expires. Without the invariant the fences alone would give none of these.

`Starts` bounds the starts of a task by its counted retries; no run lists it.

`Scheduler_proofs` proves for any processes, versions, slots, caps and faults, from
`SchedulerAssumption`:

| Theorem | Statement | Argument |
|---|---|---|
| `TypeCorrect` | `Spec => []TypeOK` | a process in a batch holds a row it has read and a slot not beyond the last one due (`Sound`) |
| `NoSkip` | `Spec => []NoSlotSkipped` | everything promised below the slot of a process in a batch was enqueued, whether or not it still has the lock: it may store its slot at any time (`SkipInv`) |
| `InOrder` | `Spec => SlotsInOrder` | without a fault the process inside holds the lock, so it is alone, and what was enqueued lies below its slot, or below the stored one when nobody is in a batch (`OrderInv`) |

`TaskSends_proofs` proves for any sends, ids, keys, attempts and lost connections, from
`SendsAssumption`:

| Theorem | Statement |
|---|---|
| `TypeCorrect` | `Spec => []TypeOK` |
| `OneTaskPerKey` | `Spec => []KeyHasOneTask` |
| `AnswersTrue` | `Spec => AnswersAgree` |

The invariant adds what an open transaction may rely on until it commits (`TxOK`): its key is
free, the row it inserts is absent, the row it binds is live and under no other key; and
that the unique indexes and the row lock admit one transaction at a time (`Exclusive`).
`KeyHasOneTask` alone is not inductive: a commit would not know that the key is still free.
`AnswersTrue` needs more (`AInv`): the task of a live reservation has the command that
reserved it, that of a closed one is in history, and what a transaction read in an earlier
statement is still so in the later one (a reservation it saw stays, the row it binds
matches, `verify` is reached without a key only).

`WorkflowRecovery_proofs` proves for any flows, reapers, page sizes and faults, from
`RecoveryAssumption`:

| Theorem | Statement |
|---|---|
| `TypeCorrect` | `Spec => []TypeOK` |
| `OneAudit` | `Spec => []OneFinalizer` |
| `ResultOnce` | `Spec => []AppliedOnce` |

`OneFinalizer` is inductive with the types of the passes and of the claim (`PassInv`): a
lapsed claim is not given out while a check shares it. `ResultOnce` needs that a recorded
result is open until its progression is committed (`ResultAt`), and that whoever is about
to consume has read a row (`ReadsOK`); without it a consumption of a row that was never
written would drop it as already applied. The bound on the attempts of a row in `TypeOK` is
not inductive: two reapers that discovered the row before it reached the bound both count.
What holds is that the attempts and the passes that hold the row are together within the
bound and one for each reaper (`CountAt`).

`ClaimCaps_proofs` proves for any workers, tasks, queues, caps, lapses and crashes, from
`CapsAssumption`:

| Theorem | Statement |
|---|---|
| `InvariantHolds` | `Spec => []IInv` |
| `TypeCorrect` | `Spec => []TypeOK` |
| `CapsRespected` | `Spec => []CapsHeld` |
| `BudgetRespected` | `Spec => []WorkerBudgetHeld` |
| `LocksNeverCycle` | `Spec => []NoLockCycle` |

A row is charged to a cap while it is in flight, and also while its lease has lapsed under
a live owner, because the owner renews it without asking. The caps alone are not inductive
for two reasons. A renewal would break them: with charges it changes nothing, and a lapse
is paid for by `lapses`. And a batch is taken a statement after it was counted: for a
worker about to take, the charge and what it counted as free fit the cap together
(`ClusterCharge`, `QueueCharge`, `WorkerCharge`), which no other worker can spoil, because
each key is held by one worker at a time and whoever takes holds all keys of its pass
(`LocksSound`). Locks are taken in ascending order, so the worker that holds the greatest
key of all is never blocked.

`WorkflowNodes_proofs` proves for any graph, joins, context sources, policy of failures,
controls and faults, from `NodesAssumption`:

| Theorem | Statement |
|---|---|
| `InvariantHolds` | `Spec => []IInv` |
| `TypeCorrect` | `Spec => []TypeOK` |
| `LiveTasksLinked` | `Spec => []LiveTaskLinked` |
| `NoNodeStranded` | `Spec => []NodeNeverStranded` |
| `OneOutcome` | `Spec => []OneOutcomePerNode` |
| `JoinsRespected` | `Spec => []JoinRespected` |
| `StoppedStays` | `Spec => StoppedAdvancesNothing` |
| `Refines` | `Spec => ImplementsWorkflow` |

`IInv` says of each task (`TaskSound`) that it is linked while it lives and once it ended with a
result, and that only a cancel or an expiry cancels it; of each node (`NodeSound`) that it links a task
exactly when it was sent out, shows the outcome of that task, and, while the workflow may
continue, has a task or a result to wait for; and that every start and skip is justified.
The link is what makes it inductive: a stale dispatch or a late stop finds its own
generation no longer linked, or the node no longer where it read it. Each transaction is
shown once to keep the rows `Good` and to be `Lawful` towards a workflow that ended; the
actions then only differ in which transactions they run. A justified start stays justified
because it holds for every way the open dependencies may turn out, and of the skips only
their being a least fixed point is used.

`Refines` maps every transaction to a step of `WorkflowContract` or to a stutter, under `IInv`
and one more invariant (`EndedSound`): a stopped workflow has no PENDING node, and one that
ended by itself has only ended nodes. Without it a late stop, or a filter that acts on an
old list, might take back a node of a workflow that is already final. The steps rest on three facts. A
node's linked task alone tells what the contract sees of its code (`LinkedTaskTells`), since
older tasks never return a result. The engine's verdicts by counting agree with those over
all futures of the dependencies (`VerdictsAgree`). And a step of phase 2 forgets no node whose
last dependency ended with it (`PromoteView`), because the skips are closed under their own
consequences.
`StoppedAdvancesNothing` speaks of task rows, which the contract does not have; it is proved
for every instance and no run lists it.

`WorkflowTree_proofs` proves for any tree of flows, controls and faults, from
`TreeAssumption`:

| Theorem | Statement |
|---|---|
| `InvariantHolds` | `Spec => []IInv` |
| `TypeCorrect` | `Spec => []TypeOK` |
| `TreeAgree` | `Spec => []TreeAgrees` |
| `CancelReaches` | `Spec => []CancelReachesChildren` |
| `PauseCovers` | `Spec => PauseCoversTree` |

The relation of a parent's status, its child's node and the child's status (`Edge`) holds
in the committed rows and in the view of each open transaction (`TxSound`), which holds the
rows it changes, so that several may commit in any order (`LocksApart`). `PauseCovers` and
`CancelReaches` follow from what the walk still has before it: a running child of a flow
the pause changed, or a live child of a cancelled flow, was found already or its parent has
yet to be scanned (`PauseWalk`, `CancelWalk`). A transaction that starts a flow under a
paused parent would break that, and cannot exist: it holds the parent. A failed node has
a child that ended otherwise than completed, or none if its definition is one that some
worker lacks; of an overrun child (`overrun`) `Edge` keeps only that its node is FAILED, and
`TxKept` shows that a transaction is not disturbed when a child of a flow it does not hold
becomes one. `FlowsPresent` says that the parent of a node about to be failed exists.

`HistoryPartitions_proofs` proves for any workers, rows, durations and faults, from
`PartitionAssumption`:

| Theorem | Statement |
|---|---|
| `InvariantHolds` | `Spec => []IInv` |
| `TypeCorrect` | `Spec => []TypeOK` |
| `WantedStay` | `Spec => []WantedRowsStay` |
| `ReadersStay` | `Spec => [](Torn \/ ReadersIntact)` |

What was marked for its detach is expired, and one pruner at a time works on it
(`PrunerAt`, `OnePruner`). A row being inserted is of a day so recent that its finite leaf
cannot have expired, so no result comes to a finite leaf after the look at its blockers. In
a daily leaf of the forever class it can; then it is late, and the drop looks again
(`RowAt`).

`ReadersIntact` is false for some numbers of deaths and days, so the theorem says what
breaks it: `Torn`, a state after a death in which the functions name a leaf that the manifest
does not. Without a death the readers are intact for any number of days, and after any
number of deaths as soon as the manifest is as wide as the functions. The invariant
(`RInv`) says that a leaf a worker read is still there or the worker is overtaken
(`SelectionAt`), what functions and manifest hold between the statements of the pruner
(`WrittenAt`), and that the manifest names no dropped leaf (`PublishedSound`). The
open-ended leaf, which never expires, is in every publication: by it a pruner notices that
coverage filled the manifest between its two statements.

### What is checked by TLC only

* The liveness properties (`EventuallySettled`, `BacklogDrains`, `WorkflowsSettle`,
  `TreeEnds`, `PassesReachAll`, `DueIsServed`, `ExpiredGo`): they rest on fairness, which
  is out of the prover's reach.
* `ReadersIntact` after a death that left a publication torn: within the bounds of its run
  no leaf is dropped under such a publication, beyond them it happens (section 3).

With this exception every invariant and action property of the passing runs is stated by
a theorem.
The parameters of the theorems include every bound of the models, so none of them rests on
the size of an instance; it rests on the atomicity of the steps (section 6).

## 6. What is not modelled

* Success policies and the merging of arguments into a node's call: functions of data that
  no other actor changes.
* Cutover and transcode of the history: run once by an operator, in batches that a marker
  lets him resume.
* Result waiting (`get_result`, `SharedNotifyListener`): it only reads; a wake-up that is
  lost is made up for by the re-check after subscribing and by polling every 5 seconds.
* Of the partitions: passes without a gate, leaves of the heartbeat table, the conversion of
  the forever class, index repair, the archive's maintenance, quarantine before a detach.
* Snapshot rules inside one statement (worker/recovery.rs:58): a statement that waited for
  a lock re-checks its own conditions, which the models take as one step.
* In `WorkflowRecovery` the renewal of a claim and the lock on it are one step, and the
  retries of phase 2 by the worker itself (worker/execution.rs:1856), which nobody counts,
  are left to the passes. `on_subworkflow_complete` reads the parent's status without a
  lock, which `WorkflowTree` joins with the update that follows.
* Delays: a retry may become due at any time, thresholds are facts and not numbers.
  Priorities and the order of candidates: a batch is any maximal one.
* Notifications, HTTP, command line, codec, macros, monitoring: they do not change what
  the rows may go through. The registries do: which tasks a worker knows is a constant of
  `TaskLifecycle`, which definitions of children `WorkflowTree` leaves to each step; how they
  are built is not modelled.
* Transactions are atomic steps except where their statement order matters to others: the
  locks of `WorkflowTree` and `ClaimCaps`, the statements of a send in `TaskSends`, and the
  publication in `HistoryPartitions` are taken apart.

## 7. Plan

1. Done: `TaskLifecycle` and `TaskContract`, `ClaimCaps`, `WorkflowNodes`,
   `WorkflowTree`, `WorkflowRecovery`, `Scheduler`, `TaskSends`, `HistoryPartitions`.
2. Done: the theorems about each of them (section 5).
3. Done: `WorkflowContract`, the abstract workflow a client sees, refined by `WorkflowNodes`
   under the invariant that is proved of it.
4. Success policies, cutover, result waiting.

Each proof module EXTENDS the module it is about; no module that is proved about uses a
RECURSIVE operator: what a result skips and what a start starts are least sets.
