# SwarmKit in TLA+

This directory holds a TLA+ model of the managers and agents of SwarmKit, the
TLC configurations that check it and the proofs TLAPS checks. Every definition
is translated from the Go source of this repository; `PROJECT.json` maps each
one to the lines it stands for.

## 1. The system

A swarm is a set of **managers**, which share a replicated store, and **agents**
on every node, which run tasks. One manager leads; it runs the control loops
below. Everything it decides is a write transaction on the store.

| Component | State it keeps | Operations | Hard behaviour | What makes it correct |
|---|---|---|---|---|
| Memory store (`manager/state/store`) | memDB, `updateLock`, watch queue | `Update`, `Batch`, `View`, `ApplyStoreActions`, `ViewAndWatch`, `Restore` | a transaction is committed by another goroutine than the one that runs it | the store is a prefix of the raft log; events follow commits; updates conflict on versions |
| Raft node (`manager/state/raft`) | WAL and snapshots, appliedIndex, wait table, leadership flag | `ProposeValue`, `Run`, `configure`, `Join`, `Leave`, `Cancel`, key rotation | loss of leadership, shutdown and restart while proposals are in flight | acknowledged writes survive; no deadlock between `Run` and a writer |
| Dispatcher (`manager/dispatcher`) | registered nodes, sessions, grace periods, queued status updates | `Session`, `Heartbeat`, `UpdateTaskStatus`, `Assignments`, expiry of a node | heartbeats race expiry, a re-registration races the old session, leadership moves | a session id admits one session; a dead node is marked down; task states never go back |
| Orchestrators (`manager/orchestrator`) of replicated and global services and of jobs | slots, restart history and delays | reconcile, restart, rolling update, reaping | events, timers and batches interleave; a delayed start outlives its reason | a slot never has two running tasks; the replica count is reached; a job runs each completion once |
| Enforcers (`manager/orchestrator/constraintenforcer`, `volumeenforcer`) | none | reject the tasks a changed node or drained volume no longer suits | they look once for each update, while the scheduler assigns | no task stays where it must not |
| Scheduler (`manager/scheduler`) | node set, unassigned and preassigned tasks, pending volumes | tick, `applySchedulingDecisions` | decisions are computed on a picture of the store and committed later | no node over-committed, no decision undone, no task left waiting when it could run |
| Allocator (`manager/allocator`, `cnmallocator`) | addresses, ports, votes | allocate, deallocate, restore after restart | restart with partly allocated state | no port or address handed out twice |
| CA (`ca`) | root CA, node certificates, rotation | issue, renew, rotate | a rotation replaced while nodes reconcile | a rotation ends only when every node has moved |
| Role manager (`manager/role_manager.go`) | pending reconciliations | promote, demote | demotion must leave raft before the role changes | quorum is kept by a demotion |
| Agent (`agent`) | task database, task managers, session | assignment sets, `exec.Do`, status reports | updates, controller calls and session resets interleave | observed state moves forward and is reported |
| Volumes (`manager/csi`, `manager/scheduler/volumes.go`, `agent/csi`) | publish status, queue with retries | create, publish, unpublish, delete | four components change the publish statuses, one of them from what it read before a slow call | a volume in use is not taken away, an unused one is; none is deleted while a node has it |
| Control API (`manager/controlapi`) | none of its own | CRUD on objects with versions | concurrent writers | references between objects hold |
| Watch queue, logs, remotes, keys | subscriptions, weights, key rings | publish, subscribe, select, rotate | slow readers | bounded queues, no lost subscription |

The interactions: orchestrators, scheduler and allocator watch the store and
write to it; the dispatcher serves the store's tasks to agents and writes their
reports back; the raft node applies the log to the store and tells `manager.go`
when leadership is won or lost, which starts and stops all the loops.

The repository also keeps a hand-written TLA+ model of the task life cycle in
`design/tla`. It specifies the intended design; the modules here are derived from
the Go code and check what the code does.

## 2. Plan

The modules are written in the order of what the rest depends on: the store that
everything is written to, the session that tells who is alive, the path of a task
to its node and back, and then the loops that decide.

| Order | Module | Composes | State |
|---|---|---|---|
| 1 | `RaftStore` | writer, wait table, Run loop of every manager | done, proved |
| 2 | `Dispatcher` | session handlers, timers, update queue, agents | done, proved |
| 3 | `TaskLifecycle`, `TaskManager` | loop, operations, timers; refines the life cycle | done, proved |
| 4 | `Assignments` | store, assignment stream, worker, database, reporter | done, proved |
| 5 | `ServiceStore`, `Restart`, `Reaper`, `Updater`, `Replicated`, `Global`, `Jobs`, `Orchestration` | one replicated or global service or job with its orchestrator, restart supervisor, task initialisation, updater and reaper, over abstract agents and scheduler | done |
| 6 | `NodeInfo`, `ClusterStore`, `VolumeManager`, `Enforcers`, `Scheduler` | scheduler, CSI manager, enforcers, the volume reports of dispatcher and agents, over an abstract rest of the swarm | done, proved |
| 7 | `Membership` | raft membership, role manager, node process | planned |
| 8 | `RaftKeys` | DEK rotation, snapshots, crashes | planned |
| 9 | `Allocator` with ports, `RootRotation`, `LogBroker` | one each | planned |

Abstract specifications worth stating: the life cycle of a task (stated, refined
by `TaskManager` with `INSTANCE ... WITH`), a store that is a prefix of one log
(stated as an invariant of `RaftStore`), a set of slots with one wanted task each
(stated as an invariant of `Orchestration`), an allocation that is a partial injection
(for the port and address allocators).

Theorems worth proving next: of the scheduler, that no task waits in vain
(`NoneWaitsInVain`); of the orchestration, what no transaction does to a task
(`TasksForward`) and one wanted task per slot.

## 3. The modules and the code

**`RaftStore`** — One writer per manager holds `updateLock`; its program counter
walks through `MemoryStore.update` and `processInternalRaftRequest`: `BeginTx`,
`Register` (wait table), `CheckLeadership` (`signalledLeadership`), `ProposeSend`
and `ProposeReturn`, `WaitTriggered` or `WaitCancelled`, `PublishTx` or `AbortTx`.
The Run loop of every node walks through `Node.Run`: `TakeReady`, `CancelAll` when
leadership is lost, and for each committed entry `TriggerTake` and `TriggerRun`
(the entry has a waiter), or `NoWaiter` and `ApplyStoreActions` (it has none).
`commitGuard` is the token that decides whether the callback or the error path of
the writer ends the transaction. etcd/raft is external: a committed log, the
uncommitted tails and who believes to lead; `Elect` may adopt any prefix of a tail
that still follows the log. `CrashRestart` reloads the snapshot and replays the
WAL; `Cancel` is the graceful shutdown.

**`Dispatcher`** — `regs` lists every `registeredNode` made, `nodes` is the node
map, `armed` and `expiring` the heartbeat timers and their callbacks, `down` and
`orphaning` the same for down nodes. A Session handler (`rpc`) goes through
`register`, `markNodeReady` with its condition variable, `nodes.Add` and the
stream loop. `TakeUpdates`, `WriteUpdates`, `EndUpdates` are `processUpdates`.
`StopCancel`, `StopBroadcast`, `StopClean` are the three regions of `Stop`; `Run`
fills `nodes` or `down` from the store as `markNodesUnknown` does. The agent
connects, beats, reports, crashes and restarts. `left` holds what the scenario
still allows the environment to do; the scenarios of a run are in `MCDispatcher`.

**`TaskManager`** — The loop of `taskManager.run`: one action per branch of its
`select`, and a record per goroutine that runs an operation. `Do` and `Resolve` are
`exec.Do` and `exec.Resolve` as functions of the outcome of the controller. An
operation may be refused its update by the controller (`OpUpdate`), and once the agent
stops an operation may end without its status or its error reaching the loop, also
while the loop still selects.
**`TaskLifecycle`** is the abstract specification: one state forward at a time,
only as far as desired, never back. `TaskManager` instantiates it with its own
state and desired state (`Lifecycle == INSTANCE TaskLifecycle WITH ...`);
`ImplementsLifecycle` is the abstract specification under that mapping.

**`Assignments`** — One node: the leader's store, the handler of `Assignments`
with its watch queue and its `assignmentSet` (reference counts of secrets and
configs included), the messages on the stream, the agent's session, the worker
(`reconcileTaskState`, `reconcileSecrets`, `reconcileConfigs`), its bolt database
with the transaction a status is written in, the task managers reduced to what
`TaskManager` shows, and the status reporter with its retries. A manager starts with
the task as it came, ASSIGNED, while the worker has already written and reported the
ACCEPTED that `Resolve` returned. Secrets and configs that the leader cannot find or
decode (`Missing`) are left out of the set, as `assignSecret` and `assignConfig` do.

**Orchestration** — `ServiceStore` has the store of one service or job (`db`:
tasks with slot, node, observed and desired state and specification, the service,
the nodes), the events of what is committed and the abstract rest: scheduler,
agents, users, nodes. Each further module adds a part of the leader and its
variables. `Restart` is `restart.Supervisor`: `Restart`, `shouldRestart` with the
history, `DelayStart` with a goroutine per delayed start, `StartNow`, the waiters
of old tasks. `Reaper` is the task reaper: events mark slots dirty, `ReaperView`
chooses in a view and a later batch deletes. `Updater` is the update supervisor and
one updater with one worker: dirty slots, both orders, the monitored new task,
`rollback`, pause and completion, and its cancellation, for which `Update` waits.
`Replicated` is the event loop of the replicated orchestrator (`HandleCommit`),
`reconcile` with its view and batch, `tickTasks`, and `CheckTasks` of a new leader,
who starts with nothing in memory. `Global` is the global orchestrator, with a slot
on each node and its own picture of the nodes (`orch.nodes`): `GlobalHandle`,
`ReconcileServices` and `ReconcileOneNode`, each a view that plans and a later
`GlobalBatch`, and `GlobalTick`. `Jobs` is the orchestrator of jobs: `JobHandle`,
`JobView`, which plans as the reconciler of replicated or of global jobs does, and
`JobBatch`; the iteration of a job is the version of its specification, as both
change with every update. `Orchestration` composes all of them; the mode of the
scenario decides which loop runs. What differs between services and jobs elsewhere
(`shouldRestart`, `StartNow`, the tick of the reaper) is in the modules of those
parts.

**Scheduler and volumes** — `NodeInfo` has the scheduler's picture as pure
operators: `addTask`, `removeTasks`, the volumes and their users, the filters (one
operator each) and their explanation. Loops that take tasks one by one in an order nobody promises are
written as what they come to: what tasks reserve is the number of the units they
have (`Units`), `deleteTasks` takes a set of tasks out at once, and the walk of the
constraint enforcer keeps any set of tasks that some order keeps (`Keeps`). That is
what makes them provable without induction. `ClusterStore` has the store (`db`), the events the scheduler
has not handled (`queue`), the volumes the CSI manager is to look at
(`pendingVolumes`), the updates of nodes and drained volumes the enforcers have not
seen (`updates`) and the rest of the swarm: allocator, orchestrators, agents, nodes
and users. `Enforcers` has both enforcers: each finds the tasks to reject when an
update reaches it and rejects them later, one transaction each. `VolumeManager` is `csi.Manager`: `handleVolume` reads a volume,
`CallPlugin` calls the plugin once per node, `WriteBack` writes the statuses it read
with what the calls changed; `createVolume` and `deleteVolume`; the agent that lets
go of a volume and `processUpdates` of the dispatcher, which notes it; `TakeOver` is
the manager of a new leader. `Scheduler` is the event loop: `Handle` takes an event
into the picture (`s`), `Schedule` starts a pass when the timer has gathered
commits, `Plan` decides for one task of the pass, `Apply` is the batch of
`applySchedulingDecisions`, `Finish` frees volumes, gives back what was claimed for
refused decisions and queues their tasks again, `Leader` is a new leader.

`PROJECT.json` maps every definition to its lines.

## 4. The runs

| Run | Bounds | What it shows |
|---|---|---|
| `store_safety` | 2 managers, 2 transactions, 2 terms, 1 crash, 1 shutdown | stores are prefixes of the log, events follow commits, transactions are serialisable on the versions they read, acknowledged writes stay, and neither a writer nor a Run loop is stuck unless a proposal was late |
| `store_live` | the same without crash and shutdown | every transaction returns, every manager applies the whole log |
| `store_diverge` (violation) | 1 term, 1 shutdown | finding 1 |
| `store_deadlock` (violation) | 2 terms | finding 2 |
| `dispatcher_safety` | 2 handlers of one node; a broken call, an early expiry and a Stop, or a task, a late report, an early expiry and a removal | whoever is registered is watched by a timer and nothing survives a Stop (`SessionsWatched`); task states only go forward |
| `dispatcher_live` | 3 registrations and a Stop in a busy swarm; the crash of an agent and a removal | Stop returns; reports arrive although acknowledged ones are lost; a settled agent that dies is marked down and its tasks orphaned |
| `dispatcher_dead` (violation) | 1 crash while registering | finding 3 |
| `task_manager` | 2 updates, 1 temporary error, every initial state, no update while a retry timer runs | refinement of the life cycle, disk and controller up to date, whatever is asked of the loop is done in the end (`Responsive`) |
| `task_retry` (violation) | 1 update, while a retry timer runs | finding 4 |
| `assignments` | 2 tasks that share a secret and a config, a config that is missing, any 2 faults or changes | dependencies are there when needed and gone when not (`DependenciesKept`), leader and node agree when everything is quiet (`Agree`) |
| `orchestration` | 1 service or job, 2 slots, 2 nodes, 8 tasks, 28 scenarios | a slot has one wanted and one running task, a job runs no slot of an iteration twice and no more tasks at a time than it may, restarts stay within MaxAttempts across leaders, tasks and desired states only go forward, delayed starts happen and block nobody, and in the end the replicas are there in the right specification, a global service runs on every node that is ready and on no other, a job has completed, and history is bounded |
| `scheduler` | 2 nodes, 3 tasks, 7 services, 2 volumes, 25 scenarios | limits of nodes and volumes hold and tasks leave nodes and volumes that no longer suit them, the picture is the one a new leader would read, no task waits in vain, decisions are final, statuses tell where volumes are, used ones stay, unused ones are taken back, and the scheduler comes to rest |

*Why the bounds are enough.* Two managers and two terms are what a late proposal,
a lost wait and a replay need; a third manager only adds another follower, since
the committed log is already common. Two handlers are what a re-registration
races with; budgets bound the environment (failures, expiries without cause) and
never a reaction of the code. Two tasks are what a shared dependency needs. Two
updates let the second one meet the operation the first one cancelled.

*Scenarios.* The orchestration and the scheduler meet too many kinds of events to
have them all in one behaviour. A scenario (`left`) says which objects there are at
first and how often each kind of event may still happen: the initial states are the
scenarios, and within one all interleavings are explored. Each one is two to four
events of kinds that meet in the same code: for the orchestration exits with restart
conditions any and failure and with MaxAttempts, lost and drained nodes, scaling,
updates in both orders, failing updates with pause and rollback, a user's rollback,
removal and changes of the leader; the same for a global service, with nodes that are
also paused, and for jobs, whose updates are new iterations; for the scheduler those
listed in `MCScheduler`. 8 tasks are more than any scenario creates (`TypeOK`).
Versions of tasks are not bounded: what a scenario allows bounds them while the
scheduler is prompt (`left.prompt`, below); when it is not, it can refuse and queue a
task again and again, and TLC only looks for the counterexample.

Provisos, each of them an observation of section 6: `left.patient` (a user waits for
the end of an update before the next change), `left.orderly` (nodes stay up, leaders
stay, no wait times out), `orch.refused` (reconcile was refused a write),
`left.prompt` (the scheduler handles the events of its own writes before its next
pass, that is, within 50 ms), `left.ghosts` (a pending task was deleted),
`left.stale` (a task was assigned by a picture older than its node). Nodes of the
scenario that updates a global service change only at rest (`left.calm`), and where
nodes change or tasks fail in a global service the history is long enough for failed
tasks to be restarted before they are reaped. The replacement of a job's failed task
does not fail in turn, and the leader of a global job whose nodes change stays. No
node is removed in the scenarios with volumes, and no report is repeated on a removed volume.

*Fairness.* `FairSpec` of `RaftStore`: a goroutine that can run does, the raft
library delivers what is committed, and CheckQuorum makes a leader without quorum
step down. `Dispatcher`: handlers, timers and batches run, an armed timer of a
silent node fires, agents retry; `BusySpec` adds that other nodes keep reporting,
because a handler that missed a wake-up is only woken by the next batch.
`TaskManager`: goroutines run, timers fire, operations of the controller return,
except `Wait`, which returns only when the container exits or is cancelled.
`Assignments` needs none: `WorkUntilQuiet` says the system always has a step to
take until it is quiet, and `NodeFollows` and `LeaderFollows` say what holds then.
`Orchestration`: the goroutines of the leader, the scheduler and the agents go on, and
the tasks of jobs that run complete (`WF_vars(Progress)`); exits, failures and users
need not. `Scheduler`: one weak fairness over the steps of the scheduler, the enforcers,
the CSI manager with its plugin, the agents and the dispatcher together
(`WF_vars(Progress)`): the leader and its agents do not stop while one of them can go on.
It asks less than fairness of each part, and is enough because events are bounded, so no
part keeps the others waiting for ever. Calls of the plugin fail as often as the scenario
says and then succeed, as retries with back-off assume.

## 5. Findings

1. **A store can diverge from the log** (`store_diverge`). `design/store.md:183`
   says a store "will never diverge". When `Node.Cancel` aborts a transaction
   whose waiter the Run loop has just taken, the callback finds `commitGuard`
   gone and the entry is counted as applied without being written. The manager is
   shutting down, so the store is soon discarded.
2. **The Run loop and a writer can wait for each other** (`store_deadlock`). The
   check of `signalledLeadership` precedes `Propose`; a proposal that enters raft
   one term late is applied as a foreign entry, after the waits were cancelled and
   before a new transaction registers.
3. **A node can be READY with nobody watching** (`dispatcher_dead`). The wake-up
   of `markNodeReady` is lost when the batch ends before the handler waits; an
   agent that dies then leaves its node READY until some other update is queued.
4. **A retry timer makes two operations overlap** (`task_retry`). An update that
   arrives while the timer runs starts an operation; when the timer fires, the loop
   takes it for the end of that operation and dispatches another. The state of the
   task can then go back. The other properties of the task manager hold until the
   first such update (`races = 0`); the two that speak of whole behaviours, the
   refinement and `Responsive`, are checked, and the refinement is proved, when there
   is none (`MaxRaces = 0`).

Smaller observations made while modelling, without a run: a node is unblocked by
any batch, not only the one with its update, so a registered node need not be READY
in the store yet; a status report that its agent gave up can replace a newer one
until the agent's next report; the worker writes and reports the ACCEPTED of `Resolve`
but starts the manager with the task at ASSIGNED (`worker.go:544-554`), so that a first
operation that fails or is cancelled writes ASSIGNED after it: the disk goes back, and
the leader is ahead of it; an update that the controller refuses is only logged and,
where the comment at `task.go:127` has it that the manager should "always update the
controller before running", the next operation runs without it (`task.go:128-131`);
when an agent stops, a status may be on disk and not in the task (`task.go:141`); a complete assignment
set does not remove from disk a task whose controller could not be resolved; a
status is told to listeners inside the transaction that writes it, so that a crash
can lose on disk an end the leader knows of; putting back a failed report and
reporting everything on a new session are each enough alone.

## 6. Observations

What else the modules show, where the code has a behaviour that no document rules
out in so many words. "TLC" marks those met as counterexamples of a property before
it got its proviso; the others follow from the actions of the model.

Orchestration:
- `reconcile` marks tasks for removal with the objects of an earlier view; a task
  written since is refused with `ErrSequenceConflict`, which is only logged
  (`replicated/services.go:213-241`), and nothing tries again (TLC).
- The slots an updater works on are read before the old updater is cancelled
  (`update/updater.go:55`), and an event is dropped while a finished updater with the
  same specification is still in the map (`:57`): a rollback by a hasty user can be
  lost (TLC).
- A rollback that fails is paused without stopping `Run`, which completes the update
  over the pause (`updater.go:241-246`, `:308`).
- `DelayStart`, called in a batch, waits for a goroutine that waits for the lock of
  that batch, where `restart.go:445-447` has it "only block for a very short time";
  it takes start-first updates (TLC, `StartsHappen` excludes them).
- A slot whose newest task has ended and is not to be restarted counts as running;
  with restart condition none the updater creates a task without asking.
- `CheckTasks` delays starts with no old task to wait for, so after a change of the
  leader the old task may still run; the restart count is one off after scaling and a
  change of the leader; the dirty slots of the reaper are lost with the leader.
- `deleteTasksMap` deletes the tasks of a dead slot although they are shutting down;
  with a short history the reaper deletes a failed task before it is restarted.
- The updater waits without limit for a new task that was reaped with its service.

Global services:
- A node that is paused and activated again during a rolling update is reconciled in
  a view and a batch of its own (`global/global.go:376-487`) while the updater works
  on the same node: both create a task (TLC, `PausedInUpdate`).
- `foreachTaskFromNode` shuts down the tasks it read; a waiter of a delayed restart
  that creates one before the batch leaves a wanted task on a node that is down or
  drained (`:227-252`; TLC, `DownInRestart`).
- `EventDeleteTask` is not handled: with a short history, a failed task that is reaped
  before its restart is not replaced (TLC).
- The dirty slots of the reaper are lost with the leader, which shows on a node that
  is down: nothing is created there, and its history stays above the limit (TLC).
- In `reconcileOneNode` the inner loop over all services' tasks uses the service of
  the outer loop (`:428`), which matters with several services.

Jobs:
- `waitRestart` gives up on tasks with a desired state beyond RUNNING
  (`restart.go:100`), which the tasks of jobs are from their start on: a replacement
  that fails as it is started, while its delayed start is still in the map, is never
  restarted, and the job does not complete (TLC, `JobFailsTwice`).
- A task of a global job on a node that is drained or down when the leader changes is
  shut down by `FixTask` even if it completes or has completed
  (`jobs/global/reconciler.go:271-291`): once the node is ready the next event runs the
  job there a second time (TLC, `JobOnDrained`).
- The history of a global job is recorded with its node and looked up without
  (`restart.go:253`): MaxAttempts does not limit it. A replicated job that has used up
  its attempts counts the slot as free and the next event creates a new task there.
- Events of nodes are not handled: a node that was not ready when the iteration began
  gets no task of a global job, and tasks on a drained node go on, until an unrelated
  event.
- The tick of the reaper has no case for jobs (`task_reaper.go:305`): failed tasks of
  jobs, and completed ones of earlier iterations of a replicated job, stay.
- The check for underflow looks at the smaller of two differences
  (`jobs/replicated/reconciler.go:171-183`); when only one wraps, the other is used.

Enforcers:
- The scheduler compares the version of a node only for tasks that are ASSIGNED
  already: a task assigned by an older picture of the node, after the constraint
  enforcer has looked, stays on a node that no longer suits it
  (`scheduler.go:533-543`; TLC, `NodesObeyed` without its proviso).
- The transaction that rejects a task looks at its desired state again but not at its
  status: one that has ended since is overwritten with REJECTED
  (`constraint_enforcer.go:209`).
- A missing generic resource ends the loop over the tasks (`:195`): those that come
  later are not looked at.

Scheduler:
- An event of the scheduler's own write that is handled after its next pass takes the
  new assignment out of the picture again: the node is counted as free and can be
  over-committed (`scheduler.go:338`; TLC, scenarios `Stalled`).
- A deleted pending task stays in `unassignedTasks` (`:351`) and can be given a place
  in the next pass; the task that then waits does so until an unrelated event, where
  `design/scheduler.md:14-16` has it scheduled when possible (TLC).
- The version of the node is compared only for tasks that are ASSIGNED already
  (`:533`), so a node that has failed or was drained since still gets the task.
- The event of any commit starts the timer of the next pass (`:214`), that of an object
  the scheduler does not watch too; the model leaves those commits out, as they could only
  bring forward a retry of preassigned tasks.
- A wanted task of an old revision for which there is no node is dropped (`:946`).
- A task that is no longer wanted frees a place of MaxReplicas without a pass.
- With several mounts the filter passes when one volume is available, and the error
  of `chooseTaskVolumes` is only logged (`:864`).

Volumes:
- `addOrUpdateVolume` changes a copy (`volumes.go:73`): the scheduler never learns of
  a pause; it proposes the volume and is refused each time.
- `taskFitNode` reserves no volume: preassigned tasks share exclusive ones and do not
  keep them published.
- A status on its way out counts as published (`scheduler.go:589`), and
  `handleVolume` writes statuses it read before the plugin was called
  (`csi/manager.go:384`): a task can wait for its volume for ever (TLC: that an
  assigned task gets its volume is violated by two tasks and one stop).
- `freeVolumes` runs in the defer of `applySchedulingDecisions` (`scheduler.go:501`),
  while the volumes that refused decisions reserved are given back only afterwards
  (`:481-483`) and nothing asks for another pass: a task that waits for a paused volume
  is placed and refused, and the reservation it had for a moment keeps the volume on a
  node where its last user has ended (TLC, `Detached` without `Coveted`).
- Publication to a removed node is retried for ever with a store write each time,
  and the event of that write starts the back-off anew (`csi/plugin.go:219`).
- `RemoveVolume` does not ask for Drain, which the comments at
  `controlapi/volume.go:235` and `scheduler.go:575` take for granted.
- A report on a volume removed since is logged and then the missing volume is used
  (`dispatcher.go:846`).

## 7. What is proved

Every theorem holds for all values of the constants that satisfy the named assumption
of the module; TLC evaluates the assumptions on the values of each run. Where an
induction over data is needed (a batch of events, a set of tasks), it is done on a
least counterexample among the natural numbers (`Least`, `BatchInduction` in
`AssignmentsProofs`).

`RaftStoreProofs` (any number of managers, objects, terms,
transactions, crashes and shutdowns; `RaftStoreAssumption`):

- `TypeCorrect`: `TypeInv` is `TypeOK` with the facts it needs about indices: a Run
  loop is never ahead of its target, a target or snapshot never ahead of the log.
- `StoreSafe`, `EventsSafe`: `StoreInv` adds what each program counter of the
  writer and the loop says about the entry both are working on. Without it the
  callback of the loop could write an entry other than the next one.
- `AckSafe`: `AckOK` says the same for the transaction about to be acknowledged;
  it holds through shutdowns, when `StoreSafe` no longer does.
- `SerialSafe`, `DeadlockFree`: `SerialInv` adds what leadership means (`LeadOK`: the
  leader of raft is at the end of the log; a node whose Run loop takes it for the
  leader has applied no more than its raft has committed) and, until a shutdown or a
  late proposal (`Undisturbed`), that the entries on their way in raft are at most the
  one the writer waits for, at the place after everything its store holds
  (`PlacesOK`, `LocalOK`). Then the entry committed next was computed from the store
  before it, and a loop that wants `updateLock` finds no writer that waits for it. The
  two provisos are findings 1 and 2.

`DispatcherProofs` (any finite sets of nodes and streams, any tasks and scenarios;
`DispatcherAssumption`): `TypeCorrect`; `SessionsAlwaysWatched`, for which `IInv` adds
to `SessionsWatched` that the ids in calls, agents, timers and callbacks name a
registration of their own node (else a Stop could clean up after one node and leave
another's timer) and that registrations made and still possible stay within the bound;
and `TasksOnlyForward`, where the types of queued reports are all that is needed:
`processUpdates` compares states in the transaction that writes.

`TaskManagerProofs` (any number of updates, temporary errors, operations and updates
during a retry; `TaskManagerAssumption`): the invariant is
`Sane /\ (races = 0 => IInv)`. `Sane` has the types and that `cancel` is nil or cancels
an operation that runs; it holds in all behaviours and gives `TypeCorrect`. `IInv`,
which holds until an update arrives while a retry timer runs, says that there is at most
one operation and `cancel` is its cancellation (`OneOp`), that a timer, an operation and
a request to run exclude each other (`OneReason`), that the operation works on the task
of the loop but for updates, or is ahead of it by a status that will not be placed back
(`OpView`), and when disk and controller may lag (`Disk`, `Controller`). `OneReason` is
the part finding 4 breaks. From it follow `DiskAgrees`, `ControllerSafe` and `CloseSafe`,
whose properties say `races = 0` themselves. The refinement `Refinement` (a status taken
by the loop is a move of the life cycle, because `exec.Do` makes only such moves and a
greater desired state allows no less) and `Monotonic` speak of whole behaviours and
assume `MaxRaces = 0`; without it `Monotonic` is what finding 4 refutes.

`AssignmentsProofs`, `AssignmentsAgreeProofs` (any finite set of tasks, any secrets
and configs, changes and faults;
`AssignmentsAssumption`):

- `TypeCorrect`: `TypeInv` also types messages, events and
  transactions, and says that a stream that has ended, or an agent that is down,
  leaves nothing in the queue, on the wire or in memory.
- `StatesOnlyForward`: `NodeInv` says which tasks have a manager, and `AgreeInv` (below)
  that neither a task manager nor a transaction is behind what is on disk, but for a
  manager that starts at ASSIGNED over an ACCEPTED on disk. That is the one step back
  the property allows.
- `LeaderAndNodeAgree`: `Agree` speaks of a quiet system only, so `AgreeInv` says of
  every moment how far a task has come: the last event in the watch queue is what the
  store has (`EventsFollow`), the last message about a task tells what the assignment
  set has, and when none is left the node has it (`PipeFollows`), a task the leader has
  is not taken from the node (`Wanted`), and a status that the store lacks is with the
  reporter (`Reported`). A quiet system has none of the intermediate stages.
- `DependenciesAlwaysKept`: `DependencyInv` adds that the assignment set counts as
  users of a secret or config exactly its tasks that have not ended (`UsingOK`), that
  what the node will hold once it has had all that was sent is what is in use
  (`HeldFollows`), and that this is enough for every task at every prefix of the
  messages (`Supplied`). The proof needs that no event ends a task and changes its
  desired state at once (`EventsChain`).

`SchedulerProofs` (any finite sets of nodes, tasks and volumes, any services and
scenarios; `NodeInfoAssumption`, `ClusterAssumption`):

- `AttachedAlwaysRecorded`: `VolumeInv` adds that no node has a volume that is being
  deleted, that a deleted one does not come back, and (`JobOK`) which statuses
  `handleVolume` may have read, given those in the store by now: scheduler, agents and
  dispatcher move a status only along `PubStep`, so that writing back an older one
  never hides a volume the plugin has published.
- `DecisionsAreFinal`: `DecisionInv` says of every copy of a task in the queue of
  events, in the lists of waiting tasks, in the pass and in its decisions that it is of
  the stored version and then the same but for the explanation, or of an older one;
  that waiting copies are PENDING, without a node or with the one they were created
  with; and that a decision goes forward from its copy. `Refused` compares versions, so
  what is written goes forward from the stored task. It holds also when the scheduler
  is not prompt, where `WithinLimits` fails.

`SchedulerPictureProofs`, `SchedulerLimitsProofs` (the same, for a prompt scheduler:
the hypothesis `left.prompt`, which no step changes; without it TLC finds the limits
exceeded, section 6):

- `PictureInvariant`: the inductive invariant `PictureInv` says, at every moment, how
  far the picture is behind the store. The events on their way tell of each object in
  the order of its writes, the last one of what is stored (`QueueInv`). Every assigned
  task is in the picture with its node and volume, next to the claims of the pass
  under way; a copy for which no event is on its way is assigned and wanted as the
  stored task is; what others wrote is newer than the copies that wait, and the
  scheduler has seen its own writes when it looks at tasks again (`TaskPart`). What a
  node of the picture counts is what the copies on it come to, this fits it, and the
  node is the stored one but for an event on its way (`NodePart`); the users of a volume
  are the copies the scheduler placed there, no more than may share it (`VolPart`). The
  claims are part of what has to fit: that decisions passed the filters keeps this
  true, and the store never has more on a node than the picture.
- `PictureAlwaysFollows`: at rest none of the exceptions is left. Sums are numbers of
  elements of sets of units, so that adding and removing a task is a fact about
  cardinalities (`FiniteSetTheorems`) instead of an induction over the tasks.
- `UsedAlwaysStaysPublished`: a volume that `freeVolumes` takes back has no user in the
  picture, and `PictureInv` gives every task that was placed its entry there, also
  while events wait and after a change of the leader.
- `LimitsAlwaysKept`: that nodes and volumes are not over-committed follows from
  `PictureInv`. That changed limits are enforced needs `LimitInv` besides: a wanted
  task that its node or volume no longer suits is known to an enforcer, either in an
  update it has not looked at or among the tasks it is about to reject (`Guarded`, with
  `Obeys` for nodes and `Drains` for volumes), and what a pass has claimed fits the
  node as the picture has it (`ClaimsFit`), so that a decision written while the picture
  of its node is the stored one (`~left.stale`) leaves nothing for the enforcer to miss.

Model-checked only, and why: all liveness (`TxTerminates`, `Converges`,
`StopCompletes`, `StatusReportsArrive`, `SilentNodeNoticed`, `Responsive`,
`StartsHappen`, `Detached`, `Settles`) and `WorkUntilQuiet`, which speaks of ENABLED,
are outside the prover. The properties of the orchestration hold under provisos on
scenarios (section 4) that come with the bounds of a run. `NoneWaitsInVain` needs,
beyond `PictureInv`, an invariant that relates each waiting task to the filters it
failed at the last pass and to every event since that could free a place; it has not
been attempted.

## 8. What is not modelled

Consensus itself (etcd/raft is external), membership changes, key rotation and
encryption; driver secrets and log subscriptions on the path of a task; volumes
inside `Assignments` (their reports are in `VolumeManager`); the queue of the
dispatcher inside `Assignments` (it is in `Dispatcher`); the cluster messages of a
session. Of the raft node also a snapshot that cannot be restored, which is only logged
(`raft.go:621-632`), and a forced new cluster. In the orchestration: tasks without a
service, unlimited history and changes of its limit in the reaper; the time between the
read and the writes of `CheckTasks`, which are one step; the removal by force of a node
that is not down; the restart window and the delay between slots, which
need a clock, more than one worker of an updater, failure ratios above zero, placement
constraints of global services and jobs (what becomes of a task whose node no longer
meets them is in `Enforcers`; updates that change only the constraints are left out),
and several services at a time. In the scheduler: the order of preference among nodes (decision
tree, spread, recent failures), which decides between nodes that all suit, and
generic resources; the filters on plugins and platforms; a pass that fails as a whole,
which it does only when leadership is lost; tasks mount one volume. Of volumes: removal by force, the
deallocator, the back-off of the queue; the agent's part is one step. And the
components with status `not_modelled` in `PROJECT.json`, each with its reason.
