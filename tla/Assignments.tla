---------------------------- MODULE Assignments ----------------------------
(* How tasks and their dependencies get from the store of the leader to one *)
(* node and how their status gets back: the assignment stream of the        *)
(* dispatcher (Dispatcher.Assignments, assignmentSet), the session of the   *)
(* agent, the worker with its task database and task managers, and the      *)
(* status reporter; sessions break and the agent crashes and restarts.      *)
(*                                                                          *)
(* A task manager is what TaskManager shows it to be: an operation moves    *)
(* the state forward or leaves it, and the state is then reported.  The     *)
(* dispatcher's queue of status updates (Dispatcher) is collapsed into the  *)
(* write it leads to.                                                       *)
EXTENDS Naturals, Sequences, FiniteSets

CONSTANTS
  Tasks,       \* tasks of this node
  Secrets,     \* secrets
  Configs,     \* configs
  Deps,        \* Deps[t]: the secrets and configs task t refers to
  Missing,     \* those that are not in the store, or cannot be read
  NoTask,
  MaxEvents    \* bound on what comes from outside: tasks that are shut down
               \* or deleted, crashes of the agent, sessions that break and
               \* controllers that cannot be resolved, together

Resources == Secrets \cup Configs

ASSUME AssignmentsAssumption ==
  /\ Deps \in [Tasks -> SUBSET Resources] /\ Missing \subseteq Resources
  /\ Secrets \cap Configs = {} /\ Tasks \cap Resources = {}
  /\ IsFiniteSet(Tasks) /\ NoTask \notin Tasks
  /\ MaxEvents \in Nat

(* The task states told apart here, in their order: Active stands for       *)
(* ACCEPTED to RUNNING, Final for COMPLETE and beyond.  None is no task, no *)
(* status.                                                                  *)
None == 0
Pending == 1
Assigned == 2
Active == 3
Final == 4

(* Desired states.                                                          *)
Run == 1
Shut == 2

VARIABLES
  store,     \* the leader's store: state and desired state of each task
  stream,    \* the Assignments handler runs
  events,    \* its watch queue
  aset,      \* its assignmentSet
  pipe,      \* messages sent and not yet received by the agent
  up,        \* the agent runs
  session,   \* the agent has a registered session
  synced,    \* the worker has had a complete set since the agent started
  db,        \* the worker's database: desired state and status of each task
  tx,        \* a write transaction of the database: what it will commit, or NoTx
  mgr,       \* w.taskManagers: state and desired state, NoMgr when none
  pending,   \* a status a task manager has yet to report
  held,      \* the secrets and configs the executor holds
  rq,        \* the reporter's map of statuses
  reporting, \* worker.Report has been started for a new session
  sending,   \* the status the reporter is sending
  used       \* how many events of each kind there were

streamVars == <<stream, events, aset, pipe>>
workerVars == <<db, tx, mgr, pending, held>>
reporterVars == <<rq, reporting, sending>>
vars == <<store, stream, events, aset, pipe, up, session, synced, db, tx, mgr, pending,
          held, rq, reporting, sending, used>>

NoRecord == [state |-> None, desired |-> Run]
NoMgr == NoRecord
NoTx == <<>>
NoChange == [action |-> "none", task |-> NoRecord]
NoChanges == [k \in Tasks \cup Resources |-> NoChange]
EmptySet == [tasks |-> [t \in Tasks |-> NoRecord],
             using |-> [r \in Resources |-> {}],
             changes |-> NoChanges]
NoSend == [task |-> NoTask, state |-> None]

(* n events of a kind.                                                      *)
Spend(kind, n) ==
  /\ used["changes"] + used["crashes"] + used["breaks"] + used["rejects"] + n <= MaxEvents
  /\ used' = [used EXCEPT ![kind] = @ + n]

Change == Spend("changes", 1)

----------------------------------------------------------------------------
(* assignmentSet                                                            *)

Update(task) == [action |-> "update", task |-> task]
Removal == [action |-> "remove", task |-> NoRecord]

(* assignSecret and assignConfig: a dependency that has to be sent for task *)
(* t, a secret whenever t starts to use it, since its driver may give each  *)
(* task its own value, a config when it is the first user.  One that cannot *)
(* be had is not sent, but has its users.                                   *)
MustSend(a, r, t) ==
  /\ r \notin Missing
  /\ IF r \in Secrets THEN t \notin a.using[r] ELSE a.using[r] = {}

(* addTaskDependencies.                                                     *)
AddDependencies(a, t) ==
  [a EXCEPT !.using = [r \in Resources |-> IF r \in Deps[t] THEN @[r] \cup {t} ELSE @[r]],
            !.changes = [k \in DOMAIN @ |-> IF k \in Deps[t] /\ MustSend(a, k, t)
                                            THEN Update(NoRecord) ELSE @[k]]]

(* Mutated form of Unused: the other users are forgotten.                   *)
UnusedByTask(a, r, t) == TRUE

(* releaseDependency: no task but t uses r.                                 *)
Unused(a, r, t) == a.using[r] \subseteq {t}

(* releaseTaskDependencies.                                                 *)
ReleaseDependencies(a, t) ==
  [a EXCEPT !.using = [r \in Resources |-> IF r \in Deps[t] THEN @[r] \ {t} ELSE @[r]],
            !.changes = [k \in DOMAIN @ |-> IF k \in Deps[t] /\ Unused(a, k, t)
                                            THEN Removal ELSE @[k]]]

(* The agent has nothing to learn from an update that leaves all but the    *)
(* status as it was, once the task is past ASSIGNED.                        *)
NoNews(a, t, task) ==
  /\ a.tasks[t].state # None /\ a.tasks[t].desired = task.desired
  /\ task.state > Assigned

(* addOrUpdateTask.                                                         *)
addOrUpdateTask(a, t, task) ==
  LET known == [a EXCEPT !.tasks[t] = task]
      new == a.tasks[t].state = None
      sent(b) == [b EXCEPT !.changes[t] = Update(task)]
  IN CASE task.state < Assigned -> a
       [] NoNews(a, t, task) /\ task.state > Active -> ReleaseDependencies(known, t)
       [] NoNews(a, t, task) /\ task.state <= Active -> known
       [] OTHER -> sent(IF new /\ task.state <= Active THEN AddDependencies(known, t)
                        ELSE known)

(* removeTask.                                                              *)
removeTask(a, t) ==
  IF a.tasks[t].state = None THEN a
  ELSE ReleaseDependencies([a EXCEPT !.changes[t] = Removal, !.tasks[t] = NoRecord], t)

(* The set a stream starts with: all tasks of the node.                     *)
SnapshotSet ==
  LET seen == {t \in Tasks : store[t].state >= Assigned}
      live == {t \in seen : store[t].state <= Active}
  IN [tasks |-> [t \in Tasks |-> IF t \in seen THEN store[t] ELSE NoRecord],
      using |-> [r \in Resources |-> {t \in live : r \in Deps[t]}],
      changes |-> [k \in Tasks \cup Resources |->
                     CASE k \in seen -> Update(store[k])
                       [] k \in UNION {Deps[t] : t \in live} \ Missing -> Update(NoRecord)
                       [] OTHER -> NoChange]]

----------------------------------------------------------------------------
(* The leader                                                               *)

(* The watch of a stream: updates and deletions of the tasks of the node.   *)
Publish(t, task) ==
  IF stream THEN Append(events, [task |-> t, new |-> task]) ELSE events

Write(t, task) ==
  /\ store' = [store EXCEPT ![t] = task]
  /\ events' = Publish(t, task)

(* The scheduler assigns a task to the node.                                *)
Schedule(t) ==
  /\ store[t].state = Pending
  /\ Write(t, [store[t] EXCEPT !.state = Assigned])
  /\ UNCHANGED <<stream, aset, pipe, up, session, synced, workerVars, reporterVars, used>>

(* An orchestrator shuts the task down.                                     *)
SetShutdown(t) ==
  /\ store[t].state \in Assigned..Final /\ store[t].desired = Run
  /\ Change
  /\ Write(t, [store[t] EXCEPT !.desired = Shut])
  /\ UNCHANGED <<stream, aset, pipe, up, session, synced, workerVars, reporterVars>>

(* The reaper removes a task that has ended.                                *)
DeleteTask(t) ==
  /\ store[t].state = Final
  /\ Change
  /\ Write(t, NoRecord)
  /\ UNCHANGED <<stream, aset, pipe, up, session, synced, workerVars, reporterVars>>

(* Mutated form of CanOpen: only the first session opens a stream.          *)
CanOpenOnce == up /\ session /\ ~stream /\ ~synced

(* session.watch opens a stream for each session.                           *)
CanOpen == up /\ session /\ ~stream

(* Assignments: ViewAndWatch and the COMPLETE message.                      *)
OpenAssignments ==
  /\ CanOpen
  /\ stream' = TRUE /\ events' = <<>>
  /\ aset' = [SnapshotSet EXCEPT !.changes = NoChanges]
  /\ pipe' = <<[complete |-> TRUE, changes |-> SnapshotSet.changes]>>
  /\ UNCHANGED <<store, up, session, synced, workerVars, reporterVars, used>>

(* An event of the watch applied to the set.                                *)
Apply(a, e) ==
  IF e.new.state = None THEN removeTask(a, e.task) ELSE addOrUpdateTask(a, e.task, e.new)

(* The set once the first k events of a queue have been applied to it.      *)
Batch(a, queue, k) ==
  LET batch[i \in 0..k] == IF i = 0 THEN a ELSE Apply(batch[i - 1], queue[i])
  IN batch[k]

(* The batching loop takes k events, until 50 ms have passed without one or *)
(* the batch is full; what has changed is sent.                             *)
SendBatch ==
  /\ stream
  /\ \E k \in 1..Len(events) :
       LET new == Batch(aset, events, k)
       IN /\ aset' = [new EXCEPT !.changes = NoChanges]
          /\ events' = SubSeq(events, k + 1, Len(events))
          /\ pipe' = IF new.changes = NoChanges THEN pipe
                     ELSE Append(pipe, [complete |-> FALSE, changes |-> new.changes])
  /\ UNCHANGED <<store, stream, up, session, synced, workerVars, reporterVars, used>>

----------------------------------------------------------------------------
(* The worker                                                               *)

Greater(x, y) == IF x > y THEN x ELSE y

(* Mutated form of Enqueue: an update that is waiting is not replaced.      *)
EnqueueFirst(q, t, s) == IF q[t] # None THEN q[t] ELSE s

(* statusReporter.UpdateTaskStatus for task t: old updates are ignored.     *)
Enqueue(q, t, s) == Greater(q[t], s)

(* exec.Resolve: what is written and reported for a task that starts with   *)
(* status s.  The task itself, which its manager is given, keeps s.         *)
Resolved(s, ok) ==
  IF ok THEN Greater(s, Active) ELSE IF s <= Active THEN Final ELSE s

(* Mutated form of Stored: the status on disk is overwritten.               *)
StoredAnew(t, s) == s

(* "we may have still seen the task": the status on disk wins over the one  *)
(* that is assigned.                                                        *)
Stored(t, s) == IF db[t].state # None THEN db[t].state ELSE s

(* The tasks with a manager that a complete set does not list.              *)
Unlisted(changes) ==
  {t \in Tasks : mgr[t] # NoMgr /\ changes[t].action # "update"}

Listed(changes, action) == {k \in DOMAIN changes : changes[k].action = action}

(* reconcileSecrets and reconcileConfigs: a complete set replaces, a change *)
(* adds and removes.                                                        *)
Reconciled(msg) ==
  LET old == IF msg.complete THEN {} ELSE held \ Listed(msg.changes, "remove")
  IN old \cup (Listed(msg.changes, "update") \cap Resources)

(* worker.Assign or worker.Update, under w.mu: dependencies first, then     *)
(* tasks; in bad the tasks whose controller cannot be resolved.  Managers   *)
(* start and statuses are given to the reporter before the transaction is   *)
(* committed.                                                               *)
Reconcile(msg, bad) ==
  LET upd == Listed(msg.changes, "update") \cap Tasks
      rem == IF msg.complete THEN Unlisted(msg.changes)
             ELSE Listed(msg.changes, "remove") \cap Tasks
      started == {t \in upd : mgr[t] = NoMgr}
      status(t) == Stored(t, msg.changes[t].task.state)
  IN /\ bad \subseteq started
     /\ held' = Reconciled(msg)
     /\ tx' = [t \in Tasks |->
                 CASE t \in started -> [state |-> Resolved(status(t), t \notin bad),
                                        desired |-> msg.changes[t].task.desired]
                   [] t \in upd \ started -> [db[t] EXCEPT !.desired = msg.changes[t].task.desired]
                   [] t \in rem -> NoRecord
                   [] OTHER -> db[t]]
     /\ mgr' = [t \in Tasks |->
                  CASE t \in started -> IF t \in bad THEN NoMgr
                                        ELSE [state |-> status(t),
                                              desired |-> msg.changes[t].task.desired]
                    [] t \in upd \ started -> [mgr[t] EXCEPT !.desired =
                                                 Greater(@, msg.changes[t].task.desired)]
                    [] t \in rem -> NoMgr
                    [] OTHER -> mgr[t]]
     /\ rq' = [t \in Tasks |-> IF t \in started
                               THEN Enqueue(rq, t, Resolved(status(t), t \notin bad))
                               ELSE rq[t]]
     /\ UNCHANGED <<db, pending, reporting, sending>>

(* The agent takes a message from its session.                              *)
ReceiveAssignments ==
  /\ up /\ session /\ pipe # <<>> /\ tx = NoTx
  /\ pipe' = Tail(pipe)
  /\ synced' = (synced \/ Head(pipe).complete)
  /\ \E bad \in SUBSET Tasks :
       /\ Reconcile(Head(pipe), bad)
       /\ Spend("rejects", Cardinality(bad))
  /\ UNCHANGED <<store, stream, events, aset, up, session>>

(* exec.Do: the states in which an operation on the task of manager m may   *)
(* end.  From ASSIGNED it goes on without asking the controller, unless the *)
(* task is to be shut down, which may fail for now or be cancelled; later   *)
(* steps within Active are not told apart; a task ends by itself or because *)
(* it is to be shut down.  (A later operation that leaves the state as it   *)
(* was reports what is on disk already and is left out.)                    *)
Do(m) ==
  (IF m.state = Assigned THEN {Active} ELSE {})
  \cup (IF m.state = Assigned /\ m.desired = Shut THEN {Assigned} ELSE {})
  \cup (IF m.state = Active \/ m.desired = Shut THEN {Final} \ {m.state} ELSE {})

(* An operation of the manager of task t ends; the next one starts when its *)
(* status has been reported.                                                *)
Operate(t) ==
  /\ up /\ mgr[t] # NoMgr /\ pending[t] = None
  /\ \E s \in Do(mgr[t]) :
       /\ mgr' = [mgr EXCEPT ![t].state = s]
       /\ pending' = [pending EXCEPT ![t] = s]
  /\ UNCHANGED <<store, streamVars, up, session, synced, db, tx, held, reporterVars, used>>

PutTaskStatus(t, s) == [db EXCEPT ![t].state = s]

(* The manager's reporter: under w.mu, and in a transaction, the status is  *)
(* written and given to the listeners; a task that was removed meanwhile is *)
(* ignored.                                                                 *)
ReportStatus(t) ==
  /\ up /\ pending[t] # None /\ tx = NoTx
  /\ pending' = [pending EXCEPT ![t] = None]
  /\ IF db[t].state # None
     THEN /\ tx' = PutTaskStatus(t, pending[t])
          /\ rq' = [rq EXCEPT ![t] = Enqueue(rq, t, pending[t])]
     ELSE UNCHANGED <<tx, rq>>
  /\ UNCHANGED <<store, streamVars, up, session, synced, db, mgr, held, reporting, sending, used>>

(* The transaction is on disk, and w.mu is free.                            *)
Commit ==
  /\ tx # NoTx
  /\ db' = tx /\ tx' = NoTx
  /\ UNCHANGED <<store, streamVars, up, session, synced, mgr, pending, held,
                 reporterVars, used>>

----------------------------------------------------------------------------
(* The status reporter                                                      *)

(* run takes an entry out of the map to send it; withSession waits for a    *)
(* registered session.                                                      *)
TakeStatus(t) ==
  /\ up /\ sending = NoSend /\ rq[t] # None
  /\ sending' = [task |-> t, state |-> rq[t]]
  /\ rq' = [rq EXCEPT ![t] = None]
  /\ UNCHANGED <<store, streamVars, up, session, synced, workerVars, reporting, used>>

(* The leader's record of a task after a status report: a status that is    *)
(* older than its own is ignored, and so is a task that is gone.            *)
Updated(t, s) ==
  IF store[t].state # None /\ s > store[t].state
  THEN [store[t] EXCEPT !.state = s] ELSE store[t]

SendStatus ==
  /\ up /\ session /\ sending # NoSend
  /\ LET t == sending.task
         new == Updated(t, sending.state)
     IN /\ store' = [store EXCEPT ![t] = new]
        /\ events' = IF new = store[t] THEN events ELSE Publish(t, new)
  /\ sending' = NoSend
  /\ UNCHANGED <<stream, aset, pipe, up, session, synced, workerVars, rq, reporting, used>>

----------------------------------------------------------------------------
(* Sessions and crashes                                                     *)

(* worker.Report: the status of every task in the database.                 *)
ReportAll ==
  [t \in Tasks |-> IF db[t].state # None THEN Enqueue(rq, t, db[t].state) ELSE rq[t]]

(* A session is registered; a goroutine will report all the worker knows.   *)
Connect ==
  /\ up /\ ~session
  /\ session' = TRUE /\ reporting' = TRUE
  /\ UNCHANGED <<store, streamVars, up, synced, workerVars, rq, sending, used>>

Report ==
  /\ reporting /\ tx = NoTx
  /\ reporting' = FALSE
  /\ rq' = ReportAll
  /\ UNCHANGED <<store, streamVars, up, session, synced, workerVars, sending, used>>

(* Mutated form of DropSession: the handler goes on.                        *)
StreamOutlives ==
  /\ session' = FALSE /\ stream' = stream
  /\ events' = <<>> /\ pipe' = <<>> /\ aset' = EmptySet

(* The session ends, and with it the stream.                                *)
DropSession ==
  /\ session' = FALSE /\ stream' = FALSE
  /\ events' = <<>> /\ pipe' = <<>> /\ aset' = EmptySet

Break ==
  /\ session
  /\ Spend("breaks", 1)
  /\ DropSession
  /\ UNCHANGED <<store, up, synced, workerVars, reporterVars>>

(* A status that could not be sent goes back, unless there is a newer one.  *)
PutBack ==
  [rq EXCEPT ![sending.task] = IF @ = None THEN sending.state ELSE @]

(* A report fails, which ends the session; the leader may have had it.      *)
SendFails ==
  /\ session /\ sending # NoSend
  /\ Spend("breaks", 1)
  /\ DropSession
  /\ store' \in {store, [store EXCEPT ![sending.task] = Updated(sending.task, sending.state)]}
  /\ rq' = PutBack
  /\ sending' = NoSend
  /\ UNCHANGED <<up, synced, workerVars, reporting>>

(* The agent crashes: the database stays.                                   *)
Crash ==
  /\ up
  /\ Spend("crashes", 1)
  /\ up' = FALSE /\ synced' = FALSE
  /\ DropSession
  /\ mgr' = [t \in Tasks |-> NoMgr] /\ pending' = [t \in Tasks |-> None]
  /\ held' = {} /\ tx' = NoTx
  /\ rq' = [t \in Tasks |-> None] /\ reporting' = FALSE /\ sending' = NoSend
  /\ UNCHANGED <<store, db>>

(* worker.Init starts the tasks of the database at their stored status, in  *)
(* bad those whose controller cannot be resolved; what Resolve says of them *)
(* is stored, and Listen reports it.                                        *)
Restart ==
  /\ ~up
  /\ up' = TRUE
  /\ \E bad \in SUBSET {t \in Tasks : db[t].state # None} :
       LET started == [t \in Tasks |->
                         IF db[t].state = None THEN NoRecord
                         ELSE [db[t] EXCEPT !.state = Resolved(@, t \notin bad)]]
       IN /\ Spend("rejects", Cardinality(bad))
          /\ db' = started
          /\ mgr' = [t \in Tasks |-> IF t \in bad THEN NoMgr ELSE db[t]]
          /\ rq' = [t \in Tasks |-> started[t].state]
  /\ UNCHANGED <<store, streamVars, session, synced, tx, pending, held, reporting, sending>>

----------------------------------------------------------------------------

Init ==
  /\ store = [t \in Tasks |-> [state |-> Pending, desired |-> Run]]
  /\ stream = FALSE /\ events = <<>> /\ aset = EmptySet /\ pipe = <<>>
  /\ up = TRUE /\ session = FALSE /\ synced = FALSE
  /\ db = [t \in Tasks |-> NoRecord] /\ tx = NoTx /\ mgr = [t \in Tasks |-> NoMgr]
  /\ pending = [t \in Tasks |-> None] /\ held = {}
  /\ rq = [t \in Tasks |-> None] /\ reporting = FALSE /\ sending = NoSend
  /\ used = [b \in {"changes", "crashes", "breaks", "rejects"} |-> 0]

StreamStep == OpenAssignments \/ SendBatch

TaskStep(t) == Operate(t) \/ ReportStatus(t)

ReporterStep == (\E t \in Tasks : TakeStatus(t)) \/ SendStatus

Next ==
  \/ \E t \in Tasks : Schedule(t) \/ SetShutdown(t) \/ DeleteTask(t) \/ TaskStep(t)
  \/ StreamStep \/ ReceiveAssignments \/ Commit \/ ReporterStep
  \/ Connect \/ Report \/ Break \/ SendFails \/ Crash \/ Restart

(* What goes on by itself: goroutines run, transactions commit, batches     *)
(* end, the agent restarts and connects, and a task that is to be shut down *)
(* is.                                                                      *)
Work ==
  \/ StreamStep \/ ReceiveAssignments \/ Commit \/ ReporterStep
  \/ Connect \/ Report \/ Restart
  \/ \E t \in Tasks : ReportStatus(t) \/ (mgr[t].desired = Shut /\ Operate(t))

Spec == Init /\ [][Next]_vars

----------------------------------------------------------------------------
(* Properties                                                               *)

Record == [state : None..Final, desired : {Run, Shut}]

TypeOK ==
  /\ store \in [Tasks -> Record] /\ db \in [Tasks -> Record] /\ mgr \in [Tasks -> Record]
  /\ {stream, up, session, synced, reporting} \subseteq BOOLEAN
  /\ aset.tasks \in [Tasks -> Record] /\ aset.using \in [Resources -> SUBSET Tasks]
  /\ held \subseteq Resources
  /\ pending \in [Tasks -> None..Final] /\ rq \in [Tasks -> None..Final]
  /\ sending \in [task : Tasks \cup {NoTask}, state : None..Final]
  /\ stream => session /\ up

(* "Need to update dependencies before tasks": once the worker has had a    *)
(* complete set, whatever a task that has not ended refers to is there, if  *)
(* the leader can read it.                                                  *)
(* (Not when the leader takes the task for ended: after a crash that lost   *)
(* the end of a task it had reported, the worker starts the task again.)    *)
DependenciesHeld ==
  synced => \A t \in Tasks :
    /\ mgr[t] # NoMgr /\ mgr[t].state < Final
    /\ store[t].state \in Assigned..Active
    => Deps[t] \ Missing \subseteq held

(* Nothing is kept for long: a resource on the node is there for a task     *)
(* that has not ended, or the change that removes it is on its way.         *)
HeldForATask ==
  stream /\ events = <<>> /\ pipe = <<>> =>
    \A r \in held : \E t \in Tasks : r \in Deps[t] /\ store[t].state \in Assigned..Active

(* The reference counts of the assignment set and the order in which the    *)
(* worker applies a message give a node what its tasks need, and no more.   *)
DependenciesKept == DependenciesHeld /\ HeldForATask

Written == IF tx = NoTx THEN db ELSE tx

(* The manager of task t is at ASSIGNED, or has yet to report that it is    *)
(* not.                                                                     *)
Starting(t) == mgr[t].state = Assigned \/ pending[t] # None

(* What the leader stores of a task was true on the node: it is not ahead   *)
(* of what the worker has written or is writing.  (A crash loses what was   *)
(* reported and not committed.)  This is so but for ACCEPTED, which Resolve *)
(* has written and reported when the manager starts at ASSIGNED: a first    *)
(* operation that fails or is cancelled writes ASSIGNED after it.           *)
StoreNotAhead ==
  used["crashes"] = 0 =>
    \A t \in Tasks :
      store[t].state > Assigned /\ Written[t].state # None =>
        \/ store[t].state <= Written[t].state
        \/ store[t].state = Active /\ Starting(t)

(* Task states in the store never go back, and on the disk only from        *)
(* ACCEPTED to ASSIGNED, while the manager starts.                          *)
StatesForward ==
  [][\A t \in Tasks :
       /\ store'[t].state >= store[t].state \/ store'[t].state = None
       /\ \/ db'[t].state >= db[t].state \/ db'[t].state = None
          \/ db[t].state = Active /\ db'[t].state = Assigned /\ Starting(t)]_<<store, db>>

(* Nothing is on its way between the leader, the node and its disk.         *)
Quiet ==
  /\ up /\ stream /\ events = <<>> /\ pipe = <<>> /\ tx = NoTx
  /\ ~reporting /\ sending = NoSend
  /\ \A t \in Tasks :
       /\ rq[t] = None /\ pending[t] = None
       /\ ~(mgr[t].desired = Shut /\ mgr[t].state < Final)

(* Nothing waits for ever: until all is quiet some work can go on.          *)
WorkUntilQuiet == Quiet \/ ENABLED Work

(* The node follows the leader: when all is quiet it has exactly the tasks  *)
(* that the store has for it, with their desired state, whatever sessions   *)
(* were lost and however often the agent was restarted.  A task whose       *)
(* controller could not be resolved has no manager and is not looked for by *)
(* a complete set: it may stay on disk.                                     *)
NodeFollows ==
  Quiet => \A t \in Tasks :
    /\ store[t].state >= Assigned => db[t].state # None /\ db[t].desired = store[t].desired
    /\ store[t].state = None => /\ mgr[t] = NoMgr
                                /\ db[t].state = None \/ used["rejects"] > 0

(* The leader follows the node: when all is quiet no status on the node's   *)
(* disk is ahead of the store, whatever reports were lost with a session or *)
(* a crash, and a task that is to be shut down has ended.                   *)
LeaderFollows ==
  Quiet => \A t \in Tasks : store[t].state # None =>
    /\ db[t].state <= store[t].state
    /\ store[t].desired = Shut => store[t].state = Final

(* Leader and node agree: neither is ahead of the other once nothing is on  *)
(* its way, and the leader is not ahead in between.                         *)
Agree == NodeFollows /\ LeaderFollows /\ StoreNotAhead
=============================================================================
