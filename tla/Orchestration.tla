--------------------------- MODULE Orchestration ---------------------------
(* One service or job, replicated or global, with its orchestrator, the     *)
(* restart supervisor, the updater and the task reaper of the leader, over  *)
(* the scheduler, the agents and the users of ServiceStore.                 *)
EXTENDS Global, Jobs

(* Another manager leads: its orchestrator and reaper start anew.           *)
LeaderChange ==
  /\ Spend("leaders")
  /\ queue' = <<>>
  /\ reaper' = NewReaper(db)
  /\ sup' = NewSupervisor
  /\ upd' = NoUpdater
  /\ orch' = NewOrchestrator
  /\ UNCHANGED db

NewService(replicas) ==
  [exists |-> TRUE, replicas |-> replicas, spec |-> 1, ver |-> 1, prev |-> {},
   update |-> "none"]

(* A service that has just been created on a cluster with every node ready. *)
Init ==
  /\ left \in Scenarios
  /\ db = [tasks |-> <<>>, recent |-> [k \in Slots |-> <<>>], created |-> 0,
           ver |-> 1, service |-> NewService(left.replicas),
           nodes |-> [n \in Nodes |-> IF n \in left.hosts THEN "ready" ELSE "gone"]]
  /\ queue = <<>>
  /\ sup = NewSupervisor
  /\ upd = NoUpdater
  /\ orch = NewOrchestrator
  /\ reaper = [dirty |-> {}, cleanup |-> {}, doomed |-> {}]

(* Nothing is left to do but what the scenario has in store: no event to    *)
(* handle, no start pending, nothing to reap, no update on its way, no task *)
(* to place, to start or to stop.  An updater may be left that waits for a  *)
(* task that will never come up.                                            *)
UpdaterWaits ==
  upd.worker.pc = "await" /\ upd.worker.new \notin upd.ran \cup upd.ended

TaskAtRest(t) ==
  \/ t.state > TaskStateRunning
  \/ t.state = TaskStateRunning /\ Wanted(t) /\ db.nodes[t.node] # "down"
  \/ /\ t.state = TaskStateNew
     /\ \A n \in IF t.node = NoNode THEN Nodes ELSE {t.node} :
          db.nodes[n] # "ready"
  \/ t.node # NoNode /\ db.nodes[t.node] = "gone"

AtRest ==
  /\ queue = <<>> /\ orch.steps = <<>>
  /\ DOMAIN sup.delays = {} /\ sup.waiters = {}
  /\ reaper.cleanup = {} /\ reaper.doomed = {}
  /\ \A k \in reaper.dirty : Excess(k).running > 1 /\ Excess(k).delete = {}
  /\ upd.pc = "off" \/ UpdaterWaits
  /\ \A i \in DOMAIN db.tasks : TaskAtRest(db.tasks[i])

(* A patient user changes the service when the last change has been carried *)
(* out.                                                                     *)
User ==
  /\ left.patient => AtRest
  /\ Scale \/ UpdateService \/ RollbackService \/ RemoveService

Placement == \E i \in DOMAIN db.tasks : Assign(i)
Agents == \E i \in DOMAIN db.tasks : Start(i) \/ Stop(i) \/ Complete(i)
Orphaning == \E n \in Nodes : OrphanTasks(n)

Orchestrator ==
  \/ IF IsJob THEN JobLoop ELSE IF IsGlobal THEN GlobalLoop ELSE ReplicatedLoop
  \/ StartUpdater \/ KeepUpdater

Delays ==
  \E i \in TaskIds : DelayOver(i) \/ DelayedStart(i) \/ DelayDone(i)

Waiters == \E i \in TaskIds : WaitRestart(i)

UpdaterLoop ==
  UpdaterRun \/ TakeSlot \/ TaskFails \/ UpdaterStops \/ WorkersDone
  \/ MonitorOver \/ UpdaterGone

UpdateWorker == UpdateSlot \/ DelayAwaited \/ TaskAwaited

TaskReaper == ReaperView \/ ReaperBatch

Environment ==
  \/ User
  \/ LeaderChange
  \/ \E i \in DOMAIN db.tasks : Exit(i)
  \/ /\ left.calm => AtRest
     /\ \E n \in Nodes : NodeChanges(n) \/ RemoveNode(n)

Progress ==
  \/ Placement \/ Agents \/ Orphaning \/ Orchestrator \/ Delays \/ Waiters
  \/ UpdaterLoop \/ UpdateWorker \/ TaskReaper

Next == Environment \/ Progress

(* While something can be done by the leader, the scheduler or an agent,    *)
(* something is done.                                                       *)
Fairness == WF_vars(Progress)

Spec == Init /\ [][Next]_vars /\ Fairness

----------------------------------------------------------------------------
(* Properties                                                               *)

TypeOK ==
  /\ DOMAIN db.tasks \subseteq TaskIds
  /\ db.created \in 0..MaxTasks
  /\ \A i \in DOMAIN db.tasks :
       /\ db.tasks[i].slot \in Slots
       /\ db.tasks[i].node \in Nodes \cup {NoNode}
       /\ db.tasks[i].state \in TaskStateNew..TaskStateShutdown
       /\ db.tasks[i].desired \in TaskStateReady..TaskStateRemove
       /\ IF IsGlobal THEN db.tasks[i].node = db.tasks[i].slot
          ELSE (db.tasks[i].node = NoNode) = (db.tasks[i].state = TaskStateNew)
  /\ DOMAIN sup.delays \subseteq TaskIds /\ sup.waiters \subseteq TaskIds

(* Unless tasks are started before those they replace are stopped, or a     *)
(* task that ended may be left as it is, the orchestrator, the restart      *)
(* supervisor, its waiters and the updater, each in transactions of its     *)
(* own, never want two tasks in one slot.                                   *)
OneWantedPerSlot ==
  left.order = "stop-first" /\ left.cond = "any" =>
    \A k \in Slots :
      Cardinality({i \in InSlot(db, k) : Wanted(db.tasks[i])}) <= 1

(* A replacement runs only after the task it replaces has stopped           *)
(* (DelayStart with waitStop), whoever restarted or updated it, as long as  *)
(* nodes stay up, leaders stay, no wait times out and the history is long   *)
(* enough for a failed task to be restarted before it is reaped.            *)
NoOverlap ==
  left.orderly =>
    \A k \in Slots :
      Cardinality({i \in InSlot(db, k) :
                     db.tasks[i].state = TaskStateRunning}) <= 1

(* In each iteration of a job a slot has at most one task that is to        *)
(* complete or has completed, although reconcilers create and the restart   *)
(* supervisor replaces tasks each by what they read before; no more tasks   *)
(* of a replicated job are under way than may be at a time.                 *)
JobWithinLimits ==
  IsJob =>
    \A v \in 1..db.ver :
      LET done == {i \in DOMAIN db.tasks :
                     db.tasks[i].ver = v
                     /\ db.tasks[i].state = TaskStateCompleted}
          underWay == {i \in DOMAIN db.tasks \ done :
                         db.tasks[i].ver = v /\ Live(db.tasks[i])}
      IN  /\ \A k \in Slots :
               Cardinality(InSlot(db, k) \cap (done \cup underWay)) <= 1
          /\ ~IsGlobal => Cardinality(underWay) <= left.concurrent

(* A slot has one task, as wanted and as observed.                          *)
OneTaskPerSlot == OneWantedPerSlot /\ NoOverlap /\ JobWithinLimits

(* Until its service is changed a slot is restarted MaxAttempts times at    *)
(* most, changes of the leader included: a new leader counts the restarts   *)
(* on the tasks the reaper has left (taskinit, historyLimit).               *)
RestartsBounded ==
  left.attempts > 0 /\ db.ver = 1 /\ ~IsJob =>
    db.created <= (left.attempts + 1)
                  * (IF IsGlobal THEN Cardinality(left.hosts) ELSE left.replicas)

(* When everything has come to rest a replicated service that restarts its  *)
(* tasks has as many slots with a running task as it has replicas, whatever *)
(* exits, lost nodes, changes of scale and leader came before, unless       *)
(* reconcile was refused a write.  A global service has a running task on   *)
(* every node that is ready, and none is wanted on one that is drained,     *)
(* down or gone.                                                            *)
AllRunning ==
  LET run == {k \in Slots : \E i \in InSlot(db, k) :
                Wanted(db.tasks[i]) /\ db.tasks[i].state = TaskStateRunning}
      ready == {n \in Nodes : db.nodes[n] = "ready"}
  IN  /\ db.service.exists /\ ~orch.refused /\ ~IsJob
      /\ left.cond = "any" /\ left.attempts = 0
      /\ AtRest
      => IF IsGlobal
         THEN /\ ready \subseteq run
              /\ \A i \in DOMAIN db.tasks :
                   Wanted(db.tasks[i]) => ~InvalidNode(db, db.tasks[i].node)
         ELSE ready # {} => Cardinality(run) = db.service.replicas

(* When everything has come to rest the wanted tasks are of the service's   *)
(* specification, after an update, a rollback by the user or the updater    *)
(* and failures on the way, unless the update or the node is paused, and    *)
(* provided that the user waits with the next change for the end of the     *)
(* last.  A node that was paused during the update has caught up.           *)
Updated ==
  left.patient /\ left.order = "stop-first" /\ db.service.exists
  /\ db.service.update \notin {"paused", "rollback_paused"} /\ AtRest
  => \A t \in Range(db.tasks) :
       Wanted(t) => \/ ~IsTaskDirty(db.service, t)
                    \/ t.node # NoNode /\ db.nodes[t.node] = "pause"

(* When everything has come to rest a job that restarts its tasks has       *)
(* completed its current iteration in every slot.  A global one has on      *)
(* every node, if the nodes stay as they are, and on every node that is     *)
(* ready where it has a task.                                               *)
JobCompleted ==
  LET last == {i \in DOMAIN db.tasks : db.tasks[i].ver = db.service.ver}
      done == {i \in last : db.tasks[i].state = TaskStateCompleted}
      slots == {db.tasks[i].slot : i \in done}
      ready == {n \in Nodes : db.nodes[n] = "ready"}
  IN  /\ IsJob /\ db.service.exists
      /\ left.cond # "none" /\ left.attempts = 0
      /\ AtRest
      => IF IsGlobal
         THEN /\ left.kinds = {} => slots = left.hosts
              /\ \A i \in last \ done :
                   Live(db.tasks[i]) => db.tasks[i].node \notin ready
         ELSE ready # {} => slots = 1..db.service.replicas

(* Orchestrator, restart supervisor and updater, which work on what they    *)
(* read before the others wrote, end with the replicas of the specification *)
(* the service has, those of a job completed.                               *)
Converged == AllRunning /\ Updated /\ JobCompleted

(* Nothing is left of a removed service but tasks on nodes that are gone.   *)
NothingLeft ==
  ~db.service.exists /\ AtRest =>
    \A i \in DOMAIN db.tasks : db.nodes[db.tasks[i].node] = "gone"

(* When everything has come to rest no slot has more ended tasks than the   *)
(* history is to keep, although tick looks at a slot only when a task was   *)
(* created in it.                                                           *)
HistoryBounded ==
  db.service.exists /\ ~IsJob /\ AtRest =>
    \A k \in Slots :
      Cardinality({i \in InSlot(db, k) : db.tasks[i].state > TaskStateRunning})
        <= HistoryLimit

(* Neither a removed service nor a slot leaves tasks behind for good.       *)
CleanedUp == NothingLeft /\ HistoryBounded

(* DelayStart, called within a batch, does not wait for a goroutine that    *)
(* waits for the lock this batch holds (the comment in DelayStart has it    *)
(* block for a very short time), unless tasks are started before those they *)
(* replace are stopped.                                                     *)
LockReleased == left.order = "stop-first" => upd.worker.pc # "stuck"

(* No transaction, however old what it is based on, moves the observed or   *)
(* the desired state of a task back, and neither the reaper, whose choice   *)
(* is made before its batch, nor reconcile deletes a task of an existing    *)
(* service that is wanted and has not ended.                                *)
TasksForward ==
  [][/\ \A i \in DOMAIN db.tasks \cap DOMAIN db'.tasks :
          /\ db'.tasks[i].state >= db.tasks[i].state
          /\ db'.tasks[i].desired >= db.tasks[i].desired
     /\ \A i \in DOMAIN db.tasks \ DOMAIN db'.tasks :
          db.service.exists =>
            ~Live(db.tasks[i]) \/ db.tasks[i].state > TaskStateRunning]_vars

(* No task stays in desired state READY: it is started, or given up, also   *)
(* when the leader that delayed its start is gone.                          *)
ReadyStarts ==
  LET ready == \E i \in DOMAIN db.tasks :
                 db.tasks[i].desired = TaskStateReady
  IN  ready ~> ~ready

(* A delayed start comes to its end and holds up nobody.                    *)
StartsHappen == ReadyStarts /\ []LockReleased
=============================================================================
