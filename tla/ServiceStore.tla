---------------------------- MODULE ServiceStore ----------------------------
(* What the orchestration of a service shares: the service, its tasks and   *)
(* the nodes in the store, the events each commit publishes to those who    *)
(* watch, and the environment, that is the control API, the scheduler, the  *)
(* dispatcher and the agents.                                               *)
(*                                                                          *)
(* Time is not modelled: a timer may fire at any moment after it is set.    *)
(* A scenario bounds how often the environment does what nothing in the     *)
(* swarm causes, so that every behaviour comes to rest.                     *)
EXTENDS Integers, Sequences, FiniteSets, FiniteSetsExt, Functions, TLC

CONSTANTS
  Nodes,        \* worker nodes, which are numbers
  MaxSlots,     \* bound on the slots of the service
  MaxTasks,     \* bound on the tasks ever created, checked by TypeOK
  Scenarios     \* what the service is like and what its environment may do

Slots == 1..MaxSlots
TaskIds == 1..MaxTasks
NoNode == 0

Modes == {"replicated", "global", "replicated job", "global job"}
Conditions == {"any", "failure", "none"}

NodeStates == {"ready", "down", "drain", "pause", "gone"}

ASSUME ServiceStoreAssumption ==
  /\ MaxSlots \in Nat /\ MaxTasks \in Nat
  /\ Nodes \subseteq Slots       \* a global service has a slot on each node
  /\ \A sc \in Scenarios :
       /\ sc.mode \in Modes
       /\ sc.hosts \subseteq Nodes   \* the nodes of the cluster
       /\ sc.replicas \in Slots      \* replicas, or TotalCompletions, at first
       /\ sc.concurrent \in Nat      \* MaxConcurrent of a replicated job
       /\ sc.cond \in Conditions     \* Restart.Condition
       /\ sc.attempts \in Nat        \* Restart.MaxAttempts, 0 for no limit
       /\ sc.history \in Nat         \* TaskHistoryRetentionLimit
       /\ sc.order \in {"stop-first", "start-first"}
       /\ sc.action \in {"continue", "pause", "rollback"}
       /\ sc.scales \subseteq Slots  \* replica counts the user may ask for
       /\ sc.updates \in Nat         \* changes of the task's specification
       /\ sc.rollbacks \in Nat       \* rollbacks the user asks for (no job)
       /\ sc.deletes \in Nat         \* removals of the service
       /\ sc.exits \in Nat           \* tasks that end by themselves
       /\ sc.nodes \in Nat           \* changes of the state of a node,
       /\ sc.kinds \subseteq NodeStates \ {"gone"}   \* to one of these
       /\ sc.calm \in BOOLEAN       \* when everything is at rest
       /\ sc.lag \in Nat             \* placements on a node no longer ready
       /\ sc.timeouts \in Nat        \* waits for an old task that time out
       /\ sc.leaders \in Nat         \* changes of the leader
       /\ sc.patient \in BOOLEAN     \* the user waits for the last change
       /\ sc.orderly \in BOOLEAN     \* the old task is always waited for
       /\ sc.orderly => /\ sc.order = "stop-first"
                        /\ sc.nodes = 0 /\ sc.timeouts = 0 /\ sc.leaders = 0
                        /\ sc.history > sc.exits

(* The states of a task told apart, in the order of the protobuf enum: New  *)
(* stands for NEW and PENDING, Assigned for those from ASSIGNED to          *)
(* STARTING, Shutdown for every state of a task that ended without success. *)
(* Ready, Running, Completed (of jobs), Shutdown and Remove are also the    *)
(* desired states.                                                          *)
TaskStateNew == 1
TaskStateAssigned == 2
TaskStateReady == 3
TaskStateRunning == 4
TaskStateCompleted == 5
TaskStateShutdown == 6
TaskStateRemove == 7

VARIABLES
  db,       \* the store: tasks, their order, the service and the nodes
  queue,    \* commits the orchestrator has not handled yet
  reaper,   \* the task reaper
  sup,      \* the restart supervisor
  upd,      \* the update supervisor and its updater
  orch,     \* the orchestrator
  left      \* the scenario and what is left of it

vars == <<db, queue, reaper, sup, upd, orch, left>>

----------------------------------------------------------------------------
(* The store                                                                *)

IsGlobal == left.mode \in {"global", "global job"}
IsJob == left.mode \in {"replicated job", "global job"}

InvalidNode(d, n) == d.nodes[n] \in {"down", "drain", "gone"}

Wanted(t) == t.desired <= TaskStateRunning

(* The same for the tasks of jobs, which no service's task differs in.      *)
Live(t) == t.desired <= TaskStateCompleted

InSlot(d, k) == {i \in DOMAIN d.tasks : d.tasks[i].slot = k}

(* orchestrator.NewTask and store.CreateTask.  The id counts the tasks, so  *)
(* that ids are in the order of creation.  A task of a global service or    *)
(* job has its node from the start.  The iteration of a job is the version  *)
(* of its specification: both change with every update.                     *)
CreateTask(d, service, slot, desired) ==
  LET i == d.created + 1
  IN  [d EXCEPT !.created = i,
                !.tasks = @ @@ (i :> [slot |-> slot,
                                      node |-> IF IsGlobal THEN slot
                                               ELSE NoNode,
                                      state |-> TaskStateNew,
                                      desired |-> desired,
                                      spec |-> service.spec,
                                      ver |-> service.ver]),
                !.recent[slot] = Append(@, i)]

SetDesired(d, ids, desired) ==
  [d EXCEPT !.tasks = [i \in DOMAIN @ |->
     IF i \in ids THEN [@[i] EXCEPT !.desired = desired] ELSE @[i]]]

DeleteTasks(d, ids) ==
  [d EXCEPT !.tasks = Restrict(@, DOMAIN @ \ ids),
            !.recent = [k \in Slots |->
               SelectSeq(@[k], LAMBDA i : i \notin ids)]]

(* A new status is newer than that of every other task of the slot.         *)
SetStatus(d, ids, state) ==
  [d EXCEPT !.tasks = [i \in DOMAIN @ |->
               IF i \in ids THEN [@[i] EXCEPT !.state = state] ELSE @[i]],
            !.recent = [k \in Slots |->
               SelectSeq(@[k], LAMBDA i : i \notin ids)
               \o SelectSeq(@[k], LAMBDA i : i \in ids)]]

----------------------------------------------------------------------------
(* What a commit publishes                                                  *)

Changed(d) ==
  {i \in DOMAIN d.tasks :
     IF i \in DOMAIN db.tasks THEN d.tasks[i] # db.tasks[i] ELSE TRUE}

Gone(d) == DOMAIN db.tasks \ DOMAIN d.tasks

Ended(d) == {i \in Changed(d) : d.tasks[i].state > TaskStateRunning}

(* The events of a commit that the orchestrator does something with.  A     *)
(* task on a valid node is of interest only if the node may change before   *)
(* the event is handled.  That of global services ignores where tasks are   *)
(* placed and that they are deleted; it looks at every change of a node.    *)
(* That of jobs looks at the tasks that ended only.                         *)
Events(d) ==
  [ended  |-> {i \in Ended(d) : Live(d.tasks[i])},
   placed |-> {i \in Changed(d) \ Ended(d) :
                 /\ left.mode = "replicated"
                 /\ Wanted(d.tasks[i]) /\ d.tasks[i].node # NoNode
                 /\ left.nodes > 0 \/ InvalidNode(d, d.tasks[i].node)},
   nodes  |-> {<<n, d.nodes[n]>> : n \in {m \in Nodes :
                 /\ d.nodes[m] # db.nodes[m]
                 /\ ~IsJob
                 /\ IsGlobal \/ InvalidNode(d, m)}},
   gone   |-> {i \in Gone(d) : left.mode = "replicated" /\ Wanted(db.tasks[i])},
   spare  |-> {i \in Gone(d) : left.mode = "replicated" /\ ~Wanted(db.tasks[i])}
              \cap DOMAIN sup.delays,
   service |-> IF d.service = db.service THEN {} ELSE {d.service}]

NoEvents == [ended |-> {}, placed |-> {}, nodes |-> {}, gone |-> {},
             spare |-> {}, service |-> {}]

(* The watch of a delayed start: the old task has ended, or its node is     *)
(* down or gone.                                                            *)
Notified(delays, d) ==
  [i \in DOMAIN delays |->
     IF \E o \in {delays[i].old} \cap DOMAIN db.tasks :
          \/ o \in Ended(d)
          \/ LET n == db.tasks[o].node
             IN  n # NoNode /\ d.nodes[n] # db.nodes[n]
                 /\ d.nodes[n] \in {"down", "gone"}
     THEN [delays[i] EXCEPT !.old = 0]
     ELSE delays[i]]

(* What the reaper takes note of.                                           *)
Reapable(t) ==
  /\ t.desired = TaskStateRemove
  /\ t.state < TaskStateAssigned \/ t.state >= TaskStateCompleted

(* Mutated form of Noted: only tasks that end now are noted.                *)
NotedEnding(r, d) ==
  [r EXCEPT
     !.dirty = @ \cup {d.tasks[i].slot : i \in DOMAIN d.tasks \ DOMAIN db.tasks},
     !.cleanup = @ \cup {i \in Changed(d) \cap DOMAIN db.tasks :
                           Reapable(d.tasks[i])
                           /\ d.tasks[i].state # db.tasks[i].state}]

Noted(r, d) ==
  [r EXCEPT
     !.dirty = @ \cup {d.tasks[i].slot : i \in DOMAIN d.tasks \ DOMAIN db.tasks},
     !.cleanup = @ \cup {i \in Changed(d) \cap DOMAIN db.tasks :
                           Reapable(d.tasks[i])}]

(* The watches of the updater: tasks of its own that came up or ended.      *)
Heard(u, d) ==
  [u EXCEPT !.ran = @ \cup {i \in Changed(d) \cap u.mine :
                              d.tasks[i].state = TaskStateRunning},
            !.ended = @ \cup (Ended(d) \cap u.mine)]

(* A transaction that leaves d in the store, by someone who leaves s in the *)
(* restart supervisor, u in the updater, r in the reaper and q of the       *)
(* queue.  The update lock must be free.                                    *)
CommitTo(q, d, s, u, r) ==
  /\ upd.worker.pc # "stuck"
  /\ db' = d
  /\ sup' = [s EXCEPT !.delays = Notified(@, d)]
  /\ upd' = Heard(u, d)
  /\ reaper' = Noted(r, d)
  /\ queue' = IF Events(d) = NoEvents THEN q ELSE Append(q, Events(d))

CommitBy(d, s, u, r) == CommitTo(queue, d, s, u, r)

Commit(d) == CommitBy(d, sup, upd, reaper)

Spend(field) == left[field] > 0 /\ left' = [left EXCEPT ![field] = @ - 1]

----------------------------------------------------------------------------
(* The control API (manager/controlapi/service.go)                          *)

PrevOf(service) ==
  {[replicas |-> service.replicas, spec |-> service.spec, ver |-> service.ver]}

Scaled(service, replicas, ver) ==
  [service EXCEPT !.replicas = replicas, !.ver = ver, !.prev = PrevOf(service),
                  !.update = "none"]

(* UpdateService with another number of replicas.                           *)
Scale ==
  /\ db.service.exists
  /\ \E k \in left.scales \ {db.service.replicas} :
       /\ left' = [left EXCEPT !.scales = @ \ {k}]
       /\ Commit([db EXCEPT !.ver = @ + 1,
                            !.service = Scaled(@, k, db.ver + 1)])
  /\ UNCHANGED orch

(* UpdateService with another specification of the task.                    *)
UpdateService ==
  /\ db.service.exists
  /\ Spend("updates")
  /\ Commit([db EXCEPT !.ver = @ + 1,
                       !.service = [Scaled(@, @.replicas, db.ver + 1) EXCEPT
                                      !.spec = db.ver + 1]])
  /\ UNCHANGED orch

(* UpdateService with Rollback.                                             *)
RollbackService ==
  /\ db.service.exists
  /\ Spend("rollbacks")
  /\ \E p \in db.service.prev :
       Commit([db EXCEPT !.service =
                 [@ EXCEPT !.replicas = p.replicas, !.spec = p.spec,
                           !.ver = p.ver, !.prev = PrevOf(db.service),
                           !.update = "rollback_started"]])
  /\ UNCHANGED orch

(* RemoveService.                                                           *)
RemoveService ==
  /\ db.service.exists
  /\ Spend("deletes")
  /\ Commit([db EXCEPT !.service.exists = FALSE])
  /\ UNCHANGED orch

----------------------------------------------------------------------------
(* Nodes, scheduler, agents                                                 *)

OnNode(d, n) ==
  {i \in DOMAIN d.tasks :
     d.tasks[i].node = n
     /\ d.tasks[i].state \in TaskStateAssigned..TaskStateRunning}

(* A node goes down, is drained or paused, or is ready again.               *)
NodeChanges(n) ==
  /\ db.nodes[n] # "gone"
  /\ Spend("nodes")
  /\ \E st \in left.kinds \ {db.nodes[n]} :
       Commit([db EXCEPT !.nodes[n] = st])
  /\ UNCHANGED orch

(* RemoveNode of a node that is down orphans its tasks in the same          *)
(* transaction, also those that were never placed. Removal by force of one  *)
(* that is not is left out.                                                 *)
RemoveNode(n) ==
  /\ db.nodes[n] = "down"
  /\ Spend("nodes")
  /\ LET tasks == {i \in DOMAIN db.tasks : db.tasks[i].node = n
                      /\ db.tasks[i].state < TaskStateCompleted}
     IN  Commit([SetStatus(db, tasks, TaskStateShutdown) EXCEPT
                   !.nodes[n] = "gone"])
  /\ UNCHANGED orch

(* The dispatcher orphans the tasks of a node that stays down.              *)
OrphanTasks(n) ==
  /\ db.nodes[n] = "down"
  /\ OnNode(db, n) # {}
  /\ Commit(SetStatus(db, OnNode(db, n), TaskStateShutdown))
  /\ UNCHANGED <<orch, left>>

(* Mutated form of Assign: the placement is not written.                    *)
AssignNowhere(i) ==
  /\ db.tasks[i].state = TaskStateNew
  /\ Commit(SetStatus(db, {i}, TaskStateAssigned))
  /\ UNCHANGED <<orch, left>>

(* The scheduler places tasks by a mirror of the store, whatever their      *)
(* desired state, those that have a node on that node only; it may not know *)
(* yet that a node is no longer ready.                                      *)
Assign(i) ==
  /\ db.tasks[i].state = TaskStateNew
  /\ \E n \in IF db.tasks[i].node = NoNode THEN left.hosts ELSE {db.tasks[i].node} :
       /\ IF db.nodes[n] = "ready" THEN UNCHANGED left ELSE Spend("lag")
       /\ Commit([SetStatus(db, {i}, TaskStateAssigned) EXCEPT
                    !.tasks[i].node = n])
  /\ UNCHANGED orch

(* A node that can report: one that is down or gone cannot.                 *)
Reports(i) ==
  /\ db.tasks[i].state \in TaskStateAssigned..TaskStateRunning
  /\ db.nodes[db.tasks[i].node] \in {"ready", "drain", "pause"}

(* The agent has started a task.                                            *)
Start(i) ==
  /\ Reports(i)
  /\ db.tasks[i].state = TaskStateAssigned
  /\ db.tasks[i].desired \in TaskStateRunning..TaskStateCompleted
  /\ Commit(SetStatus(db, {i}, TaskStateRunning))
  /\ UNCHANGED <<orch, left>>

(* The agent has shut a task down.                                          *)
Stop(i) ==
  /\ Reports(i)
  /\ ~Live(db.tasks[i])
  /\ Commit(SetStatus(db, {i}, TaskStateShutdown))
  /\ UNCHANGED <<orch, left>>

(* The task of a job has done its work.                                     *)
Complete(i) ==
  /\ IsJob /\ Reports(i)
  /\ db.tasks[i].state = TaskStateRunning
  /\ Commit(SetStatus(db, {i}, TaskStateCompleted))
  /\ UNCHANGED <<orch, left>>

(* A task ends by itself; only one that ran can succeed, and success makes  *)
(* a difference only to a service that restarts its tasks on failure.       *)
Exit(i) ==
  /\ Reports(i)
  /\ Spend("exits")
  /\ \E st \in {TaskStateCompleted, TaskStateShutdown} :
       /\ st = TaskStateCompleted =>
            /\ ~IsJob /\ db.tasks[i].state = TaskStateRunning
            /\ left.cond = "failure"
       /\ Commit(SetStatus(db, {i}, st))
  /\ UNCHANGED orch
=============================================================================
