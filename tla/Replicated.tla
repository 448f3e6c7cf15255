----------------------------- MODULE Replicated -----------------------------
(* The replicated orchestrator (manager/orchestrator/replicated) and what   *)
(* the orchestrator of a new leader does first                              *)
(* (manager/orchestrator/taskinit), for one service.                        *)
(*                                                                          *)
(*   orch.steps    what is left of the current pass of the event loop       *)
(*   orch.restart  restartTasks                                             *)
(*   orch.service  reconcileServices: at most one service, as the event     *)
(*                 that led to it has it                                    *)
(*   orch.plan     what reconcile decided on the tasks it read              *)
(*   orch.refused  a write of the last reconcile was refused: the task had  *)
(*                 changed since it was read                                *)
(*                                                                          *)
(* The orchestrator of global services also keeps                           *)
(*                                                                          *)
(*   orch.nodes    nodes: the nodes to have a task and their availability   *)
(*   orch.known    globalServices: at most one service, as the last event   *)
(*                 has it                                                   *)
(*   orch.changed  the node of the event that is handled and its new state  *)
EXTENDS Updater, Reaper

NoPlan == [slots |-> {}, add |-> {}, delete |-> {}, remove |-> <<>>, stop |-> {}]

NewOrchestrator == [steps |-> <<"init">>, restart |-> {}, service |-> {},
                    plan |-> NoPlan, refused |-> FALSE,
                    nodes |-> <<>>, known |-> {}, changed |-> {}]

At(step) == orch.steps # <<>> /\ Head(orch.steps) = step

Done ==
  IF Len(orch.steps) > 1 THEN [orch EXCEPT !.steps = Tail(@)]
  ELSE [orch EXCEPT !.steps = <<>>, !.service = {}, !.plan = NoPlan,
                    !.changed = {}]

If(b, s) == IF b THEN s ELSE <<>>

(* The passes of the loop end with tick.                                    *)
Tick(restart, service) ==
  [orch EXCEPT !.steps = If(restart # {}, <<"tick">>)
                         \o If(service # {}, <<"reconcile">>),
               !.restart = restart, !.service = service]

----------------------------------------------------------------------------
(* taskinit.CheckTasks, initTasks and initServices                          *)

(* A task FixTask has restarted.                                            *)
ToRestart(t) ==
  /\ Wanted(t)
  /\ t.state > TaskStateRunning \/ (t.node # NoNode /\ InvalidNode(db, t.node))

(* The history of a slot as the tasks that are left tell it: all of the     *)
(* current version but the first were restarts.                             *)
Recounted(k) ==
  LET ver == Max({db.tasks[i].ver : i \in InSlot(db, k)})
      same == {i \in InSlot(db, k) : db.tasks[i].ver = ver}
  IN  IF left.attempts = 0 \/ Cardinality(InSlot(db, k)) < 2
         \/ Cardinality(same) < 2
      THEN NoHistory
      ELSE [n |-> Cardinality(same) - 1, ver |-> ver]

(* Mutated form of ReadyTasks: tasks that were not started yet are left.    *)
NoReadyTasks(d) == {}

(* Tasks the last leader had yet to start.                                  *)
ReadyTasks(d) ==
  {i \in DOMAIN d.tasks : d.tasks[i].desired = TaskStateReady
                          /\ d.tasks[i].state <= TaskStateCompleted}

(* CheckTasks for an orchestrator whose FixTask leaves d in the store; what *)
(* it reads and what it then writes task by task is one step here.          *)
(* Tasks of a service that is gone are deleted.  Those in state READY are   *)
(* started, some after the rest of their delay, which waits for no old      *)
(* task.                                                                    *)
CheckTasks(d) ==
  /\ At("init")
  /\ IF ~db.service.exists
     THEN CommitBy(DeleteTasks(db, DOMAIN db.tasks), sup, upd, reaper)
     ELSE \E now \in SUBSET ReadyTasks(d) :
            CommitBy(StartNow(d, now),
                     FoldSet(LAMBDA i, s : DelayStart(s, i, 0),
                             [sup EXCEPT !.history =
                                [k \in Slots |-> Recounted(k)]],
                             ReadyTasks(d) \ now),
                     upd, reaper)
  /\ UNCHANGED left

(* Run, before the loop.                                                    *)
InitTasks ==
  /\ CheckTasks(db)
  /\ orch' = IF ~db.service.exists THEN Done
             ELSE Tick({i \in DOMAIN db.tasks : ToRestart(db.tasks[i])},
                       {db.service})

----------------------------------------------------------------------------
(* handleTaskEvent and handleServiceEvent for the events of one commit, the *)
(* calls of tick that follow it                                             *)

(* handleTaskChange, handleNodeChange, restartTasksByNodeID                 *)
Affected(e) ==
  IF ~db.service.exists THEN {}
  ELSE e.ended
       \cup {i \in e.placed \cap DOMAIN db.tasks :
               InvalidNode(db, db.tasks[i].node)}
       \cup {i \in DOMAIN db.tasks :
               Wanted(db.tasks[i]) /\ \E p \in e.nodes : db.tasks[i].node = p[1]}

(* An event of the service carries it; when a wanted task is gone it is     *)
(* read.                                                                    *)
ToReconcile(e) ==
  {s \in e.service : s.exists}
  \cup (IF e.gone # {} /\ db.service.exists THEN {db.service} ELSE {})

(* The next event is taken by an orchestrator that leaves s in the restart  *)
(* supervisor; SetServiceTasksRemove and ClearServiceHistory if it is that  *)
(* the service was deleted.                                                 *)
TakeEvent(e, s) ==
  LET deleted == \E v \in e.service : ~v.exists
  IN  /\ orch.steps = <<>>
      /\ IF deleted
         THEN CommitTo(Tail(queue),
                       SetDesired(db, DOMAIN db.tasks, TaskStateRemove),
                       Forgotten(s), upd, reaper)
         ELSE CommitTo(Tail(queue), db, s, upd, reaper)
      /\ UNCHANGED left

(* A task that is gone has its start cancelled, unless it was wanted and    *)
(* its service is gone.                                                     *)
HandleCommit ==
  /\ queue # <<>>
  /\ LET e == Head(queue)
         over == e.spare \cup (IF db.service.exists THEN e.gone ELSE {})
     IN  /\ TakeEvent(e, Cancelled(sup, over))
         /\ orch' = Tick(Affected(e), ToReconcile(e))

(* tickTasks                                                                *)
TickTasks ==
  LET x == RestartTasks(orch.restart)
  IN  /\ At("tick")
      /\ CommitBy(x.db, x.sup, upd, reaper)
      /\ orch' = [Done EXCEPT !.restart = {}]
      /\ UNCHANGED left

----------------------------------------------------------------------------
(* reconcile                                                                *)

(* UpdatableTasksInSlot: the tasks wanted or, if there is none, the one     *)
(* with the newest status if it stays down; a rollback counts no such task. *)
UpdatableTasksInSlot(k, service) ==
  LET wanted == {i \in InSlot(db, k) : Wanted(db.tasks[i])}
      newest == db.recent[k][Len(db.recent[k])]
  IN  IF wanted # {} THEN wanted
      ELSE IF InSlot(db, k) = {} \/ service.update = "rollback_started"
              \/ shouldRestart(sup, db.tasks[newest])
      THEN {}
      ELSE {newest}

(* The order in which slots are kept when there are too many: slotsByIndex  *)
(* on slotsByRunningState.  The index counts the slots on the same node; a  *)
(* slot with several tasks or without node comes last.                      *)
IsRunning(ids) == \E i \in ids : db.tasks[i].state = TaskStateRunning

RunningBefore(slots, j, k) ==
  IF IsRunning(slots[j]) # IsRunning(slots[k]) THEN IsRunning(slots[j])
  ELSE j < k

OnlyNode(ids) ==
  IF Cardinality(ids) = 1
  THEN db.tasks[CHOOSE i \in ids : TRUE].node ELSE NoNode

Index(slots, k) ==
  IF OnlyNode(slots[k]) = NoNode THEN MaxSlots + 1
  ELSE Cardinality({j \in DOMAIN slots : OnlyNode(slots[j]) = OnlyNode(slots[k])
                                         /\ RunningBefore(slots, j, k)})

(* Sets of n slots to keep; equal slots may be kept in any order.           *)
Kept(slots, n) ==
  {K \in SUBSET DOMAIN slots :
     /\ Cardinality(K) = n
     /\ \A k \in K, r \in DOMAIN slots \ K : Index(slots, k) <= Index(slots, r)}

(* The n lowest numbers of slots without running task.                      *)
FreeSlots(taken, n) ==
  {k \in Slots \ taken : Cardinality((1..k) \ taken) <= n}

Snapshot(ids) == [i \in ids |-> db.tasks[i]]

(* reconcile up to its batch: it reads the tasks and decides.               *)
Reconcile ==
  /\ At("reconcile")
  /\ \E service \in orch.service :
       LET slots == [k \in {j \in Slots : UpdatableTasksInSlot(j, service) # {}} |->
                       UpdatableTasksInSlot(k, service)]
           running == DOMAIN slots
           n == Cardinality(running)
           add == FreeSlots(running, service.replicas - n)
           dead == UNION {InSlot(db, k) : k \in Slots \ (running \cup add)}
           more == service.replicas > n
           less == service.replicas < n
       IN  \E K \in IF less THEN Kept(slots, service.replicas) ELSE {running} :
             orch' = [orch EXCEPT
               !.refused = FALSE,
               !.steps = IF more \/ less THEN <<"update", "batch">>
                         ELSE If(dead # {}, <<"batch">>) \o <<"update">>,
               !.plan = [slots |-> {Snapshot(slots[k]) : k \in K},
                         add |-> IF more THEN add ELSE {},
                         delete |-> dead, stop |-> {},
                         remove |-> Snapshot(UNION {slots[k] : k \in running \ K})]]
  /\ UNCHANGED <<db, queue, reaper, sup, upd, left>>

(* Supervisor.Update: an updater that works towards the same specification  *)
(* goes on; another one is cancelled first, which is waited for.            *)
StartUpdater ==
  \E service \in orch.service :
    /\ \/ At("update") /\ upd.pc = "off"
       \/ At("cancel") /\ upd.pc \in {"off", "done"}
    /\ upd' = NewUpdater("run", service, orch.plan.slots)
    /\ orch' = Done
    /\ UNCHANGED <<db, queue, reaper, sup, left>>

(* Mutated form of KeepUpdater: any updater will do.                        *)
KeepAnyUpdater ==
  /\ At("update") /\ upd.pc # "off"
  /\ orch' = Done
  /\ UNCHANGED <<db, queue, reaper, sup, upd, left>>

KeepUpdater ==
  /\ At("update") /\ upd.pc # "off"
  /\ \E service \in orch.service :
       IF SameSpec(service, upd.service)
       THEN orch' = Done /\ UNCHANGED upd
       ELSE /\ orch' = [orch EXCEPT !.steps = <<"cancel">> \o Tail(@)]
            /\ upd' = [upd EXCEPT !.cancel = TRUE]
  /\ UNCHANGED <<db, queue, reaper, sup, left>>

(* Mutated form of Current: what was read is written back as it was read.   *)
CurrentOrNot(read) == DOMAIN read \cap DOMAIN db.tasks

(* The tasks that have not changed since they were read: an update of       *)
(* another one is refused with ErrSequenceConflict, and only logged.        *)
Current(read) ==
  {i \in DOMAIN read \cap DOMAIN db.tasks : db.tasks[i] = read[i]}

Added(d, service, slots) ==
  FoldSet(LAMBDA k, e : CreateTask(e, service, k, TaskStateRunning), d, slots)

Written(d, read) ==
  [d EXCEPT !.tasks = [i \in DOMAIN @ |->
     IF i \in Current(read)
     THEN [read[i] EXCEPT !.desired = TaskStateRemove] ELSE @[i]]]

(* The batch of reconcile: addTasks, deleteTasksMap, setTasksDesiredState.  *)
ReconcileBatch ==
  LET plan == orch.plan
  IN  /\ At("batch")
      /\ \E service \in orch.service :
           CommitBy(Written(DeleteTasks(Added(db, service, plan.add),
                                        plan.delete), plan.remove),
                    sup, upd, reaper)
      /\ orch' = [Done EXCEPT !.refused = Current(plan.remove) # DOMAIN plan.remove]
      /\ UNCHANGED left

ReplicatedLoop ==
  InitTasks \/ HandleCommit \/ TickTasks \/ Reconcile \/ ReconcileBatch
=============================================================================
