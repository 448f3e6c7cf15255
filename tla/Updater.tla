------------------------------ MODULE Updater ------------------------------
(* Rolling updates (manager/orchestrator/update): the supervisor runs one   *)
(* updater for the service, whose one worker replaces the tasks of one slot *)
(* after another while failures of the new tasks are watched for.           *)
(*                                                                          *)
(*   upd.pc       "off" without updater; in Run: "run" before the first     *)
(*                look at the slots, "slots" while they are handed out,     *)
(*                "drain" in wg.Wait, "monitor" and "complete" after it,    *)
(*                and "done" when it has returned                           *)
(*   upd.service  newService                                                *)
(*   upd.slots    the slots given to Run, then the dirty ones still to do;  *)
(*                a slot is the set of its tasks as they were read          *)
(*   upd.worker   what the worker does, its slot and the new task           *)
(*   upd.mine     updatedTasks; upd.ran, upd.ended: those of them seen      *)
(*                running and seen ended; upd.seen: failures dealt with     *)
(*   upd.cancel   stopChan is closed; upd.stopped: stopped                  *)
EXTENDS Restart

IdleWorker == [pc |-> "idle", slot |-> <<>>, new |-> 0]

NewUpdater(pc, service, slots) ==
  [pc |-> pc, service |-> service, slots |-> slots, worker |-> IdleWorker,
   mine |-> {}, ran |-> {}, ended |-> {}, seen |-> {},
   cancel |-> FALSE, stopped |-> FALSE]

NoService == [exists |-> FALSE]
NoUpdater == NewUpdater("off", NoService, {})

(* A slot is a function from the ids of its tasks to the tasks.             *)
IsTaskDirty(service, t) == t.ver # service.ver /\ t.spec # service.spec

IsSlotDirty(service, slot) ==
  \/ Cardinality(DOMAIN slot) > 1
  \/ \E i \in DOMAIN slot : IsTaskDirty(service, slot[i])

(* Supervisor.Update compares the whole specification.                      *)
SameSpec(a, b) == a.spec = b.spec /\ a.replicas = b.replicas

----------------------------------------------------------------------------
(* The status of the update in the store                                    *)

HasStatus(d) == d.service.exists /\ d.service.update # "none"

startUpdate(d) ==
  IF d.service.exists /\ ~HasStatus(d)
  THEN [d EXCEPT !.service.update = "updating"] ELSE d

pauseUpdate(d) ==
  IF ~HasStatus(d) THEN d
  ELSE [d EXCEPT !.service.update =
          IF @ = "rollback_started" THEN "rollback_paused" ELSE "paused"]

(* Without previous specification the transaction fails.                    *)
rollbackUpdate(d) ==
  IF ~HasStatus(d) \/ d.service.prev = {} THEN d
  ELSE LET p == CHOOSE q \in d.service.prev : TRUE
       IN  [d EXCEPT !.service =
              [@ EXCEPT !.replicas = p.replicas, !.spec = p.spec,
                        !.ver = p.ver, !.prev = {},
                        !.update = "rollback_started"]]

completeUpdate(d) ==
  IF ~HasStatus(d) THEN d
  ELSE [d EXCEPT !.service.update =
          IF @ = "rollback_started" THEN "rollback_completed" ELSE "completed"]

----------------------------------------------------------------------------
(* Updater.Run                                                              *)

UpdCommit(d, u) == CommitBy(d, sup, u, reaper) /\ UNCHANGED <<orch, left>>

UpdStep(u) == upd' = u /\ UNCHANGED <<db, queue, reaper, sup, orch, left>>

UpdaterRun ==
  LET svc == upd.service
      dirty == {s \in upd.slots : IsSlotDirty(svc, s)}
      paused == svc.update \in {"paused", "rollback_paused"}
  IN  /\ upd.pc = "run"
      /\ IF paused THEN UpdStep([upd EXCEPT !.pc = "done"])
         ELSE IF dirty = {}
         THEN UpdCommit(IF svc.update \in {"updating", "rollback_started"}
                        THEN completeUpdate(db) ELSE db,
                        [upd EXCEPT !.pc = "done"])
         ELSE UpdCommit(IF svc.update = "none" THEN startUpdate(db) ELSE db,
                        [upd EXCEPT !.pc = "slots", !.slots = dirty])

(* The worker takes a slot; after the last one the queue is closed.         *)
TakeSlot ==
  /\ upd.pc = "slots"
  /\ upd.worker.pc = "idle"
  /\ \E s \in upd.slots :
       UpdStep([upd EXCEPT !.slots = @ \ {s},
                           !.pc = IF upd.slots = {s} THEN "drain" ELSE "slots",
                           !.worker = [pc |-> "busy", slot |-> s, new |-> 0]])

(* Where Run goes on after a break out of its two loops.                    *)
AfterBreak(pc, stopped) ==
  IF pc = "slots" THEN "drain" ELSE IF stopped THEN "done" ELSE "complete"

(* failureTriggersAction, with a MaxFailureRatio of 0: the first failure of *)
(* a new task counts, unless the worker saw it come up or end and that is   *)
(* longer ago than the monitoring period.  A rollback that fails is paused, *)
(* but Run does not stop.                                                   *)
TaskFails ==
  /\ upd.pc \in {"slots", "monitor"}
  /\ left.action # "continue"
  /\ \E i \in upd.ended \ upd.seen :
       LET rollback == left.action = "rollback"
           again == rollback /\ upd.service.update = "rollback_started"
           u == [upd EXCEPT !.seen = @ \cup {i}]
       IN  \/ /\ i # upd.worker.new
              /\ UpdStep(u)
           \/ UpdCommit(IF rollback /\ ~again THEN rollbackUpdate(db)
                        ELSE pauseUpdate(db),
                        [u EXCEPT !.stopped = ~again,
                                  !.pc = AfterBreak(upd.pc, ~again)])

(* stopChan is closed.                                                      *)
UpdaterStops ==
  /\ upd.pc \in {"slots", "monitor"}
  /\ upd.cancel
  /\ UpdStep([upd EXCEPT !.stopped = TRUE, !.pc = AfterBreak(upd.pc, TRUE)])

(* The worker has returned.                                                 *)
WorkersDone ==
  /\ upd.pc = "drain"
  /\ upd.worker.pc = "idle"
  /\ UpdStep([upd EXCEPT !.pc = IF upd.stopped THEN "done" ELSE "monitor"])

(* The monitoring period is over, or a rollback was paused in it.           *)
MonitorOver ==
  /\ upd.pc \in {"monitor", "complete"}
  /\ UpdCommit(completeUpdate(db), [upd EXCEPT !.pc = "done"])

(* The goroutine of Supervisor.Update takes the updater out of the map.     *)
UpdaterGone ==
  /\ upd.pc = "done"
  /\ UpdStep(NoUpdater)

----------------------------------------------------------------------------
(* The worker                                                               *)

(* removeOldTasks: the tasks wanted when they were read and wanted still    *)
(* are shut down; it fails if there is none left of several.                *)
removeOldTasks(d, slot, ids) ==
  LET asked == {i \in ids : Wanted(slot[i])}
      found == {i \in asked \cap DOMAIN d.tasks : Wanted(d.tasks[i])}
  IN  [db |-> SetDesired(d, found, TaskStateShutdown),
       old |-> found,
       err |-> asked # {} /\ found = {}]

(* The old task a delayed start waits for: whichever of them was removed    *)
(* last, and none if that one had ended when it was read.                   *)
WaitStop(slot, old) ==
  IF old = {} THEN {0}
  ELSE {IF slot[i].state <= TaskStateRunning THEN i ELSE 0 : i \in old}

Worker(pc, new) == [upd EXCEPT !.worker.pc = pc, !.worker.new = new]

WorkerIdle == [upd EXCEPT !.worker = IdleWorker]

(* A batch of the worker that ends with DelayStart on a task.  DelayStart   *)
(* waits for the pending start of the same task, which in its turn waits    *)
(* for the update lock when it has come to its transaction.                 *)
BatchAndDelay(d, i, old, u) ==
  IF i \in DOMAIN sup.delays /\ sup.delays[i].pc = "start"
  THEN UpdStep(Worker("stuck", i))
  ELSE /\ \E o \in old : CommitBy(d, DelayStart(sup, i, o), u, reaper)
       /\ UNCHANGED <<orch, left>>

(* useExistingTask                                                          *)
useExistingTask(slot, i) ==
  LET rest == DOMAIN slot \ {i}
      rm == removeOldTasks(db, slot, rest)
      starting == slot[i].desired # TaskStateRunning
  IN  IF rm.err THEN UpdStep(WorkerIdle)
      ELSE IF starting
      THEN BatchAndDelay(rm.db, i, WaitStop(slot, rm.old), Worker("delay", i))
      ELSE UpdCommit(rm.db, WorkerIdle)

(* updateTask, the batch that creates the new task.                         *)
updateTask(slot) ==
  LET k == slot[CHOOSE i \in DOMAIN slot : TRUE].slot
      new == db.created + 1
      d == CreateTask(db, upd.service, k, TaskStateReady)
      rm == removeOldTasks(d, slot, DOMAIN slot)
      u == [Worker("delay", new) EXCEPT !.mine = @ \cup {new}]
  IN  IF ~db.service.exists THEN UpdStep(WorkerIdle)
      ELSE IF left.order = "start-first" THEN BatchAndDelay(d, new, {0}, u)
      ELSE IF rm.err THEN UpdStep(WorkerIdle)
      ELSE BatchAndDelay(rm.db, new, WaitStop(slot, rm.old), u)

UpdateSlot ==
  LET slot == upd.worker.slot
      clean == {i \in DOMAIN slot : ~IsTaskDirty(upd.service, slot[i])}
      running == {i \in clean : slot[i].desired = TaskStateRunning}
      ready == {i \in clean : slot[i].desired < TaskStateRunning}
  IN  /\ upd.worker.pc = "busy"
      /\ IF running # {} THEN \E i \in running : useExistingTask(slot, i)
         ELSE IF ready # {} THEN \E i \in ready : useExistingTask(slot, i)
         ELSE updateTask(slot)

(* The delayed start is over, or the update is cancelled.                   *)
DelayAwaited ==
  /\ upd.worker.pc = "delay"
  /\ upd.worker.new \notin DOMAIN sup.delays \/ upd.cancel
  /\ UpdStep(IF upd.cancel \/ upd.worker.new \notin upd.mine
             THEN WorkerIdle
             ELSE Worker("await", upd.worker.new))

(* The new task has come up or ended; the old ones that are to be stopped   *)
(* after the new one has started are stopped now.                           *)
TaskAwaited ==
  LET new == upd.worker.new
      slot == upd.worker.slot
      up == new \in upd.ran
  IN  /\ upd.worker.pc = "await"
      /\ \/ /\ up \/ new \in upd.ended
            /\ UpdCommit(IF up /\ left.order = "start-first"
                         THEN removeOldTasks(db, slot, DOMAIN slot).db ELSE db,
                         WorkerIdle)
         \/ /\ upd.cancel
            /\ UpdStep(WorkerIdle)
=============================================================================
