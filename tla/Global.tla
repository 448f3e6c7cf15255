------------------------------- MODULE Global -------------------------------
(* The global orchestrator (manager/orchestrator/global): one task on every *)
(* node that is neither drained nor down.  A slot is the number of a node.  *)
(*                                                                          *)
(* There are no placement constraints here; what becomes of a task whose    *)
(* node no longer meets them is in Enforcers.                               *)
EXTENDS Replicated

(* updateNode, and the node of EventDeleteNode.                             *)
updateNode(nodes, n, state) ==
  IF state \in {"ready", "pause"} THEN (n :> state) @@ nodes
  ELSE Restrict(nodes, DOMAIN nodes \ {n})

(* FixTask: a task whose node is no longer valid is shut down, one that has *)
(* ended is restarted.                                                      *)
GlobalInit ==
  LET valid == {n \in Nodes : ~InvalidNode(db, n)}
      wanted == {i \in DOMAIN db.tasks : Wanted(db.tasks[i])}
      lost == {i \in wanted : db.tasks[i].node \notin valid}
      ended == {i \in wanted : db.tasks[i].state > TaskStateRunning}
      o == IF db.service.exists THEN Tick(ended \ lost, {db.service}) ELSE Done
  IN  /\ CheckTasks(SetDesired(db, lost, TaskStateShutdown))
      /\ orch' = [o EXCEPT !.nodes = [n \in valid |-> db.nodes[n]],
                           !.known = {s \in {db.service} : s.exists}]

(* The events of one commit; the tick that follows comes before the event   *)
(* of a node that is deleted with its tasks orphaned.                       *)
GlobalHandle ==
  /\ queue # <<>>
  /\ LET e == Head(queue)
         services == {s \in e.service : s.exists}
         known == IF e.service = {} THEN orch.known ELSE services
         o == Tick(IF known = {} THEN {} ELSE e.ended, services)
     IN  /\ TakeEvent(e, sup)
         /\ orch' = [o EXCEPT
              !.known = known,
              !.changed = e.nodes,
              !.nodes = FoldSet(LAMBDA p, nodes : updateNode(nodes, p[1], p[2]),
                                @, e.nodes),
              !.steps = @ \o If(e.nodes # {}, <<"node">>)]

(* tickTasks: nothing is restarted on a node that is paused.                *)
GlobalRestart(i, x) ==
  IF orch.nodes[x.db.tasks[i].node] = "pause"
  THEN [x EXCEPT !.db = SetDesired(@, {i}, TaskStateShutdown)]
  ELSE RestartTask(i, x)

GlobalTick ==
  LET tasks == {i \in orch.restart \cap DOMAIN db.tasks :
                  /\ Wanted(db.tasks[i]) /\ db.service.exists
                  /\ db.tasks[i].node \in DOMAIN orch.nodes /\ orch.known # {}}
      x == FoldSet(GlobalRestart, [db |-> db, sup |-> sup], tasks)
  IN  /\ At("tick")
      /\ CommitBy(x.db, x.sup, upd, reaper)
      /\ orch' = [Done EXCEPT !.restart = {}]
      /\ UNCHANGED left

----------------------------------------------------------------------------
(* Both reconciliations read the tasks first and write in a batch.          *)

Planned(plan) ==
  LET steps == If(plan.add \cup plan.stop \cup plan.delete # {}, <<"batch">>)
               \o If(plan.slots # {}, <<"update">>)
  IN  IF steps = <<>> THEN Done
      ELSE [orch EXCEPT !.steps = steps, !.plan = plan]

(* reconcileServices                                                        *)
ReconcileServices ==
  /\ At("reconcile")
  /\ \E service \in orch.service :
       LET ntasks(n) == UpdatableTasksInSlot(n, service)
           ready == {n \in DOMAIN orch.nodes : orch.nodes[n] = "ready"}
           kept == {n \in ready : ntasks(n) # {}}
       IN  orch' = Planned([NoPlan EXCEPT
             !.add = ready \ kept,
             !.slots = {Snapshot(ntasks(n)) : n \in kept},
             !.stop = UNION {ntasks(n) : n \in Nodes \ DOMAIN orch.nodes}])
  /\ UNCHANGED <<db, queue, reaper, sup, upd, left>>

(* reconcileOneNode on a node that is ready: one task of the service as it  *)
(* is now is kept, or made.                                                 *)
NodePlans(n, service) ==
  LET tasks == UpdatableTasksInSlot(n, service)
      clean == {i \in tasks : ~IsTaskDirty(service, db.tasks[i])}
  IN  IF clean = {} THEN {[NoPlan EXCEPT !.add = {n}, !.stop = tasks]}
      ELSE {[NoPlan EXCEPT !.stop = tasks \ {i}] : i \in clean}

(* reconcileOneNode, foreachTaskFromNode: the tasks of a node that is       *)
(* drained or down are shut down, those of a deleted one are deleted.       *)
ReconcileOneNode ==
  /\ At("node")
  /\ \E p \in orch.changed :
       LET n == p[1]
           state == p[2]
           tasks == {i \in InSlot(db, n) : orch.known # {}}
       IN  \/ /\ state = "ready" /\ orch.known # {}
              /\ \E service \in orch.known : \E plan \in NodePlans(n, service) :
                   orch' = Planned(plan)
           \/ /\ state = "pause" \/ (state = "ready" /\ orch.known = {})
              /\ orch' = Done
           \/ /\ state \in {"drain", "down"}
              /\ orch' = Planned([NoPlan EXCEPT
                   !.stop = {i \in tasks : Wanted(db.tasks[i])}])
           \/ /\ state = "gone"
              /\ orch' = Planned([NoPlan EXCEPT !.delete = tasks])
  /\ UNCHANGED <<db, queue, reaper, sup, upd, left>>

(* addTask, shutdownTask and deleteTask: each looks again at what it        *)
(* changes.                                                                 *)
GlobalBatch ==
  LET plan == orch.plan
      added == FoldSet(LAMBDA s, d : Added(d, s, plan.add), db,
                       {s \in orch.known : db.service.exists})
  IN  /\ At("batch")
      /\ CommitBy(SetDesired(DeleteTasks(added, plan.delete),
                             {i \in plan.stop \cap DOMAIN db.tasks :
                                Wanted(db.tasks[i])}, TaskStateShutdown),
                  sup, upd, reaper)
      /\ orch' = Done
      /\ UNCHANGED left

GlobalLoop ==
  \/ GlobalInit \/ GlobalHandle \/ GlobalTick \/ ReconcileServices
  \/ ReconcileOneNode \/ GlobalBatch
=============================================================================
