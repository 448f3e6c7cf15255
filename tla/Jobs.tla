-------------------------------- MODULE Jobs --------------------------------
(* The orchestrator of jobs (manager/orchestrator/jobs) and its reconcilers *)
(* of replicated and of global jobs, whose tasks are to complete.  A task   *)
(* carries the iteration of the job it was made for.                        *)
(*                                                                          *)
(* There is one slot for each completion of a replicated job; a slot of a   *)
(* global one is the number of a node.  There are no placement constraints. *)
EXTENDS Replicated

Wrap == 65536     \* stands for 2^64, beyond every number of tasks

Reconciles(n) == [orch EXCEPT !.steps = [x \in 1..n |-> "reconcile"]]

(* FixTask of a global job shuts these down; that of a replicated one does  *)
(* nothing.                                                                 *)
OnInvalidNode ==
  {i \in DOMAIN db.tasks : IsGlobal /\ Live(db.tasks[i])
                           /\ InvalidNode(db, db.tasks[i].node)}

(* init                                                                     *)
JobInit ==
  /\ CheckTasks(SetDesired(db, OnInvalidNode, TaskStateShutdown))
  /\ orch' = Reconciles(1)

(* handleEvent, for the events of one commit: the job is reconciled for     *)
(* each that asks for it.                                                   *)
JobHandle ==
  /\ queue # <<>>
  /\ LET e == Head(queue)
     IN  /\ TakeEvent(e, sup)
         /\ orch' = Reconciles(Cardinality(e.ended)
                               + Cardinality({s \in e.service : s.exists}))

----------------------------------------------------------------------------
(* ReconcileService: what it reads and decides                              *)

NoWork == [add |-> <<>>, restart |-> {}, remove |-> {}, stop |-> {}]

Iteration == {i \in DOMAIN db.tasks : db.tasks[i].ver = db.service.ver}

(* The n lowest slots that are free; the lowest of all once none is.        *)
InOrder(free, n) ==
  [p \in 1..n |->
     IF p > Cardinality(free) THEN 1
     ELSE CHOOSE k \in free : Cardinality({j \in free : j <= k}) = p]

(* How many tasks a replicated job lacks, in unsigned numbers.              *)
NewTasks(complete, running) ==
  Min({(left.concurrent - running) % Wrap,
       (db.service.replicas - complete - running) % Wrap})

(* The reconciler of replicated jobs.  An underflow it notices is an error, *)
(* and nothing is done.                                                     *)
ReplicatedPlans ==
  LET complete == {i \in Iteration : db.tasks[i].state = TaskStateCompleted}
      running == {i \in Iteration \ complete : Live(db.tasks[i])}
      n == NewTasks(Cardinality(complete), Cardinality(running))
      taken == {db.tasks[i].slot : i \in complete \cup running}
      old == {i \in DOMAIN db.tasks \ Iteration :
                /\ db.tasks[i].state <= TaskStateRunning
                /\ db.tasks[i].desired # TaskStateRemove}
  IN  IF n > db.service.replicas THEN {NoWork}
      ELSE {[add |-> InOrder((1..db.service.replicas) \ taken, n),
             restart |-> {i \in running : db.tasks[i].state > TaskStateCompleted},
             remove |-> old,
             stop |-> {}]}

(* The reconciler of global jobs.  Of the tasks on an invalid node the one  *)
(* it happens to remember is stopped.                                       *)
GlobalPlans ==
  LET live == {i \in Iteration : Live(db.tasks[i])}
      on(n) == {i \in live : db.tasks[i].node = n}
      bare == {n \in Nodes : db.nodes[n] = "ready" /\ on(n) = {}}
      invalid == {n \in Nodes : db.nodes[n] \in {"down", "drain"} /\ on(n) # {}}
  IN  {[add |-> InOrder(bare, Cardinality(bare)),
        restart |-> {i \in live : db.tasks[i].state > TaskStateCompleted},
        remove |-> {i \in DOMAIN db.tasks \ Iteration :
                      db.tasks[i].desired # TaskStateRemove},
        stop |-> stop] :
       stop \in {S \in SUBSET UNION {on(n) : n \in invalid} :
                   \A n \in invalid : Cardinality(S \cap on(n)) = 1}}

JobView ==
  /\ At("reconcile")
  /\ \E plan \in IF ~db.service.exists THEN {NoWork}
                 ELSE IF IsGlobal THEN GlobalPlans ELSE ReplicatedPlans :
       orch' = IF plan = NoWork THEN Done
               ELSE [orch EXCEPT !.steps = <<"batch">> \o Tail(@),
                                 !.plan = plan, !.service = {db.service}]
  /\ UNCHANGED <<db, queue, reaper, sup, upd, left>>

(* Its batch, for the service that was read: new tasks, restarts of those   *)
(* still live, tasks of earlier iterations, those on invalid nodes.         *)
ToStop(d, ids) ==
  {i \in ids \cap DOMAIN d.tasks :
     ~Live(d.tasks[i]) \/ d.tasks[i].state <= TaskStateRunning}

JobBatch ==
  /\ At("batch")
  /\ \E service \in orch.service :
       LET plan == orch.plan
           added == FoldSet(LAMBDA p, d : CreateTask(d, service, plan.add[p],
                                                     TaskStateCompleted),
                            db, DOMAIN plan.add)
           x == FoldSet(LAMBDA i, y : RestartFor(service, i, y),
                        [db |-> added, sup |-> sup],
                        {i \in plan.restart \cap DOMAIN db.tasks : Live(db.tasks[i])})
           d == SetDesired(x.db, plan.remove, TaskStateRemove)
       IN  CommitBy(SetDesired(d, ToStop(d, plan.stop), TaskStateShutdown),
                    x.sup, upd, reaper)
  /\ orch' = Done
  /\ UNCHANGED left

JobLoop == JobInit \/ JobHandle \/ JobView \/ JobBatch
=============================================================================
