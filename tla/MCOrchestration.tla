-------------------------- MODULE MCOrchestration --------------------------
(* Orchestration for TLC: scenarios, each about one way in which the parts  *)
(* meet.                                                                    *)
EXTENDS Orchestration

(* One replica on one node, restarted whenever it ends; nothing happens.    *)
Quiet ==
  [mode |-> "replicated", hosts |-> {1}, replicas |-> 1, concurrent |-> 1,
   cond |-> "any", attempts |-> 0, history |-> 1, order |-> "stop-first",
   action |-> "pause", scales |-> {}, updates |-> 0, rollbacks |-> 0,
   deletes |-> 0, exits |-> 0, nodes |-> 0, kinds |-> {"ready", "down", "drain"},
   calm |-> FALSE, lag |-> 0, timeouts |-> 0, leaders |-> 0, patient |-> TRUE,
   orderly |-> FALSE]

Hasty == [Quiet EXCEPT !.patient = FALSE]

Restarts ==
  {[Quiet EXCEPT !.exits = 3, !.attempts = 2, !.leaders = 1],
   [Quiet EXCEPT !.exits = 2, !.cond = "failure"],
   [Quiet EXCEPT !.exits = 2, !.history = 0]}

Scaling ==
  {[Hasty EXCEPT !.scales = {1, 2}],
   [Quiet EXCEPT !.scales = {2}, !.updates = 1, !.rollbacks = 1]}

Failures ==
  {[Quiet EXCEPT !.hosts = Nodes, !.nodes = 1, !.lag = 1],
   [Quiet EXCEPT !.nodes = 2, !.timeouts = 1]}

Removals ==
  {[Hasty EXCEPT !.deletes = 1, !.exits = 1],
   [Hasty EXCEPT !.deletes = 1, !.updates = 1, !.order = "start-first"]}

Updates ==
  {[Quiet EXCEPT !.updates = 1, !.exits = 1, !.orderly = TRUE, !.history = 2],
   [Quiet EXCEPT !.updates = 1, !.exits = 1, !.orderly = TRUE, !.history = 2,
                 !.action = "rollback", !.rollbacks = 1],
   [Quiet EXCEPT !.updates = 1, !.replicas = 2],
   [Quiet EXCEPT !.updates = 1, !.leaders = 1],
   [Quiet EXCEPT !.updates = 2]}

(* The same for a global service.                                           *)
EveryNode == [Quiet EXCEPT !.mode = "global"]

Globals ==
  {[EveryNode EXCEPT !.hosts = Nodes, !.exits = 2, !.attempts = 1],
   [EveryNode EXCEPT !.hosts = Nodes, !.updates = 1],
   [EveryNode EXCEPT !.nodes = 2, !.exits = 1, !.lag = 1, !.history = 3,
                     !.kinds = NodeStates \ {"gone"}],
   [EveryNode EXCEPT !.nodes = 1, !.exits = 1, !.leaders = 1, !.history = 3],
   [EveryNode EXCEPT !.nodes = 2, !.kinds = {"ready", "pause"}, !.calm = TRUE,
                     !.updates = 1],
   [EveryNode EXCEPT !.deletes = 1, !.nodes = 1, !.patient = FALSE]}

(* The same for jobs.                                                       *)
Job == [Quiet EXCEPT !.mode = "replicated job"]
JobEverywhere == [Job EXCEPT !.mode = "global job"]

JobRuns ==
  {[Job EXCEPT !.updates = 1, !.exits = 1, !.leaders = 1, !.patient = FALSE],
   [Job EXCEPT !.updates = 1, !.replicas = 2, !.concurrent = 2, !.patient = FALSE],
   [Job EXCEPT !.replicas = 2, !.exits = 1, !.leaders = 1],
   [Job EXCEPT !.hosts = Nodes, !.nodes = 2],
   [Job EXCEPT !.deletes = 1, !.exits = 1, !.patient = FALSE],
   [JobEverywhere EXCEPT !.hosts = Nodes, !.exits = 1, !.kinds = {}],
   [JobEverywhere EXCEPT !.updates = 1, !.exits = 1, !.leaders = 1, !.kinds = {},
                         !.patient = FALSE],
   [JobEverywhere EXCEPT !.nodes = 2, !.kinds = NodeStates \ {"gone"}]}

All ==
  UNION {Restarts, Scaling, Failures, Removals, Updates, Globals, JobRuns}

(* Not in a run: Updated fails when a user in a hurry rolls back an update, *)
(* and LockReleased, without its proviso, with tasks started first;         *)
(* OneWantedPerSlot when a node is paused and activated again during the    *)
(* update of a global service, AllRunning when a node of one goes down      *)
(* while a task that failed twice waits to be restarted; JobCompleted when  *)
(* the restarted task of a job fails as it is started; JobWithinLimits when *)
(* a new leader shuts a task of a global job down and it completes.         *)
HastyRollback == {[Hasty EXCEPT !.updates = 1, !.rollbacks = 1]}
StartFirst == {[Quiet EXCEPT !.updates = 1, !.exits = 1,
                             !.order = "start-first", !.action = "rollback"]}
PausedInUpdate == {[EveryNode EXCEPT !.nodes = 2, !.kinds = {"ready", "pause"},
                                     !.updates = 1]}
JobFailsTwice == {[Job EXCEPT !.exits = 2]}
JobOnDrained == {[JobEverywhere EXCEPT !.nodes = 2, !.leaders = 1]}
DownInRestart == {[EveryNode EXCEPT !.nodes = 1, !.exits = 2, !.history = 3]}
=============================================================================
