------------------------------ MODULE Restart ------------------------------
(* The restart supervisor (manager/orchestrator/restart): it replaces tasks *)
(* that ended or lost their node, within the restart policy, and starts the *)
(* replacement once the task it replaces has ended.                         *)
(*                                                                          *)
(*   sup.delays    delays: per task, the old task it waits for, how far its *)
(*                 goroutine is and whether someone waits for its end       *)
(*   sup.waiters   goroutines of waitRestart whose wait is over             *)
(*   sup.history   historyByService: the restarts of each slot and the      *)
(*                 version of the specification they are counted for        *)
EXTENDS ServiceStore

NoHistory == [n |-> 0, ver |-> 0]

NewSupervisor == [delays |-> <<>>, waiters |-> {},
                  history |-> [k \in Slots |-> NoHistory]]

(* shouldRestart, for a policy without window.  A slot without history has  *)
(* version 0, which no task has.  The history of a global job is recorded   *)
(* for the node, and looked up without it.                                  *)
shouldRestart(s, t) ==
  /\ left.cond # "none"
  /\ left.cond = "failure" \/ IsJob => t.state # TaskStateCompleted
  /\ \/ left.attempts = 0
     \/ left.mode = "global job"
     \/ s.history[t.slot].ver # t.ver
     \/ s.history[t.slot].n < left.attempts

(* RecordRestartHistory: restarts of another version do not count.          *)
RecordRestartHistory(s, slot, ver) ==
  IF left.attempts = 0 THEN s
  ELSE [s EXCEPT !.history[slot] =
          [n |-> IF @.ver = ver THEN @.n + 1 ELSE 1, ver |-> ver]]

(* DelayStart: it cancels and replaces a pending start of the same task,    *)
(* whose waiter then goes on.  old is 0 when no task has to be waited for.  *)
DelayStart(s, new, old) ==
  [s EXCEPT !.delays = (new :> [old |-> old, pc |-> "wait", waiter |-> FALSE]) @@ @,
            !.waiters = @ \cup {i \in {new} \cap DOMAIN s.delays :
                                  s.delays[i].waiter}]

(* The old task is waited for unless it has ended or its node is down.      *)
WaitFor(d, i) ==
  LET t == d.tasks[i]
  IN  IF t.state > TaskStateRunning THEN 0
      ELSE IF t.node # NoNode /\ d.nodes[t.node] = "down" THEN 0
      ELSE i

(* Restart of task i within a transaction, for the service as it was read;  *)
(* x holds the store and the supervisor.                                    *)
RestartFor(service, i, x) ==
  LET t == x.db.tasks[i]
      new == x.db.created + 1
      down == SetDesired(x.db, {i}, TaskStateShutdown)
  IN  IF i \in DOMAIN x.sup.delays
      THEN [x EXCEPT !.sup.delays[i].waiter = TRUE]
      ELSE IF ~shouldRestart(x.sup, t) THEN [x EXCEPT !.db = down]
      ELSE [db |-> CreateTask(down, service, t.slot, TaskStateReady),
            sup |-> DelayStart(RecordRestartHistory(x.sup, t.slot, service.ver),
                               new, WaitFor(x.db, i))]

RestartTask(i, x) == RestartFor(x.db.service, i, x)

(* Mutated form of RestartTasks: a task that is no longer wanted is         *)
(* restarted all the same.                                                  *)
RestartTasksUnwanted(ids) ==
  FoldSet(RestartTask, [db |-> db, sup |-> sup],
          {i \in ids \cap DOMAIN db.tasks : db.service.exists})

(* The transactions that restart tasks: those still wanted, of a service    *)
(* still there.                                                             *)
RestartTasks(ids) ==
  FoldSet(RestartTask, [db |-> db, sup |-> sup],
          {i \in ids \cap DOMAIN db.tasks :
             Wanted(db.tasks[i]) /\ db.service.exists})

(* waitRestart, once the delay it waited for is over.                       *)
WaitRestart(i) ==
  LET x == RestartTasks({i})
  IN  /\ i \in sup.waiters
      /\ CommitBy(x.db, [x.sup EXCEPT !.waiters = @ \ {i}], upd, reaper)
      /\ UNCHANGED <<orch, left>>

(* The old task of a delayed start sends no more news: it is not in the     *)
(* store any more, or on a node that does not report.                       *)
Silent(o) ==
  \/ o \notin DOMAIN db.tasks
  \/ db.tasks[o].node # NoNode /\ db.nodes[db.tasks[o].node] \in {"down", "gone"}

(* The goroutine of a delayed start goes on: the delay has elapsed, and the *)
(* old task ended, or the wait for it timed out.                            *)
DelayOver(i) ==
  /\ i \in DOMAIN sup.delays
  /\ sup.delays[i].pc = "wait"
  /\ IF sup.delays[i].old = 0 \/ Silent(sup.delays[i].old)
     THEN UNCHANGED left ELSE Spend("timeouts")
  /\ sup' = [sup EXCEPT !.delays[i].pc = "start"]
  /\ UNCHANGED <<db, queue, reaper, upd, orch>>

(* StartNow on a set of tasks.                                              *)
StartNow(d, ids) ==
  SetDesired(d, {i \in ids \cap DOMAIN d.tasks :
                   d.tasks[i].desired < TaskStateRunning},
             IF IsJob THEN TaskStateCompleted ELSE TaskStateRunning)

(* It starts the task in a transaction of its own,                          *)
DelayedStart(i) ==
  /\ i \in DOMAIN sup.delays
  /\ sup.delays[i].pc = "start"
  /\ CommitBy(StartNow(db, {i}), [sup EXCEPT !.delays[i].pc = "done"], upd,
              reaper)
  /\ UNCHANGED <<orch, left>>

(* and takes itself out of the map, which lets a waiter go on.              *)
DelayDone(i) ==
  /\ i \in DOMAIN sup.delays
  /\ sup.delays[i].pc = "done"
  /\ sup' = [sup EXCEPT !.delays = Restrict(@, DOMAIN @ \ {i}),
                        !.waiters = @ \cup {j \in {i} : sup.delays[i].waiter}]
  /\ UNCHANGED <<db, queue, reaper, upd, orch, left>>

(* Cancel on tasks that are no longer in the store: their goroutines can    *)
(* not do anything more, and their waiters find nothing to restart.         *)
Cancelled(s, ids) == [s EXCEPT !.delays = Restrict(@, DOMAIN @ \ ids)]

(* ClearServiceHistory                                                      *)
Forgotten(s) == [s EXCEPT !.history = [k \in Slots |-> NoHistory]]
=============================================================================
