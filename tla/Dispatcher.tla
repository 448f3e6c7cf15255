----------------------------- MODULE Dispatcher -----------------------------
(* The dispatcher of one manager (manager/dispatcher) and the agents that   *)
(* keep sessions with it: registration, heartbeats and their expiry, status *)
(* reports and the batches that write them to the store, nodes that are     *)
(* down and the orphaning of their tasks, Stop and Run as leadership moves. *)
(*                                                                          *)
(* Time is not modelled: an armed timer may fire at any moment, a call may  *)
(* time out at any moment, and the budgets bound how often that happens     *)
(* without cause.  A timer's callback that has started is not recalled by   *)
(* Stop or Reset, as with time.AfterFunc.                                   *)
EXTENDS Naturals, FiniteSets, Sequences

CONSTANTS
  Nodes,        \* worker nodes
  Tasks,        \* tasks, already assigned to a node
  Owner,        \* Owner[t]: the node task t is assigned to
  Streams,      \* Session handlers one node may have at the dispatcher
  NoStream,     \* an agent without a stream
  MaxRegs,      \* bound on the number of registrations
  Budgets       \* the scenarios: which tasks there are and how often the
                \* environment may do what nothing in the swarm causes

Budget ==
  [tasks: SUBSET Tasks, busy: BOOLEAN,
   regs: 0..MaxRegs,   \* registrations
   breaks: Nat,        \* calls that time out or fail without cause
   expiries: Nat,      \* timers that fire although the agent lives
   crashes: Nat,       \* crashes of agents
   stops: Nat,         \* losses of leadership
   late: Nat,          \* calls that take effect late
   exits: Nat,         \* tasks that end
   removals: Nat]      \* nodes and tasks removed from the store

ASSUME DispatcherAssumption ==
  /\ IsFiniteSet(Nodes) /\ IsFiniteSet(Streams)
  /\ Owner \in [Tasks -> Nodes]
  /\ NoStream \notin Streams
  /\ MaxRegs \in Nat
  /\ Budgets \subseteq Budget

(* The states of a task the dispatcher tells apart, in the order of the     *)
(* protobuf enum: Running stands for those from ASSIGNED to RUNNING, Failed *)
(* for the final ones.  None is a task that is not in the store, and no     *)
(* report.                                                                  *)
None == 0
Running == 1
Failed == 2
Orphaned == 3

VARIABLES
  leads,        \* this manager leads the swarm: its store writes succeed
  phase,        \* d.ctx: "off", "on", "cancelled" and, in Stop, "woken"
  nodeState,    \* the store: Status.State of each node, "gone" when removed
  taskState,    \* the store: Status.State of each task
  regs,         \* every registeredNode ever made, in order
  nodes,        \* d.nodes: the registration of each node, 0 when none
  armed,        \* registrations whose heartbeat timer runs
  expiring,     \* where the expiry callback of each registration is
  down,         \* d.downNodes: "none" or "armed"
  orphaning,    \* where the callback of the down timer of each node is
  nodeUpdates,  \* d.nodeUpdates
  taskUpdates,  \* d.taskUpdates
  batch,        \* processUpdates: the maps it took and how far it is
  rpc,          \* the Session handlers
  agent,        \* the agents: alive, their stream and their session id
  actual,       \* what the agent observes of each task
  acked,        \* the last status of each task acknowledged in this session
  late,         \* a status report still in flight after its call was dropped
  left          \* the scenario and what is left of its budget

storeVars == <<nodeState, taskState>>
timerVars == <<armed, expiring, down, orphaning>>
queueVars == <<nodeUpdates, taskUpdates, batch>>
agentVars == <<agent, actual, acked, late>>
vars == <<leads, phase, nodeState, taskState, regs, nodes, armed, expiring, down,
          orphaning, nodeUpdates, taskUpdates, batch, rpc, agent, actual,
          acked, late, left>>

RegIds == 1..MaxRegs
NoUpdate == "none"
IdleRpc == [pc |-> "idle", sid |-> 0]
IdleBatch == [pc |-> "idle", nodeUpd |-> [n \in Nodes |-> NoUpdate],
              taskUpd |-> [t \in Tasks |-> None]]

----------------------------------------------------------------------------
(* Helpers                                                                  *)

isRunning == phase = "on"

(* rn.checkSessionID after a lookup in d.nodes: a node marked unknown has   *)
(* no session id, so no session matches it.                                 *)
GetWithSession(n, sid) ==
  sid # 0 /\ nodes[n] = sid /\ regs[sid].session

(* An older registration that Add or Delete takes out of the map has its    *)
(* timer stopped; a callback that already runs goes on.                     *)
StopTimer(n) == armed \ {nodes[n]}

(* The registration Add or AddUnknown makes; the latter has no session id.  *)
NewReg(n, session) ==
  [node |-> n, session |-> session]

(* Mutated form of Unregistered: the node stays in d.nodes.                 *)
StillRegistered(n) == nodes

(* nodes.Delete.                                                            *)
Unregistered(n) == [nodes EXCEPT ![n] = 0]

(* Mutated form of DownAdded: the node is not added to the down nodes.      *)
DownNotAdded(n) == down

(* downNodes.Add, with a new timer.                                         *)
DownAdded(n) == [down EXCEPT ![n] = "armed"]

(* Mutated form of Dropped: the agent goes on using the closed session.     *)
DroppedStillRegistered(a) == [a EXCEPT !.stream = NoStream]

(* The agent drops its stream: session.close cancels the context, the       *)
(* handler notices when it next looks.                                      *)
Dropped(a) == [a EXCEPT !.stream = NoStream, !.registered = FALSE]

(* The stream is no longer the agent's: stream.Context() is done.           *)
StreamDone(n, s) == ~agent[n].up \/ agent[n].stream # s

(* Mutated form of Unreported: the tasks are not reported again.            *)
StillReported(n) == acked

(* A registered agent reports the status of all its tasks again.            *)
Unreported(n) == [t \in Tasks |-> IF Owner[t] = n THEN None ELSE acked[t]]

(* Mutated form of ApplyStatus: the state in the store is not compared.     *)
ApplyStatusBlindly(old, new) == IF old = None \/ new = None THEN old ELSE new

(* A task update of a batch: an older state never replaces a newer one.     *)
ApplyStatus(old, new) ==
  IF old = None \/ new = None \/ old > new THEN old ELSE new

(* Tasks that could have made progress since the agent became unreachable.  *)
MayProgress(s) == s = Running

(* The tasks of node n that may have made progress are orphaned.            *)
OrphanTasks(n) ==
  [t \in Tasks |-> IF Owner[t] = n /\ MayProgress(taskState[t]) THEN Orphaned
                   ELSE taskState[t]]

(* Handlers that may still register a node.                                 *)
Registering ==
  Cardinality({p \in Nodes \X Streams :
                 rpc[p[1]][p[2]].pc \in {"start", "register", "regLock", "regWait", "add"}})

Spend(b) == left[b] > 0 /\ left' = [left EXCEPT ![b] = @ - 1]

----------------------------------------------------------------------------
(* Session: registration                                                    *)

(* session.start: the agent opens a stream with the session id it last had, *)
(* as long as the bound leaves a registration for it.                       *)
OpenSession(n, s) ==
  /\ agent[n].up /\ agent[n].stream = NoStream
  /\ rpc[n][s].pc = "idle"
  /\ Len(regs) + Registering < left.regs
  /\ agent' = [agent EXCEPT ![n].stream = s]
  /\ rpc' = [rpc EXCEPT ![n][s] = [pc |-> "start", sid |-> agent[n].sid]]
  /\ UNCHANGED <<leads, phase, storeVars, regs, nodes, timerVars, queueVars,
                 actual, acked, late, left>>

(* A handler returns an error: the agent closes the session and will open   *)
(* another.                                                                 *)
Fail(n, s) ==
  /\ rpc' = [rpc EXCEPT ![n][s] = IdleRpc]
  /\ agent' = IF StreamDone(n, s) THEN agent
              ELSE [agent EXCEPT ![n] = Dropped(@)]

(* Session is refused: the dispatcher is stopped, or the node is not in the *)
(* store.                                                                   *)
SessionRefused(n, s) ==
  /\ rpc[n][s].pc = "start"
  /\ \/ ~isRunning
     \/ ~GetWithSession(n, rpc[n][s].sid) /\ nodeState[n] = "gone"
  /\ Fail(n, s)
  /\ UNCHANGED <<leads, phase, storeVars, regs, nodes, timerVars, queueVars,
                 actual, acked, late, left>>

(* CheckRateLimit refuses a node that registers more often than             *)
(* rateLimitCount times in rateLimitPeriod; only a node with a registration *)
(* is limited.  Without time the refusal is an error like any other.        *)
RateLimited(n, s) ==
  /\ rpc[n][s].pc = "start" /\ isRunning
  /\ nodes[n] # 0 /\ ~GetWithSession(n, rpc[n][s].sid)
  /\ Spend("breaks")
  /\ Fail(n, s)
  /\ UNCHANGED <<leads, phase, storeVars, regs, nodes, timerVars, queueVars,
                 actual, acked, late>>

(* register finds the node in the store.                                    *)
BeginRegister(n, s) ==
  /\ rpc[n][s].pc = "start" /\ isRunning
  /\ ~GetWithSession(n, rpc[n][s].sid) /\ nodeState[n] # "gone"
  /\ rpc' = [rpc EXCEPT ![n][s].pc = "register"]
  /\ UNCHANGED <<leads, phase, storeVars, regs, nodes, timerVars, queueVars,
                 agentVars, left>>

(* A stream that names a session the dispatcher knows resumes it.           *)
ResumeSession(n, s) ==
  /\ rpc[n][s].pc = "start" /\ isRunning
  /\ GetWithSession(n, rpc[n][s].sid)
  /\ rpc' = [rpc EXCEPT ![n][s].pc = "resume"]
  /\ UNCHANGED <<leads, phase, storeVars, regs, nodes, timerVars, queueVars,
                 agentVars, left>>

(* markNodeReady, first half: the update is queued and the node leaves the  *)
(* down nodes.  A handler that resumes a session waits like one that        *)
(* registers.                                                               *)
QueueReady(n, s) ==
  /\ rpc[n][s].pc \in {"register", "resume"}
  /\ nodeUpdates' = [nodeUpdates EXCEPT ![n] = "READY"]
  /\ down' = [down EXCEPT ![n] = "none"]
  /\ rpc' = [rpc EXCEPT ![n][s] =
               [pc |-> IF @.pc = "register" THEN "regLock" ELSE "resLock",
                sid |-> IF @.pc = "register" THEN 0 ELSE @.sid]]
  /\ UNCHANGED <<leads, phase, storeVars, regs, nodes, armed, expiring, orphaning,
                 taskUpdates, batch, agentVars, left>>

(* markNodeReady, second half: under processUpdatesLock the handler looks   *)
(* at the context and then waits for the next Broadcast, whoever sends it.  *)
WaitUpdates(n, s) ==
  /\ rpc[n][s].pc \in {"regLock", "resLock"} /\ phase = "on"
  /\ rpc' = [rpc EXCEPT ![n][s].pc = IF @ = "regLock" THEN "regWait" ELSE "resWait"]
  /\ UNCHANGED <<leads, phase, storeVars, regs, nodes, timerVars, queueVars,
                 agentVars, left>>

(* Mutated form of ReadyCancelled: only Broadcast ends the handler.         *)
ReadyNotCancelled(n, s) ==
  /\ FALSE
  /\ UNCHANGED vars

ReadyCancelled(n, s) ==
  /\ rpc[n][s].pc \in {"regLock", "resLock"} /\ phase # "on"
  /\ Fail(n, s)
  /\ UNCHANGED <<leads, phase, storeVars, regs, nodes, timerVars, queueVars,
                 actual, acked, late, left>>

(* Every handler that waits goes on: sync.Cond.Broadcast.                   *)
Broadcast ==
  [n \in Nodes |-> [s \in Streams |->
     CASE rpc[n][s].pc = "regWait" -> [rpc[n][s] EXCEPT !.pc = "add"]
       [] rpc[n][s].pc = "resWait" -> [rpc[n][s] EXCEPT !.pc = "send"]
       [] OTHER -> rpc[n][s]]]

(* nodes.Add: a new session replaces whatever is registered.                *)
Add(n, s) ==
  /\ rpc[n][s].pc = "add"
  /\ LET r == Len(regs) + 1
     IN /\ regs' = Append(regs, NewReg(n, TRUE))
        /\ nodes' = [nodes EXCEPT ![n] = r]
        /\ armed' = StopTimer(n) \cup {r}
        /\ rpc' = [rpc EXCEPT ![n][s] = [pc |-> "send", sid |-> r]]
  /\ UNCHANGED <<leads, phase, storeVars, expiring, down, orphaning, queueVars,
                 agentVars, left>>

(* The first message carries the session id.  The agent that receives it is *)
(* registered and reports the status of all its tasks again.                *)
SendSession(n, s) ==
  /\ rpc[n][s].pc = "send"
  /\ GetWithSession(n, rpc[n][s].sid) /\ ~StreamDone(n, s)
  /\ rpc' = [rpc EXCEPT ![n][s].pc = "loop"]
  /\ agent' = [agent EXCEPT ![n] = [@ EXCEPT !.sid = rpc[n][s].sid,
                                            !.registered = TRUE]]
  /\ acked' = Unreported(n)
  /\ UNCHANGED <<leads, phase, storeVars, regs, nodes, timerVars, queueVars,
                 actual, late, left>>

(* A handler ends: its session was replaced, its stream is gone, or the     *)
(* dispatcher stops.  The last tries to mark the node DISCONNECTED, which   *)
(* markNodeNotReady refuses because the dispatcher is not running.          *)
SessionEnds(n, s) ==
  /\ rpc[n][s].pc \in {"send", "loop"}
  /\ \/ ~GetWithSession(n, rpc[n][s].sid)
     \/ StreamDone(n, s)
     \/ rpc[n][s].pc = "loop" /\ phase # "on"
  /\ Fail(n, s)
  /\ UNCHANGED <<leads, phase, storeVars, regs, nodes, timerVars, queueVars,
                 actual, acked, late, left>>

----------------------------------------------------------------------------
(* Heartbeats and their expiry                                              *)

(* Heartbeat resets the timer of the agent's registration; with an old      *)
(* session the call fails and the agent starts a new one.                   *)
Heartbeat(n) ==
  /\ agent[n].up /\ agent[n].registered
  /\ IF isRunning /\ GetWithSession(n, agent[n].sid)
     THEN /\ armed' = armed \cup {agent[n].sid}
          /\ UNCHANGED agent
     ELSE /\ agent' = [agent EXCEPT ![n] = Dropped(@)]
          /\ UNCHANGED armed
  /\ UNCHANGED <<leads, phase, storeVars, regs, nodes, expiring, down, orphaning,
                 queueVars, rpc, actual, acked, late, left>>

(* A Heartbeat that looked its registration up before it was removed from   *)
(* d.nodes and resets the timer afterwards.                                 *)
LateBeat(n) ==
  LET r == agent[n].sid
  IN /\ agent[n].up /\ agent[n].registered /\ phase # "off"
     /\ nodes[n] # r /\ r \notin armed
     /\ Spend("late")
     /\ armed' = armed \cup {r}
     /\ UNCHANGED <<leads, phase, storeVars, regs, nodes, expiring, down, orphaning,
                    queueVars, rpc, agentVars>>

(* Nobody sends heartbeats for a registration or is about to replace it.    *)
Silent(r) ==
  \/ ~agent[regs[r].node].up
  \/ regs[r].session /\ agent[regs[r].node].sid # r

(* The grace period of a registration ends and its callback starts; for one *)
(* that is not silent that costs budget.                                    *)
Expire(r) ==
  /\ r \in armed /\ expiring[r] = "none"
  /\ IF Silent(r) THEN UNCHANGED left ELSE Spend("expiries")
  /\ armed' = armed \ {r}
  /\ expiring' = [expiring EXCEPT ![r] = "fired"]
  /\ UNCHANGED <<leads, phase, storeVars, regs, nodes, down, orphaning, queueVars,
                 rpc, agentVars>>

(* markNodeNotReady, refused: the dispatcher is stopped or the node is gone.*)
NotReadyRefused(r) ==
  /\ expiring[r] = "fired"
  /\ ~isRunning \/ nodeState[regs[r].node] = "gone"
  /\ expiring' = [expiring EXCEPT ![r] = "none"]
  /\ UNCHANGED <<leads, phase, storeVars, regs, nodes, armed, down, orphaning,
                 queueVars, rpc, agentVars, left>>

(* markNodeNotReady in its critical sections: it looks at the context and   *)
(* the store, the node joins the down nodes, its update is queued, it       *)
(* leaves d.nodes whoever is registered there by now.                       *)
NotReadyCheck(r) ==
  /\ expiring[r] = "fired"
  /\ isRunning /\ nodeState[regs[r].node] # "gone"
  /\ expiring' = [expiring EXCEPT ![r] = "checked"]
  /\ UNCHANGED <<leads, phase, storeVars, regs, nodes, armed, down, orphaning,
                 queueVars, rpc, agentVars, left>>

NotReadyDown(r) ==
  /\ expiring[r] = "checked"
  /\ down' = DownAdded(regs[r].node)
  /\ expiring' = [expiring EXCEPT ![r] = "down"]
  /\ UNCHANGED <<leads, phase, storeVars, regs, nodes, armed, orphaning, queueVars,
                 rpc, agentVars, left>>

NotReadyQueue(r) ==
  /\ expiring[r] = "down"
  /\ nodeUpdates' = [nodeUpdates EXCEPT ![regs[r].node] = "DOWN"]
  /\ expiring' = [expiring EXCEPT ![r] = "queued"]
  /\ UNCHANGED <<leads, phase, storeVars, regs, nodes, armed, down, orphaning,
                 taskUpdates, batch, rpc, agentVars, left>>

NotReadyDelete(r) ==
  LET n == regs[r].node
  IN /\ expiring[r] = "queued"
     /\ armed' = StopTimer(n)
     /\ nodes' = Unregistered(n)
     /\ expiring' = [expiring EXCEPT ![r] = "none"]
     /\ UNCHANGED <<leads, phase, storeVars, regs, down, orphaning, queueVars,
                    rpc, agentVars, left>>

(* A node has been down for the orphan timeout.                             *)
DownExpire(n) ==
  /\ down[n] = "armed" /\ orphaning[n] = "none"
  /\ IF agent[n].up THEN Spend("expiries") ELSE UNCHANGED left
  /\ down' = [down EXCEPT ![n] = "spent"]
  /\ orphaning' = [orphaning EXCEPT ![n] = "fired"]
  /\ UNCHANGED <<leads, phase, storeVars, regs, nodes, armed, expiring, queueVars,
                 rpc, agentVars>>

(* One batch under updateLock, which also covers its reads; it fails as a   *)
(* whole when this manager no longer leads.                                 *)
moveTasksToOrphaned(n) ==
  /\ orphaning[n] = "fired"
  /\ taskState' = IF leads THEN OrphanTasks(n) ELSE taskState
  /\ orphaning' = [orphaning EXCEPT ![n] = "moved"]
  /\ UNCHANGED <<leads, phase, nodeState, regs, nodes, armed, expiring, down,
                 queueVars, rpc, agentVars, left>>

(* The callback ends by taking the node out of the down nodes, even if it   *)
(* was put there again in the meantime.                                     *)
DownDelete(n) ==
  /\ orphaning[n] = "moved"
  /\ down' = [down EXCEPT ![n] = "none"]
  /\ orphaning' = [orphaning EXCEPT ![n] = "none"]
  /\ UNCHANGED <<leads, phase, storeVars, regs, nodes, armed, expiring, queueVars,
                 rpc, agentVars, left>>

----------------------------------------------------------------------------
(* Status reports and the batches                                           *)

(* UpdateTaskStatus: a call with a valid session queues the status unless   *)
(* the task is gone.  With an invalid one it fails and the agent closes the *)
(* session; but NotFound, the answer for a node that is not registered, the *)
(* agent takes for "task unknown" and counts the report as delivered.       *)
UpdateTaskStatus(t) ==
  LET n == Owner[t]
      valid == isRunning /\ GetWithSession(n, agent[n].sid)
      notFound == isRunning /\ nodes[n] = 0
  IN /\ agent[n].up /\ agent[n].registered
     /\ acked[t] # actual[t]
     /\ taskUpdates' = IF valid /\ taskState[t] # None
                       THEN [taskUpdates EXCEPT ![t] = actual[t]] ELSE taskUpdates
     /\ acked' = IF valid \/ notFound THEN [acked EXCEPT ![t] = actual[t]] ELSE acked
     /\ agent' = IF valid \/ notFound THEN agent
                 ELSE [agent EXCEPT ![n] = Dropped(@)]
     /\ UNCHANGED <<leads, phase, storeVars, regs, nodes, timerVars, nodeUpdates,
                    batch, rpc, actual, late, left>>

(* The call is dropped with its session while the report is on its way.     *)
ReportDelayed(t) ==
  LET n == Owner[t]
  IN /\ agent[n].up /\ agent[n].registered
     /\ acked[t] # actual[t] /\ late[t].sid = 0
     /\ Spend("late")
     /\ late' = [late EXCEPT ![t] = [sid |-> agent[n].sid, state |-> actual[t]]]
     /\ agent' = [agent EXCEPT ![n] = Dropped(@)]
     /\ UNCHANGED <<leads, phase, storeVars, regs, nodes, timerVars, queueVars,
                    rpc, actual, acked>>

(* UpdateTaskStatus for that report: the answer reaches nobody.             *)
UpdateTaskStatusLate(t) ==
  /\ late[t].sid # 0
  /\ taskUpdates' =
       IF isRunning /\ GetWithSession(Owner[t], late[t].sid) /\ taskState[t] # None
       THEN [taskUpdates EXCEPT ![t] = late[t].state] ELSE taskUpdates
  /\ late' = [late EXCEPT ![t] = [sid |-> 0, state |-> None]]
  /\ UNCHANGED <<leads, phase, storeVars, regs, nodes, timerVars, nodeUpdates,
                 batch, rpc, agent, actual, acked, left>>

(* processUpdates takes the queues; with nothing in them it returns and     *)
(* wakes nobody.                                                            *)
TakeUpdates ==
  /\ phase # "off" /\ batch.pc = "idle"
  /\ \/ \E n \in Nodes : nodeUpdates[n] # NoUpdate
     \/ \E t \in Tasks : taskUpdates[t] # None
  /\ batch' = [pc |-> "taken", nodeUpd |-> nodeUpdates, taskUpd |-> taskUpdates]
  /\ nodeUpdates' = IdleBatch.nodeUpd
  /\ taskUpdates' = IdleBatch.taskUpd
  /\ UNCHANGED <<leads, phase, storeVars, regs, nodes, timerVars, rpc,
                 agentVars, left>>

(* The batch of processUpdates, one transaction; tasks and nodes that are   *)
(* gone are skipped.  It fails as a whole when this manager does not lead.  *)
WriteUpdates ==
  /\ batch.pc = "taken"
  /\ IF leads
     THEN /\ taskState' = [t \in Tasks |-> ApplyStatus(taskState[t], batch.taskUpd[t])]
          /\ nodeState' = [n \in Nodes |->
               IF nodeState[n] = "gone" \/ batch.nodeUpd[n] = NoUpdate
               THEN nodeState[n] ELSE batch.nodeUpd[n]]
     ELSE UNCHANGED storeVars
  /\ batch' = [batch EXCEPT !.pc = "written"]
  /\ UNCHANGED <<leads, phase, regs, nodes, timerVars, nodeUpdates, taskUpdates,
                 rpc, agentVars, left>>

(* The Broadcast that ends processUpdates, without processUpdatesLock.      *)
EndUpdates ==
  /\ batch.pc = "written"
  /\ batch' = IdleBatch
  /\ rpc' = Broadcast
  /\ UNCHANGED <<leads, phase, storeVars, regs, nodes, timerVars, nodeUpdates,
                 taskUpdates, agentVars, left>>

(* A batch with nothing but updates of nodes that are not modelled.         *)
OtherTraffic ==
  /\ phase = "on" /\ batch.pc = "idle"
  /\ rpc' = Broadcast
  /\ UNCHANGED <<leads, phase, storeVars, regs, nodes, timerVars, queueVars,
                 agentVars, left>>

----------------------------------------------------------------------------
(* Stop and Run                                                             *)

LoseLeadership ==
  /\ leads /\ phase = "on"
  /\ Spend("stops")
  /\ leads' = FALSE
  /\ UNCHANGED <<phase, storeVars, regs, nodes, timerVars, queueVars, rpc,
                 agentVars>>

(* Stop: cancel the context, wake the handlers under processUpdatesLock,    *)
(* wait for every call and the Run loop, forget the nodes.                  *)
StopCancel ==
  /\ phase = "on" /\ ~leads
  /\ phase' = "cancelled"
  /\ UNCHANGED <<leads, storeVars, regs, nodes, timerVars, queueVars, rpc,
                 agentVars, left>>

StopBroadcast ==
  /\ phase = "cancelled"
  /\ phase' = "woken"
  /\ rpc' = Broadcast
  /\ UNCHANGED <<leads, storeVars, regs, nodes, timerVars, queueVars,
                 agentVars, left>>

(* rpcRW.Lock: no call is inside the dispatcher.                            *)
RpcsDone ==
  \A n \in Nodes : \A s \in Streams : rpc[n][s].pc \in {"idle", "start"}

StopClean ==
  /\ phase = "woken"
  /\ RpcsDone
  /\ batch.pc = "idle"
  /\ phase' = "off"
  /\ nodes' = [n \in Nodes |-> 0]
  /\ armed' = armed \ {nodes[n] : n \in Nodes}
  /\ down' = [n \in Nodes |-> "none"]
  /\ UNCHANGED <<leads, storeVars, regs, expiring, orphaning, queueVars, rpc,
                 agentVars, left>>

(* While another manager leads it writes the store, and it may be elected   *)
(* back.                                                                    *)
OtherLeaderWrites(n) ==
  /\ ~leads /\ phase = "off" /\ nodeState[n] # "gone"
  /\ \E st \in {"READY", "DOWN"} \ {nodeState[n]} :
       nodeState' = [nodeState EXCEPT ![n] = st]
  /\ UNCHANGED <<leads, phase, taskState, regs, nodes, timerVars, queueVars, rpc,
                 agentVars, left>>

BecomeLeader ==
  /\ ~leads /\ phase = "off"
  /\ leads' = TRUE
  /\ UNCHANGED <<phase, storeVars, regs, nodes, timerVars, queueVars, rpc,
                 agentVars, left>>

(* The nodes of a set in some order, as FindNodes returns them.             *)
Enumerate(S) ==
  CHOOSE f \in [1..Cardinality(S) -> S] : {f[i] : i \in DOMAIN f} = S

(* Run first moves every node to UNKNOWN with a grace period of its own;    *)
(* nodes found down stay down and wait for the orphan timeout.              *)
markNodesUnknown ==
  LET moved == {n \in Nodes : nodeState[n] \notin {"gone", "DOWN"}}
      order == Enumerate(moved)
      id(i) == Len(regs) + i
  IN /\ regs' = regs \o [i \in DOMAIN order |-> NewReg(order[i], FALSE)]
     /\ nodes' = [n \in Nodes |->
          IF n \in moved THEN id(CHOOSE i \in DOMAIN order : order[i] = n) ELSE nodes[n]]
     /\ armed' = armed \cup {id(i) : i \in DOMAIN order}
     /\ nodeState' = [n \in Nodes |-> IF n \in moved THEN "UNKNOWN" ELSE nodeState[n]]
     /\ down' = [n \in Nodes |-> IF nodeState[n] = "DOWN" THEN "armed" ELSE down[n]]

Run ==
  /\ leads /\ phase = "off"
  /\ Len(regs) + Registering + Cardinality(Nodes) <= left.regs
  /\ phase' = "on"
  /\ nodeUpdates' = IdleBatch.nodeUpd
  /\ taskUpdates' = IdleBatch.taskUpd
  /\ markNodesUnknown
  /\ UNCHANGED <<leads, taskState, expiring, orphaning, batch, rpc, agentVars,
                 left>>

----------------------------------------------------------------------------
(* The agents and the rest of the swarm                                     *)

(* A task ends on its node.                                                 *)
Progress(t) ==
  /\ agent[Owner[t]].up /\ actual[t] = Running
  /\ Spend("exits")
  /\ actual' = [actual EXCEPT ![t] = Failed]
  /\ UNCHANGED <<leads, phase, storeVars, regs, nodes, timerVars, queueVars, rpc,
                 agent, acked, late>>

(* The agent closes its session: it was not answered in time, a call        *)
(* failed, the connection broke or the description of the node changed.     *)
BreakSession(n) ==
  /\ agent[n].up /\ agent[n].stream # NoStream
  /\ Spend("breaks")
  /\ agent' = [agent EXCEPT ![n] = Dropped(@)]
  /\ UNCHANGED <<leads, phase, storeVars, regs, nodes, timerVars, queueVars, rpc,
                 actual, acked, late>>

(* Nothing is left that would wake a handler.                               *)
Quiet == /\ batch.pc = "idle"
         /\ \A n \in Nodes : nodeUpdates[n] = NoUpdate
         /\ \A t \in Tasks : taskUpdates[t] = None

AgentCrash(n) ==
  /\ agent[n].up
  /\ Spend("crashes")
  /\ agent' = [agent EXCEPT ![n] = [up |-> FALSE, stream |-> NoStream, sid |-> 0,
                                    registered |-> FALSE]]
  /\ UNCHANGED <<leads, phase, storeVars, regs, nodes, timerVars, queueVars, rpc,
                 actual, acked, late>>

AgentRestart(n) ==
  /\ ~agent[n].up
  /\ agent' = [agent EXCEPT ![n].up = TRUE]
  /\ UNCHANGED <<leads, phase, storeVars, regs, nodes, timerVars, queueVars, rpc,
                 actual, acked, late, left>>

(* An operator removes a node, a ready one by force, which orphans its      *)
(* tasks in the same transaction. The dispatcher does not look at it: what  *)
(* is registered stays registered.                                          *)
RemoveNode(n) ==
  /\ leads /\ nodeState[n] # "gone"
  /\ Spend("removals")
  /\ nodeState' = [nodeState EXCEPT ![n] = "gone"]
  /\ taskState' = OrphanTasks(n)
  /\ UNCHANGED <<leads, phase, regs, nodes, timerVars, queueVars, rpc, agentVars>>

(* The reaper removes a finished task.                                      *)
RemoveTask(t) ==
  /\ leads /\ taskState[t] >= Failed
  /\ Spend("removals")
  /\ taskState' = [taskState EXCEPT ![t] = None]
  /\ UNCHANGED <<leads, phase, nodeState, regs, nodes, timerVars, queueVars, rpc,
                 agentVars>>

----------------------------------------------------------------------------

Init ==
  /\ leads = TRUE /\ phase = "off"
  /\ nodeState \in [Nodes -> {"UNKNOWN", "DOWN"}]
  /\ left \in Budgets
  /\ taskState = [t \in Tasks |-> IF t \in left.tasks THEN Running ELSE None]
  /\ regs = <<>> /\ nodes = [n \in Nodes |-> 0]
  /\ armed = {} /\ expiring = [r \in RegIds |-> "none"]
  /\ down = [n \in Nodes |-> "none"] /\ orphaning = [n \in Nodes |-> "none"]
  /\ nodeUpdates = IdleBatch.nodeUpd /\ taskUpdates = IdleBatch.taskUpd
  /\ batch = IdleBatch
  /\ rpc = [n \in Nodes |-> [s \in Streams |-> IdleRpc]]
  /\ agent = [n \in Nodes |-> [up |-> TRUE, stream |-> NoStream, sid |-> 0,
                               registered |-> FALSE]]
  /\ actual = taskState /\ acked = [t \in Tasks |-> None]
  /\ late = [t \in Tasks |-> [sid |-> 0, state |-> None]]

Handler(n, s) ==
  \/ SessionRefused(n, s) \/ RateLimited(n, s) \/ BeginRegister(n, s)
  \/ ResumeSession(n, s) \/ QueueReady(n, s) \/ WaitUpdates(n, s)
  \/ ReadyCancelled(n, s) \/ Add(n, s) \/ SendSession(n, s) \/ SessionEnds(n, s)

ExpiryCallback(r) ==
  \/ NotReadyRefused(r) \/ NotReadyCheck(r) \/ NotReadyDown(r)
  \/ NotReadyQueue(r) \/ NotReadyDelete(r)

DownCallback(n) == moveTasksToOrphaned(n) \/ DownDelete(n)

ProcessUpdates == TakeUpdates \/ WriteUpdates \/ EndUpdates

Stop == StopCancel \/ StopBroadcast \/ StopClean

Next ==
  \/ \E n \in Nodes :
       \/ \E s \in Streams : OpenSession(n, s) \/ Handler(n, s)
       \/ Heartbeat(n) \/ LateBeat(n)
       \/ DownExpire(n) \/ DownCallback(n)
       \/ OtherLeaderWrites(n)
       \/ BreakSession(n) \/ AgentCrash(n) \/ AgentRestart(n)
       \/ RemoveNode(n)
  \/ \E r \in DOMAIN regs : Expire(r) \/ ExpiryCallback(r)
  \/ \E t \in Tasks :
       \/ UpdateTaskStatus(t) \/ ReportDelayed(t) \/ UpdateTaskStatusLate(t)
       \/ Progress(t) \/ RemoveTask(t)
  \/ ProcessUpdates \/ OtherTraffic
  \/ LoseLeadership \/ Stop \/ BecomeLeader \/ Run

(* Goroutines that can run do run; a timer whose agent is silent fires; an  *)
(* agent keeps trying to have a session and to report.                      *)
Fairness ==
  /\ \A n \in Nodes :
       /\ \A s \in Streams : WF_vars(Handler(n, s))
       /\ WF_vars(\E s \in Streams : OpenSession(n, s))
       /\ WF_vars(Heartbeat(n))
       /\ WF_vars(~agent[n].up /\ DownExpire(n)) /\ WF_vars(DownCallback(n))
  /\ WF_vars(\E r \in DOMAIN regs : Silent(r) /\ Expire(r))
  /\ WF_vars(\E r \in DOMAIN regs : ExpiryCallback(r))
  /\ \A t \in Tasks : WF_vars(UpdateTaskStatus(t)) /\ WF_vars(UpdateTaskStatusLate(t))
  /\ WF_vars(ProcessUpdates) /\ WF_vars(Stop \/ BecomeLeader \/ Run)

Spec == Init /\ [][Next]_vars /\ Fairness

(* In a busy scenario the swarm is never quiet: reports of other nodes keep *)
(* coming.                                                                  *)
BusySpec == Spec /\ WF_vars(left.busy /\ OtherTraffic)

----------------------------------------------------------------------------
(* Properties                                                               *)

TypeOK ==
  /\ leads \in BOOLEAN /\ phase \in {"off", "on", "cancelled", "woken"}
  /\ nodeState \in [Nodes -> {"UNKNOWN", "READY", "DOWN", "gone"}]
  /\ taskState \in [Tasks -> None..Orphaned]
  /\ Len(regs) <= MaxRegs
  /\ nodes \in [Nodes -> 0..Len(regs)]
  /\ armed \subseteq DOMAIN regs
  /\ expiring \in [RegIds -> {"none", "fired", "checked", "down", "queued"}]
  /\ down \in [Nodes -> {"none", "armed", "spent"}]
  /\ orphaning \in [Nodes -> {"none", "fired", "moved"}]
  /\ nodeUpdates \in [Nodes -> {NoUpdate, "READY", "DOWN"}]
  /\ taskUpdates \in [Tasks -> None..Failed]
  /\ \A n \in Nodes : nodes[n] # 0 => regs[nodes[n]].node = n
  /\ \A n \in Nodes : agent[n].registered => agent[n].stream # NoStream /\ agent[n].sid # 0

(* "The task state can never move backwards": whatever the order of reports,*)
(* batches and orphaning, a task in the store only moves to a greater state,*)
(* and a finished one is left alone until it is removed.                    *)
TaskStatesForward ==
  [][\A t \in Tasks : \/ taskState'[t] = None
                      \/ taskState'[t] >= taskState[t] /\ taskState[t] # Failed
                      \/ taskState'[t] = taskState[t]]_taskState

(* A node in d.nodes is watched: its heartbeat timer runs, or the callback  *)
(* that will take it out has started.                                       *)
RegisteredIsTimed ==
  phase = "on" => \A n \in Nodes :
    nodes[n] # 0 /\ nodeState[n] # "gone" =>
      nodes[n] \in armed \/ expiring[nodes[n]] # "none"

(* Once Stop has returned, no session of the old leadership is left: no     *)
(* node is registered and no call that started before still runs.           *)
StoppedForgets ==
  phase = "off" => \A n \in Nodes :
    nodes[n] = 0 /\ \A s \in Streams : rpc[n][s].pc \in {"idle", "start"}

(* However registrations, expiries, broken calls and Stop interleave, every *)
(* session is accounted for: watched while the dispatcher runs, gone when   *)
(* it has stopped.                                                          *)
SessionsWatched == RegisteredIsTimed /\ StoppedForgets

(* Stop always returns, although handlers may be waiting for a batch that   *)
(* will not come any more.                                                  *)
StopCompletes == phase = "cancelled" ~> phase = "off"

(* The bound keeps the agent from registering, or the dispatcher from       *)
(* running, again.                                                          *)
OutOfRegs(n) ==
  \/ agent[n].stream = NoStream /\ Len(regs) + Registering >= left.regs
  \/ phase = "off" /\ Len(regs) + Registering + Cardinality(Nodes) > left.regs

(* The status reporter promises "ensuring all statuses are reported": what  *)
(* an agent observes of a task reaches the store, through sessions that     *)
(* break, a dispatcher that stops with reports in its queue and a new one   *)
(* that starts with none; in a swarm that is never quiet, since a handler   *)
(* may wait for the batch of somebody else.                                 *)
StatusReportsArrive ==
  \A t \in Tasks :
    []<>(\/ ~left.busy
         \/ taskState[t] = None \/ taskState[t] >= actual[t]
         \/ ~agent[Owner[t]].up \/ nodeState[Owner[t]] = "gone"
         \/ OutOfRegs(Owner[t]))

(* Nothing is under way for the node: no call, no callback, no update.      *)
Settled(n) ==
  /\ phase = "on" /\ leads /\ Quiet
  /\ \A s \in Streams : rpc[n][s].pc \in {"idle", "loop"}
  /\ orphaning[n] = "none"
  /\ \A r \in DOMAIN regs : regs[r].node = n => expiring[r] = "none"

(* An agent that dies while its session is settled is noticed: its node is  *)
(* marked down and in the end none of its tasks counts as running, unless   *)
(* the agent comes back or leadership moves.                                *)
SilentNodeNoticed ==
  \A n \in Nodes :
    (Settled(n) /\ nodes[n] \in armed /\ ~agent[n].up)
      ~> \/ /\ nodeState[n] \in {"DOWN", "gone"}
            /\ \A t \in Tasks : Owner[t] = n => ~MayProgress(taskState[t])
         \/ agent[n].up \/ ~leads

(* "Node should send new heartbeat earlier than now + TTL, otherwise it     *)
(* will be deregistered from dispatcher and its status will be updated to   *)
(* NodeStatus_DOWN": a node whose agent is dead for good is down for good.  *)
DeadNodeGoesDown ==
  \A n \in Nodes :
    <>[](~agent[n].up /\ leads) => <>[](nodeState[n] \in {"DOWN", "gone"})
=============================================================================
