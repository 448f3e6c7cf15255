-------------------------- MODULE DispatcherProofs --------------------------
(* Proofs about Dispatcher, for any finite set of nodes and of streams, any *)
(* tasks, any scenario and any bound on the registrations.                  *)
EXTENDS Dispatcher, FiniteSetTheorems, SequenceTheorems, TLAPS

(* The types of the state, the part TypeOK does not state included: ids of  *)
(* registrations, in calls, in agents and in timers, name one that exists.  *)
RpcPC == {"idle", "start", "register", "regLock", "regWait", "add",
          "resume", "resLock", "resWait", "send", "loop"}
NodeUpd == [Nodes -> {NoUpdate, "READY", "DOWN"}]
TaskUpd == [Tasks -> None..Failed]

StoreTypes ==
  /\ nodeState \in [Nodes -> {"UNKNOWN", "READY", "DOWN", "gone"}]
  /\ taskState \in [Tasks -> None..Orphaned]

RegTypes ==
  /\ regs \in Seq([node: Nodes, session: BOOLEAN])
  /\ nodes \in [Nodes -> 0..Len(regs)]
  /\ armed \subseteq DOMAIN regs
  /\ \A n \in Nodes : nodes[n] # 0 => regs[nodes[n]].node = n

CallTypes ==
  rpc \in [Nodes -> [Streams -> [pc: RpcPC, sid: 0..Len(regs)]]]

AgentTypes ==
  /\ agent \in [Nodes -> [up: BOOLEAN, stream: Streams \cup {NoStream},
                          sid: 0..Len(regs), registered: BOOLEAN]]
  /\ \A n \in Nodes :
       agent[n].registered => agent[n].stream # NoStream /\ agent[n].sid # 0

TimerTypes ==
  /\ expiring \in [RegIds -> {"none", "fired", "checked", "down", "queued"}]
  /\ down \in [Nodes -> {"none", "armed", "spent"}]
  /\ orphaning \in [Nodes -> {"none", "fired", "moved"}]

QueueTypes ==
  /\ nodeUpdates \in NodeUpd /\ taskUpdates \in TaskUpd
  /\ batch \in [pc: {"idle", "taken", "written"}, nodeUpd: NodeUpd, taskUpd: TaskUpd]

ReportTypes ==
  /\ actual \in TaskUpd /\ acked \in TaskUpd
  /\ late \in [Tasks -> [sid: Nat, state: None..Failed]]

ControlTypes ==
  /\ leads \in BOOLEAN /\ phase \in {"off", "on", "cancelled", "woken"}

(* Every handler that may still register a node has a registration set      *)
(* aside for it, so the bound is never passed.                              *)
RegsBounded == left \in Budget /\ Len(regs) + Registering <= left.regs

TypeInv ==
  /\ StoreTypes /\ RegTypes /\ CallTypes /\ AgentTypes /\ TimerTypes
  /\ QueueTypes /\ ReportTypes /\ ControlTypes /\ RegsBounded

(* The inductive invariant.                                                 *)
IInv == TypeInv /\ SessionsWatched

-----------------------------------------------------------------------------
(* The bound on registrations.                                              *)

Pending ==
  {p \in Nodes \X Streams :
     rpc[p[1]][p[2]].pc \in {"start", "register", "regLock", "regWait", "add"}}

(* The handlers that may still register are finitely many.                  *)
LEMMA PendingFinite ==
  IsFiniteSet(Pending) /\ Registering = Cardinality(Pending) /\ Registering \in Nat
<1>1. IsFiniteSet(Nodes \X Streams)
  BY FS_Product, DispatcherAssumption
<1>2. Pending \in SUBSET (Nodes \X Streams)
  BY DEF Pending
<1>3. IsFiniteSet(Pending)
  BY <1>1, <1>2, FS_Subset
<1>4. Registering = Cardinality(Pending)
  BY DEF Pending, Registering
<1> QED BY <1>3, <1>4, FS_CardinalityType

(* A step after which no further handler may register keeps the bound.      *)
LEMMA PendingShrinks ==
  ASSUME RegsBounded, regs \in Seq([node: Nodes, session: BOOLEAN]),
         Pending' \subseteq Pending, UNCHANGED regs,
         left' \in Budget, left'.regs = left.regs
  PROVE  RegsBounded'
<1>1. IsFiniteSet(Pending) /\ Registering = Cardinality(Pending) /\ Registering \in Nat
  BY PendingFinite
<1>2. Registering' = Cardinality(Pending')
  BY DEF Pending, Registering
<1>3. IsFiniteSet(Pending') /\ Cardinality(Pending') <= Cardinality(Pending)
  BY <1>1, FS_Subset
<1>4. Cardinality(Pending') \in Nat
  BY <1>3, FS_CardinalityType
<1>5. Len(regs) \in Nat
  BY LenProperties
<1>6. left.regs \in Nat
  BY DispatcherAssumption DEF RegsBounded, Budget
<1> QED BY <1>1, <1>2, <1>3, <1>4, <1>5, <1>6 DEF RegsBounded

(* In particular a step that leaves the calls alone does.                   *)
LEMMA CallsUnchanged ==
  ASSUME RegsBounded, regs \in Seq([node: Nodes, session: BOOLEAN]),
         UNCHANGED <<rpc, regs>>,
         left' \in Budget, left'.regs = left.regs
  PROVE  RegsBounded'
<1>1. Pending' = Pending
  BY DEF Pending
<1> QED BY <1>1, PendingShrinks

(* What the environment spends is not taken from the registrations.         *)
LEMMA BudgetSpent ==
  ASSUME left \in Budget,
         NEW b \in {"breaks", "expiries", "crashes", "stops", "late", "exits",
                    "removals"},
         Spend(b)
  PROVE  left' \in Budget /\ left'.regs = left.regs
<1>1. left[b] \in Nat /\ left[b] > 0
  BY DEF Spend, Budget
<1>2. left[b] - 1 \in Nat
  BY <1>1
<1>3. left' = [left EXCEPT ![b] = left[b] - 1]
  BY DEF Spend
<1> QED BY <1>2, <1>3 DEF Budget

-----------------------------------------------------------------------------
(* The initial state.                                                       *)

LEMMA InvInit == Init => IInv
<1> SUFFICES ASSUME Init PROVE IInv
  OBVIOUS
<1> USE DEF Init
<1>1. regs \in Seq([node: Nodes, session: BOOLEAN]) /\ Len(regs) = 0 /\ DOMAIN regs = {}
  BY EmptySeq
<1>2. left \in Budget
  BY DispatcherAssumption
<1>3. StoreTypes
  BY DEF StoreTypes, None, Running, Orphaned
<1>4. RegTypes
  BY <1>1 DEF RegTypes
<1>5. CallTypes
  BY <1>1 DEF CallTypes, RpcPC, IdleRpc
<1>6. AgentTypes
  BY <1>1 DEF AgentTypes
<1>7. TimerTypes
  BY DEF TimerTypes
<1>8. QueueTypes
  BY DEF QueueTypes, IdleBatch, NodeUpd, TaskUpd, None, Failed
<1>9. ReportTypes
  BY DEF ReportTypes, TaskUpd, None, Running, Failed
<1>10. ControlTypes
  BY Zenon DEF ControlTypes
<1>11. RegsBounded
  <2>1. Pending = {}
    BY DEF Pending, IdleRpc
  <2>2. Registering = 0
    BY <2>1, PendingFinite, FS_EmptySet
  <2> QED BY <1>1, <1>2, <2>2, DispatcherAssumption DEF RegsBounded, Budget
<1>12. SessionsWatched
  BY DEF SessionsWatched, RegisteredIsTimed, StoppedForgets, IdleRpc
<1> QED
  BY <1>3, <1>4, <1>5, <1>6, <1>7, <1>8, <1>9, <1>10, <1>11, <1>12
  DEF IInv, TypeInv

-----------------------------------------------------------------------------
(* Ids of registrations stay within the bound, and each is of a node.       *)
LEMMA RegIdsType ==
  ASSUME RegTypes, RegsBounded
  PROVE  /\ Len(regs) \in Nat /\ DOMAIN regs = 1..Len(regs) /\ Len(regs) <= MaxRegs
         /\ \A r \in DOMAIN regs : r \in RegIds /\ regs[r].node \in Nodes
         /\ \A n \in Nodes : nodes[n] # 0 => nodes[n] \in DOMAIN regs
<1>1. Len(regs) \in Nat /\ DOMAIN regs = 1..Len(regs)
  BY LenProperties DEF RegTypes
<1>2. left.regs \in 0..MaxRegs
  BY DEF RegsBounded, Budget
<1>3. Registering \in Nat
  BY PendingFinite
<1>4. Len(regs) <= MaxRegs
  BY <1>1, <1>2, <1>3, DispatcherAssumption DEF RegsBounded
<1>5. \A r \in DOMAIN regs : regs[r] \in [node: Nodes, session: BOOLEAN]
  BY <1>1, ElementOfSeq DEF RegTypes
<1>6. \A r \in DOMAIN regs : r \in RegIds
  BY <1>1, <1>4, DispatcherAssumption DEF RegIds
<1>7. \A n \in Nodes : nodes[n] # 0 => nodes[n] \in DOMAIN regs
  BY <1>1 DEF RegTypes
<1> QED BY <1>1, <1>4, <1>5, <1>6, <1>7

(* An agent that drops its stream is no longer registered.                  *)
LEMMA AgentDropped ==
  ASSUME AgentTypes, UNCHANGED regs, NEW n \in Nodes,
         agent' = [agent EXCEPT ![n] = Dropped(@)]
  PROVE  AgentTypes'
BY DEF AgentTypes, Dropped

-----------------------------------------------------------------------------
(* One lemma per actor: its steps keep the invariant.                       *)

PendingPC == {"start", "register", "regLock", "regWait", "add"}
Call == [pc: RpcPC, sid: 0..Len(regs)]

(* What a step of a handler does to its call: it stays one that the stopped *)
(* dispatcher may have, and only a call that is opened begins to register.  *)
LEMMA CallStep ==
  ASSUME IInv, NEW n \in Nodes, NEW s \in Streams,
         OpenSession(n, s) \/ Handler(n, s), ~Add(n, s)
  PROVE  \E c \in Call :
           /\ rpc' = [rpc EXCEPT ![n][s] = c]
           /\ c.pc \in PendingPC => OpenSession(n, s) \/ rpc[n][s].pc \in PendingPC
           /\ phase = "off" => c.pc \in {"idle", "start"}
<1> DEFINE P(c) == /\ rpc' = [rpc EXCEPT ![n][s] = c]
                   /\ c.pc \in PendingPC => OpenSession(n, s) \/ rpc[n][s].pc \in PendingPC
                   /\ phase = "off" => c.pc \in {"idle", "start"}
           new(pc) == [rpc[n][s] EXCEPT !.pc = pc]
<1> USE DEF Call, RpcPC, PendingPC
<1>0. /\ rpc[n][s] \in Call /\ 0 \in 0..Len(regs) /\ agent[n].sid \in 0..Len(regs)
      /\ rpc \in [Nodes -> [Streams -> Call]]
      /\ phase = "off" => rpc[n][s].pc \in {"idle", "start"}
  BY LenProperties DEF IInv, TypeInv, CallTypes, RegTypes, AgentTypes,
                       SessionsWatched, StoppedForgets
<1>1. CASE OpenSession(n, s)
  <2>1. P([pc |-> "start", sid |-> agent[n].sid])
    BY <1>1 DEF OpenSession
  <2>2. [pc |-> "start", sid |-> agent[n].sid] \in Call
    BY <1>0
  <2> QED BY <2>1, <2>2
<1>2. CASE Fail(n, s)
  <2>1. P(IdleRpc) /\ IdleRpc \in Call
    BY <1>0, <1>2 DEF Fail, IdleRpc
  <2> QED BY <2>1
<1>3. CASE BeginRegister(n, s)
  <2>1. P(new("register")) /\ new("register") \in Call
    BY <1>0, <1>3 DEF BeginRegister, isRunning
  <2> QED BY <2>1
<1>4. CASE ResumeSession(n, s)
  <2>1. P(new("resume")) /\ new("resume") \in Call
    BY <1>0, <1>4 DEF ResumeSession, isRunning
  <2> QED BY <2>1
<1>5. CASE QueueReady(n, s)
  <2> DEFINE c == [pc |-> IF rpc[n][s].pc = "register" THEN "regLock" ELSE "resLock",
                   sid |-> IF rpc[n][s].pc = "register" THEN 0 ELSE rpc[n][s].sid]
  <2>1. P(c) /\ c \in Call
    BY <1>0, <1>5 DEF QueueReady
  <2> QED BY <2>1
<1>6. CASE WaitUpdates(n, s)
  <2> DEFINE pc == IF rpc[n][s].pc = "regLock" THEN "regWait" ELSE "resWait"
  <2>1. P(new(pc)) /\ new(pc) \in Call
    BY <1>0, <1>6 DEF WaitUpdates
  <2> QED BY <2>1
<1>7. CASE SendSession(n, s)
  <2>1. P(new("loop")) /\ new("loop") \in Call
    BY <1>0, <1>7 DEF SendSession
  <2> QED BY <2>1
<1> QED BY <1>1, <1>2, <1>3, <1>4, <1>5, <1>6, <1>7
        DEF Handler, SessionRefused, RateLimited, ReadyCancelled, SessionEnds

(* What a step of a handler does to its agent.                              *)
LEMMA CallAgentStep ==
  ASSUME IInv, NEW n \in Nodes, NEW s \in Streams,
         OpenSession(n, s) \/ Handler(n, s), ~Add(n, s)
  PROVE  AgentTypes'
<1>0. /\ agent \in [Nodes -> [up: BOOLEAN, stream: Streams \cup {NoStream},
                               sid: 0..Len(regs), registered: BOOLEAN]]
      /\ \A m \in Nodes :
           agent[m].registered => agent[m].stream # NoStream /\ agent[m].sid # 0
      /\ rpc[n][s].sid \in 0..Len(regs)
  BY DEF IInv, TypeInv, AgentTypes, CallTypes
<1>1. UNCHANGED regs
  BY DEF OpenSession, Handler, SessionRefused, RateLimited, BeginRegister,
         ResumeSession, QueueReady, WaitUpdates, ReadyCancelled, SendSession,
         SessionEnds
<1>2. CASE OpenSession(n, s)
  BY <1>0, <1>1, <1>2, DispatcherAssumption DEF OpenSession, AgentTypes
<1>3. CASE Fail(n, s)
  BY <1>0, <1>1, <1>3 DEF Fail, Dropped, AgentTypes
<1>4. CASE SendSession(n, s)
  <2>1. agent' = [agent EXCEPT ![n] = [@ EXCEPT !.sid = rpc[n][s].sid,
                                                !.registered = TRUE]]
        /\ agent[n].stream = s /\ rpc[n][s].sid # 0
    BY <1>4 DEF SendSession, GetWithSession, StreamDone
  <2> QED BY <1>0, <1>1, <2>1, DispatcherAssumption DEF AgentTypes
<1>5. CASE UNCHANGED agent
  BY <1>0, <1>1, <1>5 DEF AgentTypes
<1> QED BY <1>2, <1>3, <1>4, <1>5
        DEF Handler, SessionRefused, RateLimited, ReadyCancelled, SessionEnds,
            BeginRegister, ResumeSession, QueueReady, WaitUpdates, agentVars

(* A call of Session up to the registration and after it.                   *)
LEMMA InvCall ==
  ASSUME IInv, NEW n \in Nodes, NEW s \in Streams,
         OpenSession(n, s) \/ Handler(n, s), ~Add(n, s)
  PROVE  IInv'
<1> USE DEF IInv, TypeInv
<1>0. PICK c \in Call :
           /\ rpc' = [rpc EXCEPT ![n][s] = c]
           /\ c.pc \in PendingPC => OpenSession(n, s) \/ rpc[n][s].pc \in PendingPC
           /\ phase = "off" => c.pc \in {"idle", "start"}
  BY CallStep
<1>1. /\ UNCHANGED <<leads, phase, storeVars, regs, nodes, armed, expiring, orphaning,
                     taskUpdates, batch, actual, late>>
      /\ nodeUpdates' \in {nodeUpdates, [nodeUpdates EXCEPT ![n] = "READY"]}
      /\ down' \in {down, [down EXCEPT ![n] = "none"]}
      /\ acked' \in {acked, Unreported(n)}
      /\ UNCHANGED left \/ Spend("breaks")
  BY DEF timerVars, queueVars, agentVars, OpenSession, Handler, SessionRefused,
         RateLimited, BeginRegister, ResumeSession, QueueReady, WaitUpdates,
         ReadyCancelled, SendSession, SessionEnds
<1>2. StoreTypes'
  BY <1>1 DEF StoreTypes, storeVars
<1>3. RegTypes'
  BY <1>1 DEF RegTypes
<1>4. ControlTypes'
  BY <1>1, Zenon DEF ControlTypes
<1>5. TimerTypes'
  BY <1>1 DEF TimerTypes
<1>6. QueueTypes'
  BY <1>1 DEF QueueTypes, NodeUpd
<1>7. ReportTypes'
  BY <1>1 DEF ReportTypes, TaskUpd, Unreported, None, Failed
<1>8. CallTypes'
  BY <1>0, <1>1 DEF CallTypes, Call
<1>9. AgentTypes'
  BY CallAgentStep
<1>10. RegsBounded'
  <2>1. left' \in Budget /\ left'.regs = left.regs
    BY <1>1, BudgetSpent DEF RegsBounded
  <2>2. CASE OpenSession(n, s)
    <3>1. Pending' \subseteq Pending \cup {<<n, s>>}
      BY <1>0 DEF Pending, CallTypes, PendingPC
    <3>2. Cardinality(Pending') <= Cardinality(Pending) + 1 /\ Cardinality(Pending') \in Nat
      <4> DEFINE S == Pending \cup {<<n, s>>}
      <4>1. IsFiniteSet(S) /\ Cardinality(S) \in {Cardinality(Pending), Cardinality(Pending) + 1}
        BY FS_AddElement, PendingFinite
      <4>2. Pending' \in SUBSET S
        BY <3>1
      <4>3. IsFiniteSet(Pending') /\ Cardinality(Pending') <= Cardinality(S)
        BY <4>1, <4>2, FS_Subset
      <4>4. Cardinality(Pending') \in Nat
        BY <4>3, FS_CardinalityType
      <4> QED BY <4>1, <4>3, <4>4, PendingFinite
    <3>3. Registering' = Cardinality(Pending')
      BY DEF Registering, Pending
    <3>4. Len(regs) \in Nat /\ left.regs \in Nat
      BY LenProperties, DispatcherAssumption DEF RegTypes, RegsBounded, Budget
    <3>5. Len(regs) + Registering < left.regs
      BY <2>2 DEF OpenSession
    <3> QED BY <1>1, <2>1, <3>2, <3>3, <3>4, <3>5, PendingFinite DEF RegsBounded
  <2>3. CASE ~OpenSession(n, s)
    <3>1. Pending' \subseteq Pending
      BY <1>0, <2>3 DEF Pending, CallTypes, PendingPC
    <3> QED BY <1>1, <2>1, <3>1, PendingShrinks DEF RegTypes
  <2> QED BY <2>2, <2>3
<1>11. SessionsWatched'
  <2>1. RegisteredIsTimed'
    BY <1>1 DEF SessionsWatched, RegisteredIsTimed, storeVars
  <2>2. StoppedForgets'
    BY <1>0, <1>1 DEF SessionsWatched, StoppedForgets, CallTypes
  <2> QED BY <2>1, <2>2 DEF SessionsWatched
<1> QED
  BY <1>2, <1>3, <1>4, <1>5, <1>6, <1>7, <1>8, <1>9, <1>10, <1>11

(* nodes.Add uses the registration set aside for it.  Registrations of      *)
(* different nodes differ, so replacing one stops no other's timer.         *)
LEMMA InvAdd ==
  ASSUME IInv, NEW n \in Nodes, NEW s \in Streams, Add(n, s)
  PROVE  IInv'
<1> DEFINE r == Len(regs) + 1
           Reg == [node: Nodes, session: BOOLEAN]
<1> USE DEF IInv, TypeInv
<1>0. /\ rpc[n][s].pc = "add"
      /\ regs' = Append(regs, NewReg(n, TRUE))
      /\ nodes' = [nodes EXCEPT ![n] = r]
      /\ armed' = StopTimer(n) \cup {r}
      /\ rpc' = [rpc EXCEPT ![n][s] = [pc |-> "send", sid |-> r]]
      /\ UNCHANGED <<leads, phase, storeVars, expiring, down, orphaning, queueVars,
                     agentVars, left>>
  BY DEF Add
<1>1. /\ regs \in Seq(Reg) /\ NewReg(n, TRUE) \in Reg /\ Len(regs) \in Nat
  BY LenProperties DEF RegTypes, NewReg
<1>2. /\ regs' \in Seq(Reg) /\ Len(regs') = r /\ regs'[r] = NewReg(n, TRUE)
      /\ \A i \in 1..Len(regs) : regs'[i] = regs[i]
      /\ DOMAIN regs = 1..Len(regs) /\ DOMAIN regs' = 1..r
  <2> DEFINE e == NewReg(n, TRUE)
  <2> HIDE DEF e, Reg
  <2>0. regs \in Seq(Reg) /\ e \in Reg
    BY <1>1 DEF e
  <2>1. /\ Append(regs, e) \in Seq(Reg) /\ Len(Append(regs, e)) = Len(regs) + 1
        /\ \A i \in 1..Len(regs) : Append(regs, e)[i] = regs[i]
        /\ Append(regs, e)[Len(regs) + 1] = e
    BY <2>0, AppendProperties
  <2>2. DOMAIN regs = 1..Len(regs) /\ DOMAIN Append(regs, e) = 1..Len(Append(regs, e))
    BY <1>1, <2>1, LenProperties
  <2> QED BY <1>0, <2>1, <2>2 DEF e
<1>3. StoreTypes' /\ TimerTypes'
  BY <1>0 DEF StoreTypes, storeVars, TimerTypes
<1>4. RegTypes'
  BY <1>0, <1>1, <1>2 DEF RegTypes, NewReg, StopTimer
<1>5. ControlTypes'
  BY <1>0, Zenon DEF ControlTypes
<1>6. QueueTypes' /\ ReportTypes'
  BY <1>0 DEF QueueTypes, ReportTypes, queueVars, agentVars
<1>7. CallTypes'
  BY <1>0, <1>1, <1>2 DEF CallTypes, RpcPC
<1>8. AgentTypes'
  BY <1>0, <1>1, <1>2 DEF AgentTypes, agentVars
<1>9. RegsBounded'
  <2>1. Pending' = Pending \ {<<n, s>>} /\ <<n, s>> \in Pending
    BY <1>0 DEF Pending, CallTypes
  <2>2. Cardinality(Pending') = Cardinality(Pending) - 1
    BY <2>1, PendingFinite, FS_RemoveElement
  <2>3. Registering' = Cardinality(Pending')
    BY DEF Registering, Pending
  <2> QED BY <1>0, <1>1, <1>2, <2>2, <2>3, PendingFinite DEF RegsBounded
<1>10. SessionsWatched'
  <2>1. RegisteredIsTimed'
    BY <1>0, <1>1, <1>2 DEF SessionsWatched, RegisteredIsTimed, StopTimer, RegTypes,
                            storeVars
  <2>2. StoppedForgets'
    BY <1>0 DEF SessionsWatched, StoppedForgets
  <2> QED BY <2>1, <2>2 DEF SessionsWatched
<1> QED
  BY <1>3, <1>4, <1>5, <1>6, <1>7, <1>8, <1>9, <1>10

(* Heartbeats, in time or late, and timers: they arm timers of              *)
(* registrations that exist, and a timer that fires leaves its callback.    *)
LEMMA InvTimer ==
  ASSUME IInv,
         \/ \E n \in Nodes : Heartbeat(n) \/ LateBeat(n)
         \/ \E r \in DOMAIN regs : Expire(r)
  PROVE  IInv'
<1> USE DEF IInv, TypeInv
<1>0. Len(regs) \in Nat /\ DOMAIN regs = 1..Len(regs)
  BY LenProperties DEF RegTypes
<1>1. /\ UNCHANGED <<leads, phase, storeVars, regs, nodes, down, orphaning, queueVars,
                     rpc, actual, acked, late>>
      /\ UNCHANGED left \/ Spend("late") \/ Spend("expiries")
  BY DEF Heartbeat, LateBeat, Expire, agentVars
<1>2. AgentTypes'
  <2>1. CASE UNCHANGED agent
    BY <1>1, <2>1 DEF AgentTypes
  <2>2. CASE \E n \in Nodes : agent' = [agent EXCEPT ![n] = Dropped(@)]
    <3>1. PICK n \in Nodes : agent' = [agent EXCEPT ![n] = Dropped(@)]
      BY <2>2
    <3> QED BY <1>1, <3>1, AgentDropped
  <2> QED BY <2>1, <2>2 DEF Heartbeat, LateBeat, Expire, agentVars
<1>3. armed' \subseteq DOMAIN regs
  BY <1>0 DEF Heartbeat, LateBeat, Expire, RegTypes, AgentTypes
<1>4. RegTypes' /\ StoreTypes' /\ CallTypes' /\ QueueTypes' /\ ReportTypes'
  BY <1>1, <1>3 DEF RegTypes, StoreTypes, CallTypes, QueueTypes, ReportTypes,
                    storeVars, queueVars
<1>5. ControlTypes'
  BY <1>1, Zenon DEF ControlTypes
<1>6. TimerTypes'
  BY <1>1 DEF TimerTypes, Heartbeat, LateBeat, Expire
<1>7. RegsBounded'
  <2>1. left' \in Budget /\ left'.regs = left.regs
    BY <1>1, BudgetSpent DEF RegsBounded
  <2> QED BY <1>1, <2>1, CallsUnchanged DEF RegTypes
<1>8. SessionsWatched'
  <2>1. StoppedForgets'
    BY <1>1 DEF SessionsWatched, StoppedForgets
  <2>2. CASE \E n \in Nodes : Heartbeat(n) \/ LateBeat(n)
    <3>1. armed \subseteq armed' /\ UNCHANGED expiring
      BY <2>2 DEF Heartbeat, LateBeat
    <3> QED BY <1>1, <2>1, <3>1 DEF SessionsWatched, RegisteredIsTimed, storeVars
  <2>3. CASE \E r \in DOMAIN regs : Expire(r)
    <3>1. PICK r \in DOMAIN regs : Expire(r)
      BY <2>3
    <3>2. r \in RegIds
      BY RegIdsType
    <3>3. armed' = armed \ {r} /\ expiring'[r] = "fired"
          /\ \A q \in RegIds \ {r} : expiring'[q] = expiring[q]
      BY <3>1, <3>2 DEF Expire, TimerTypes
    <3>4. \A n \in Nodes : nodes[n] # 0 => nodes[n] \in RegIds
      BY RegIdsType
    <3>5. RegisteredIsTimed'
      BY <1>1, <3>3, <3>4 DEF SessionsWatched, RegisteredIsTimed, storeVars
    <3> QED BY <2>1, <3>5 DEF SessionsWatched
  <2> QED BY <2>2, <2>3
<1> QED BY <1>2, <1>4, <1>5, <1>6, <1>7, <1>8

(* The callback of a heartbeat timer: as long as it runs its node counts as *)
(* watched, and it ends with the node out of d.nodes, with the node gone,   *)
(* or with the dispatcher stopped.                                          *)
LEMMA InvExpiry ==
  ASSUME IInv, NEW r \in DOMAIN regs, ExpiryCallback(r)
  PROVE  IInv'
<1> USE DEF IInv, TypeInv, ExpiryCallback
<1> DEFINE n == regs[r].node
<1>0. /\ Len(regs) \in Nat /\ DOMAIN regs = 1..Len(regs) /\ n \in Nodes
  BY RegIdsType
<1>1. /\ r \in RegIds
      /\ \A m \in Nodes : nodes[m] # 0 => nodes[m] \in RegIds
  BY RegIdsType
<1>2. /\ UNCHANGED <<leads, phase, storeVars, regs, orphaning, taskUpdates, batch, rpc,
                     agentVars, left>>
      /\ down' \in {down, [down EXCEPT ![n] = "armed"]}
      /\ nodeUpdates' \in {nodeUpdates, [nodeUpdates EXCEPT ![n] = "DOWN"]}
      /\ \E pc \in {"none", "checked", "down", "queued"} :
           expiring' = [expiring EXCEPT ![r] = pc]
  BY DEF NotReadyRefused, NotReadyCheck, NotReadyDown, NotReadyQueue, NotReadyDelete,
         DownAdded, queueVars
<1>3. \/ UNCHANGED <<nodes, armed>>
      \/ /\ nodes' = [nodes EXCEPT ![n] = 0] /\ armed' = armed \ {nodes[n]}
  BY DEF NotReadyRefused, NotReadyCheck, NotReadyDown, NotReadyQueue, NotReadyDelete,
         Unregistered, StopTimer
<1>4. StoreTypes' /\ CallTypes' /\ AgentTypes' /\ ReportTypes'
  BY <1>2 DEF StoreTypes, CallTypes, AgentTypes, ReportTypes, storeVars, agentVars
<1>5. ControlTypes'
  BY <1>2, Zenon DEF ControlTypes
<1>6. RegTypes'
  BY <1>0, <1>2, <1>3, SMTT(20) DEF RegTypes
<1>7. TimerTypes'
  BY <1>0, <1>2, ZenonT(40) DEF TimerTypes
<1>8. QueueTypes'
  BY <1>0, <1>2 DEF QueueTypes, NodeUpd
<1>9. RegsBounded'
  BY <1>2, CallsUnchanged DEF RegTypes, RegsBounded
<1>10. StoppedForgets'
  BY <1>0, <1>2, <1>3 DEF SessionsWatched, StoppedForgets, RegTypes
<1>11. RegisteredIsTimed'
  <2>1. CASE NotReadyRefused(r)
    BY <1>0, <1>1, <2>1 DEF NotReadyRefused, SessionsWatched, RegisteredIsTimed,
                       RegTypes, TimerTypes, storeVars, isRunning
  <2>2. CASE NotReadyDelete(r)
    BY <1>0, <1>1, <2>2 DEF NotReadyDelete, SessionsWatched, RegisteredIsTimed,
                       RegTypes, TimerTypes, storeVars, Unregistered, StopTimer
  <2>3. CASE NotReadyCheck(r) \/ NotReadyDown(r) \/ NotReadyQueue(r)
    <3>1. UNCHANGED <<nodes, armed>> /\ expiring'[r] # "none"
          /\ \A q \in RegIds \ {r} : expiring'[q] = expiring[q]
      BY <1>1, <2>3 DEF NotReadyCheck, NotReadyDown, NotReadyQueue, TimerTypes
    <3> QED BY <1>1, <1>2, <3>1 DEF SessionsWatched, RegisteredIsTimed, storeVars
  <2> QED BY <2>1, <2>2, <2>3
<1> QED
  BY <1>4, <1>5, <1>6, <1>7, <1>8, <1>9, <1>10, <1>11 DEF SessionsWatched

(* Orphaning and status reports: neither touches a registration.            *)
LEMMA InvReport ==
  ASSUME IInv,
         \/ \E n \in Nodes : DownExpire(n) \/ DownCallback(n)
         \/ \E t \in Tasks : \/ UpdateTaskStatus(t) \/ ReportDelayed(t)
                             \/ UpdateTaskStatusLate(t)
  PROVE  IInv'
<1> USE DEF IInv, TypeInv
<1>1. /\ UNCHANGED <<leads, phase, nodeState, regs, nodes, armed, expiring, nodeUpdates,
                     batch, rpc, actual>>
      /\ UNCHANGED left \/ Spend("late") \/ Spend("expiries")
  BY DEF DownExpire, DownCallback, moveTasksToOrphaned, DownDelete, UpdateTaskStatus,
         ReportDelayed, UpdateTaskStatusLate, storeVars, timerVars, queueVars, agentVars
<1>2. RegTypes' /\ CallTypes'
  BY <1>1 DEF RegTypes, CallTypes
<1>3. ControlTypes'
  BY <1>1, Zenon DEF ControlTypes
<1>4. SessionsWatched'
  BY <1>1 DEF SessionsWatched, RegisteredIsTimed, StoppedForgets
<1>5. RegsBounded'
  <2>1. left' \in Budget /\ left'.regs = left.regs
    BY <1>1, BudgetSpent DEF RegsBounded
  <2> QED BY <1>1, <2>1, CallsUnchanged DEF RegTypes
<1>6. CASE \E n \in Nodes : DownExpire(n) \/ DownCallback(n)
  <2>1. StoreTypes'
    BY <1>6 DEF StoreTypes, DownExpire, DownCallback, moveTasksToOrphaned, DownDelete,
                OrphanTasks, storeVars, None, Orphaned
  <2>2. TimerTypes'
    BY <1>6 DEF TimerTypes, DownExpire, DownCallback, moveTasksToOrphaned, DownDelete
  <2>3. AgentTypes' /\ ReportTypes' /\ QueueTypes'
    BY <1>6 DEF AgentTypes, ReportTypes, QueueTypes, DownExpire, DownCallback,
                moveTasksToOrphaned, DownDelete, queueVars, agentVars
  <2> QED BY <1>2, <1>3, <1>4, <1>5, <2>1, <2>2, <2>3
<1>7. ASSUME NEW t \in Tasks,
             UpdateTaskStatus(t) \/ ReportDelayed(t) \/ UpdateTaskStatusLate(t)
      PROVE  IInv'
  <2>0. Owner[t] \in Nodes
    BY DispatcherAssumption
  <2>1. StoreTypes' /\ TimerTypes'
    BY <1>7 DEF StoreTypes, TimerTypes, UpdateTaskStatus, ReportDelayed,
                UpdateTaskStatusLate, storeVars, timerVars
  <2>2. QueueTypes'
    BY <1>1, <1>7 DEF QueueTypes, TaskUpd, ReportTypes, UpdateTaskStatus, ReportDelayed,
                UpdateTaskStatusLate, queueVars
  <2>3. ReportTypes'
    <3>1. acked' \in TaskUpd
      BY <1>7 DEF TaskUpd, ReportTypes, UpdateTaskStatus, ReportDelayed,
                  UpdateTaskStatusLate
    <3>2. late' \in [Tasks -> [sid: Nat, state: None..Failed]]
      <4>1. agent[Owner[t]].sid \in Nat /\ actual[t] \in None..Failed
            /\ None \in None..Failed
        BY <2>0, LenProperties DEF AgentTypes, RegTypes, ReportTypes, TaskUpd, None, Failed
      <4>2. \/ UNCHANGED late
            \/ late' = [late EXCEPT ![t] = [sid |-> agent[Owner[t]].sid,
                                            state |-> actual[t]]]
            \/ late' = [late EXCEPT ![t] = [sid |-> 0, state |-> None]]
        BY <1>7 DEF UpdateTaskStatus, ReportDelayed, UpdateTaskStatusLate
      <4>3. \A c \in [sid: Nat, state: None..Failed] :
              [late EXCEPT ![t] = c] \in [Tasks -> [sid: Nat, state: None..Failed]]
        BY DEF ReportTypes
      <4>4. /\ [sid |-> agent[Owner[t]].sid, state |-> actual[t]]
                 \in [sid: Nat, state: None..Failed]
            /\ [sid |-> 0, state |-> None] \in [sid: Nat, state: None..Failed]
        BY <4>1
      <4> QED BY <4>2, <4>3, <4>4 DEF ReportTypes
    <3> QED BY <1>1, <3>1, <3>2 DEF ReportTypes
  <2>4. AgentTypes'
    <3>1. UNCHANGED agent \/ agent' = [agent EXCEPT ![Owner[t]] = Dropped(@)]
      BY <1>7 DEF UpdateTaskStatus, ReportDelayed, UpdateTaskStatusLate
    <3>2. CASE UNCHANGED agent
      BY <1>1, <3>2 DEF AgentTypes
    <3> QED BY <1>1, <2>0, <3>1, <3>2, AgentDropped
  <2> QED BY <1>2, <1>3, <1>4, <1>5, <2>1, <2>2, <2>3, <2>4
<1> QED BY <1>6, <1>7

(* Broadcast wakes the handlers that wait; it starts none, and none that    *)
(* begins to register.                                                      *)
LEMMA BroadcastStep ==
  ASSUME IInv, rpc' = Broadcast, UNCHANGED <<regs, left>>
  PROVE  /\ CallTypes' /\ RegsBounded'
         /\ \A n \in Nodes, s \in Streams :
              rpc[n][s].pc \in {"idle", "start"} => rpc'[n][s].pc \in {"idle", "start"}
<1>0. rpc \in [Nodes -> [Streams -> Call]]
  BY DEF IInv, TypeInv, CallTypes, Call
<1>1. \A n \in Nodes, s \in Streams :
        /\ rpc'[n][s] \in Call
        /\ rpc'[n][s].pc \in PendingPC => rpc[n][s].pc \in PendingPC
        /\ rpc[n][s].pc \in {"idle", "start"} => rpc'[n][s].pc \in {"idle", "start"}
  <2> TAKE n \in Nodes, s \in Streams
  <2>1. rpc[n][s] \in Call
    BY <1>0
  <2>2. rpc'[n][s] = CASE rpc[n][s].pc = "regWait" -> [rpc[n][s] EXCEPT !.pc = "add"]
                       [] rpc[n][s].pc = "resWait" -> [rpc[n][s] EXCEPT !.pc = "send"]
                       [] OTHER -> rpc[n][s]
    BY DEF Broadcast
  <2> QED BY <2>1, <2>2 DEF Call, RpcPC, PendingPC
<1>2. CallTypes'
  <2>1. rpc' = [n \in Nodes |-> [s \in Streams |-> rpc'[n][s]]]
    BY DEF Broadcast
  <2>2. rpc' \in [Nodes -> [Streams -> Call]]
    BY <1>1, <2>1
  <2> QED BY <2>2 DEF CallTypes, Call
<1>3. Pending' \subseteq Pending
  BY <1>1 DEF Pending, PendingPC
<1> QED BY <1>1, <1>2, <1>3, PendingShrinks DEF IInv, TypeInv, RegTypes, RegsBounded

(* The batches.  A node that is gone stays gone.                            *)
LEMMA InvBatch ==
  ASSUME IInv, ProcessUpdates \/ OtherTraffic
  PROVE  IInv'
<1> USE DEF IInv, TypeInv, ProcessUpdates
<1>1. /\ UNCHANGED <<leads, phase, regs, nodes, timerVars, agentVars, left>>
  BY DEF TakeUpdates, WriteUpdates, EndUpdates, OtherTraffic
<1>2. rpc' = rpc \/ rpc' = Broadcast
  BY DEF TakeUpdates, WriteUpdates, EndUpdates, OtherTraffic
<1>3. RegTypes' /\ AgentTypes' /\ TimerTypes' /\ ReportTypes'
  BY <1>1 DEF RegTypes, AgentTypes, TimerTypes, ReportTypes, timerVars, agentVars
<1>4. ControlTypes'
  BY <1>1, Zenon DEF ControlTypes
<1>5. CallTypes' /\ RegsBounded'
  BY <1>1, <1>2, BroadcastStep, CallsUnchanged DEF CallTypes, RegsBounded, RegTypes
<1>6. IdleBatch \in [pc: {"idle", "taken", "written"}, nodeUpd: NodeUpd, taskUpd: TaskUpd]
      /\ IdleBatch.nodeUpd \in NodeUpd /\ IdleBatch.taskUpd \in TaskUpd
  BY DEF IdleBatch, NodeUpd, TaskUpd, None, Failed
<1>7. QueueTypes'
  BY <1>6 DEF QueueTypes, TakeUpdates, WriteUpdates, EndUpdates, OtherTraffic, queueVars
<1>8. StoreTypes' /\ \A n \in Nodes : nodeState[n] = "gone" => nodeState'[n] = "gone"
  <2>1. CASE WriteUpdates /\ leads
    <3>1. /\ taskState' = [t \in Tasks |-> ApplyStatus(taskState[t], batch.taskUpd[t])]
          /\ nodeState' = [n \in Nodes |->
               IF nodeState[n] = "gone" \/ batch.nodeUpd[n] = NoUpdate
               THEN nodeState[n] ELSE batch.nodeUpd[n]]
      BY <2>1 DEF WriteUpdates
    <3>2. batch.nodeUpd \in NodeUpd /\ batch.taskUpd \in TaskUpd
      BY DEF QueueTypes
    <3>3. taskState' \in [Tasks -> None..Orphaned]
      BY <3>1, <3>2 DEF StoreTypes, TaskUpd, ApplyStatus, None, Failed, Orphaned
    <3>4. nodeState' \in [Nodes -> {"UNKNOWN", "READY", "DOWN", "gone"}]
      BY <3>1, <3>2 DEF StoreTypes, NodeUpd
    <3> QED BY <3>1, <3>3, <3>4 DEF StoreTypes
  <2>2. CASE UNCHANGED storeVars
    BY <2>2 DEF storeVars, StoreTypes
  <2> QED BY <2>1, <2>2 DEF TakeUpdates, WriteUpdates, EndUpdates, OtherTraffic
<1>9. SessionsWatched'
  <2>1. RegisteredIsTimed'
    BY <1>1, <1>8 DEF SessionsWatched, RegisteredIsTimed, timerVars, StoreTypes
  <2>2. StoppedForgets'
    BY <1>1, <1>2, BroadcastStep DEF SessionsWatched, StoppedForgets
  <2> QED BY <2>1, <2>2 DEF SessionsWatched
<1> QED BY <1>3, <1>4, <1>5, <1>7, <1>8, <1>9

(* Losing leadership and Stop: what Stop cleans up when it has waited for   *)
(* the calls is all there is.                                               *)
LEMMA InvStop ==
  ASSUME IInv, \/ LoseLeadership \/ Stop \/ BecomeLeader
               \/ \E n \in Nodes : OtherLeaderWrites(n)
  PROVE  IInv'
<1> USE DEF IInv, TypeInv, Stop
<1>1. /\ UNCHANGED <<taskState, regs, expiring, orphaning, queueVars, agentVars>>
      /\ UNCHANGED left \/ Spend("stops")
      /\ \/ rpc' = rpc
         \/ rpc' = Broadcast /\ UNCHANGED left
      /\ UNCHANGED nodeState \/ phase' = "off"
  BY DEF LoseLeadership, StopCancel, StopBroadcast, StopClean, BecomeLeader,
         OtherLeaderWrites, storeVars, timerVars
<1>2. AgentTypes' /\ ReportTypes' /\ QueueTypes'
  BY <1>1 DEF AgentTypes, ReportTypes, QueueTypes, agentVars, queueVars
<1>3. ControlTypes'
  <2>1. leads' \in BOOLEAN
    BY Zenon DEF ControlTypes, LoseLeadership, StopCancel, StopBroadcast, StopClean,
                 BecomeLeader, OtherLeaderWrites
  <2>2. phase' \in {"off", "on", "cancelled", "woken"}
    BY DEF ControlTypes, LoseLeadership, StopCancel, StopBroadcast, StopClean,
           BecomeLeader, OtherLeaderWrites
  <2> QED BY <2>1, <2>2 DEF ControlTypes
<1>4. StoreTypes'
  BY <1>1 DEF StoreTypes, LoseLeadership, StopCancel, StopBroadcast, StopClean,
              BecomeLeader, OtherLeaderWrites, storeVars
<1>5. CASE UNCHANGED <<nodes, armed, down>>
  <2>1. RegTypes' /\ TimerTypes'
    BY <1>1, <1>5 DEF RegTypes, TimerTypes
  <2>2. left' \in Budget /\ left'.regs = left.regs
    BY <1>1, BudgetSpent DEF RegsBounded
  <2>3. CallTypes' /\ RegsBounded'
    BY <1>1, <2>2, BroadcastStep, CallsUnchanged DEF CallTypes, RegTypes
  <2>4. SessionsWatched'
    <3>1. StoppedForgets'
      <4>1. phase' = "off" => phase = "off" \/ StopClean
        BY DEF LoseLeadership, StopCancel, StopBroadcast, BecomeLeader, OtherLeaderWrites
      <4>2. StopClean => \A n \in Nodes : nodes'[n] = 0 /\
                           \A s \in Streams : rpc'[n][s].pc \in {"idle", "start"}
        BY DEF StopClean, RpcsDone
      <4> QED BY <1>1, <1>5, <4>1, <4>2, BroadcastStep DEF SessionsWatched, StoppedForgets
    <3>2. RegisteredIsTimed'
      <4>1. phase' = "on" => phase = "on"
        BY DEF LoseLeadership, StopCancel, StopBroadcast, StopClean, BecomeLeader,
               OtherLeaderWrites
      <4> QED BY <1>1, <1>5, <4>1 DEF SessionsWatched, RegisteredIsTimed
    <3> QED BY <3>1, <3>2 DEF SessionsWatched
  <2> QED BY <1>2, <1>3, <1>4, <2>1, <2>3, <2>4
<1>6. CASE StopClean
  <2>1. /\ phase' = "off" /\ nodes' = [n \in Nodes |-> 0]
        /\ armed' \subseteq armed /\ down' = [n \in Nodes |-> "none"]
        /\ UNCHANGED <<rpc, left>> /\ RpcsDone
    BY <1>6 DEF StopClean
  <2>2. RegTypes'
    BY <1>1, <2>1, LenProperties DEF RegTypes
  <2>3. TimerTypes' /\ CallTypes'
    BY <1>1, <2>1 DEF TimerTypes, CallTypes
  <2>4. RegsBounded'
    BY <1>1, <2>1, CallsUnchanged DEF RegsBounded, RegTypes
  <2>5. SessionsWatched'
    BY <2>1 DEF SessionsWatched, RegisteredIsTimed, StoppedForgets, RpcsDone
  <2> QED BY <1>2, <1>3, <1>4, <2>2, <2>3, <2>4, <2>5
<1> QED BY <1>5, <1>6 DEF LoseLeadership, StopCancel, StopBroadcast, BecomeLeader,
                          OtherLeaderWrites, timerVars

(* Agents and operators.                                                    *)
LEMMA InvAgent ==
  ASSUME IInv,
         \/ \E n \in Nodes : BreakSession(n) \/ AgentCrash(n) \/ AgentRestart(n)
                             \/ RemoveNode(n)
         \/ \E t \in Tasks : Progress(t) \/ RemoveTask(t)
  PROVE  IInv'
<1> USE DEF IInv, TypeInv
<1>1. /\ UNCHANGED <<leads, phase, regs, nodes, timerVars, queueVars, rpc, acked, late>>
      /\ \/ UNCHANGED left \/ Spend("breaks") \/ Spend("crashes") \/ Spend("removals")
         \/ Spend("exits")
  BY DEF BreakSession, AgentCrash, AgentRestart, RemoveNode, Progress, RemoveTask, agentVars
<1>2. RegTypes' /\ CallTypes' /\ TimerTypes' /\ QueueTypes'
  BY <1>1 DEF RegTypes, CallTypes, TimerTypes, QueueTypes, timerVars, queueVars
<1>3. ControlTypes'
  BY <1>1, Zenon DEF ControlTypes
<1>4. RegsBounded'
  <2>1. left' \in Budget /\ left'.regs = left.regs
    BY <1>1, BudgetSpent DEF RegsBounded
  <2> QED BY <1>1, <2>1, CallsUnchanged DEF RegTypes
<1>5. StoreTypes' /\ \A n \in Nodes : nodeState[n] = "gone" => nodeState'[n] = "gone"
  BY DEF StoreTypes, BreakSession, AgentCrash, AgentRestart, RemoveNode, Progress,
         RemoveTask, OrphanTasks, storeVars, None, Orphaned
<1>6. ReportTypes'
  BY <1>1 DEF ReportTypes, TaskUpd, BreakSession, AgentCrash, AgentRestart, RemoveNode,
              Progress, RemoveTask, agentVars, None, Failed
<1>7. AgentTypes'
  <2>1. CASE UNCHANGED agent
    BY <1>1, <2>1 DEF AgentTypes
  <2>2. ASSUME NEW n \in Nodes, BreakSession(n) PROVE AgentTypes'
    BY <1>1, <2>2, AgentDropped DEF BreakSession
  <2>3. ASSUME NEW n \in Nodes, AgentCrash(n) PROVE AgentTypes'
    <3>1. 0 \in 0..Len(regs)
      BY LenProperties DEF RegTypes
    <3> QED BY <1>1, <2>3, <3>1 DEF AgentTypes, AgentCrash
  <2>4. ASSUME NEW n \in Nodes, AgentRestart(n) PROVE AgentTypes'
    BY <1>1, <2>4 DEF AgentTypes, AgentRestart
  <2> QED BY <2>1, <2>2, <2>3, <2>4 DEF RemoveNode, Progress, RemoveTask, agentVars
<1>8. SessionsWatched'
  BY <1>1, <1>5 DEF SessionsWatched, RegisteredIsTimed, StoppedForgets, timerVars
<1> QED BY <1>2, <1>3, <1>4, <1>5, <1>6, <1>7, <1>8

(* Enumerate lists a finite set.                                            *)
LEMMA EnumerateLists ==
  ASSUME NEW S, IsFiniteSet(S)
  PROVE  /\ Cardinality(S) \in Nat
         /\ Enumerate(S) \in [1..Cardinality(S) -> S]
         /\ \A x \in S : \E i \in 1..Cardinality(S) : Enumerate(S)[i] = x
<1> DEFINE k == Cardinality(S)
<1>1. k \in Nat /\ ExistsBijection(1..k, S)
  BY FS_CardinalityType
<1>2. PICK f \in [1..k -> S] : \A x \in S : \E i \in 1..k : f[i] = x
  BY <1>1 DEF ExistsBijection, Bijection, Surjection
<1>3. {f[i] : i \in DOMAIN f} = S
  BY <1>2
<1>4. Enumerate(S) \in [1..k -> S] /\ {Enumerate(S)[i] : i \in DOMAIN Enumerate(S)} = S
  BY <1>2, <1>3, ZenonT(40) DEF Enumerate
<1> QED BY <1>1, <1>4

(* Run registers every node that is neither gone nor down, each under an id *)
(* of its own with its timer armed; no other node is registered.            *)
LEMMA InvRun ==
  ASSUME IInv, Run
  PROVE  IInv'
<1> DEFINE moved == {n \in Nodes : nodeState[n] \notin {"gone", "DOWN"}}
           order == Enumerate(moved)
           k == Cardinality(moved)
           Reg == [node: Nodes, session: BOOLEAN]
           new == [i \in DOMAIN order |-> NewReg(order[i], FALSE)]
<1> USE DEF IInv, TypeInv
<1>1. /\ leads /\ phase = "off" /\ phase' = "on"
      /\ Len(regs) + Registering + Cardinality(Nodes) <= left.regs
      /\ nodeUpdates' = IdleBatch.nodeUpd /\ taskUpdates' = IdleBatch.taskUpd
      /\ UNCHANGED <<leads, taskState, expiring, orphaning, batch, rpc, agentVars, left>>
      /\ regs' = regs \o new
      /\ nodes' = [n \in Nodes |->
           IF n \in moved THEN Len(regs) + (CHOOSE i \in DOMAIN order : order[i] = n)
           ELSE nodes[n]]
      /\ armed' = armed \cup {Len(regs) + i : i \in DOMAIN order}
      /\ nodeState' = [n \in Nodes |-> IF n \in moved THEN "UNKNOWN" ELSE nodeState[n]]
      /\ down' = [n \in Nodes |-> IF nodeState[n] = "DOWN" THEN "armed" ELSE down[n]]
  BY DEF Run, markNodesUnknown
<1>2. IsFiniteSet(moved) /\ k <= Cardinality(Nodes) /\ Cardinality(Nodes) \in Nat
  BY FS_Subset, FS_CardinalityType, DispatcherAssumption
<1>3. /\ k \in Nat /\ order \in [1..k -> moved]
      /\ \A n \in moved : \E i \in 1..k : order[i] = n
  BY <1>2, EnumerateLists
<1>4. Len(regs) \in Nat /\ DOMAIN regs = 1..Len(regs) /\ DOMAIN order = 1..k
  BY <1>3, LenProperties DEF RegTypes
<1>5. new \in Seq(Reg) /\ Len(new) = k
  <2>1. \A i \in 1..k : NewReg(order[i], FALSE) \in Reg
    BY <1>3 DEF NewReg
  <2>2. new \in [1..k -> Reg]
    BY <1>4, <2>1
  <2> HIDE DEF new, k, Reg
  <2> QED BY <1>3, <2>2, SeqDef, LenProperties
<1>6. /\ regs' \in Seq(Reg) /\ Len(regs') = Len(regs) + k
      /\ DOMAIN regs' = 1..Len(regs')
      /\ \A i \in 1..Len(regs) : regs'[i] = regs[i]
      /\ \A i \in 1..k : regs'[Len(regs) + i].node = order[i]
  <2> HIDE DEF new, Reg
  <2>1. regs \in Seq(Reg)
    BY DEF RegTypes, Reg
  <2>2. /\ regs \o new \in Seq(Reg) /\ Len(regs \o new) = Len(regs) + Len(new)
        /\ \A i \in 1..Len(regs) + Len(new) :
             (regs \o new)[i] = IF i <= Len(regs) THEN regs[i] ELSE new[i - Len(regs)]
    BY <1>5, <2>1, ConcatProperties
  <2>3. \A i \in 1..k : new[i].node = order[i]
    BY <1>4 DEF new, NewReg
  <2>4. DOMAIN (regs \o new) = 1..Len(regs \o new)
    BY <2>2, LenProperties
  <2>5. \A i \in 1..k : (regs \o new)[Len(regs) + i] = new[i]
    BY <1>3, <1>4, <1>5, <2>2
  <2>6. \A i \in 1..Len(regs) : (regs \o new)[i] = regs[i]
    BY <1>3, <1>4, <1>5, <2>2
  <2> QED BY <1>1, <1>5, <2>2, <2>3, <2>4, <2>5, <2>6
<1>7. \A n \in Nodes : nodes[n] = 0
  BY <1>1 DEF SessionsWatched, StoppedForgets
<1>8. \A n \in moved : \E i \in 1..k : order[i] = n /\ nodes'[n] = Len(regs) + i
  BY <1>1, <1>3, <1>4
<1> HIDE DEF moved, order, k, new
<1>9. RegTypes'
  <2>1. nodes' = [n \in Nodes |-> nodes'[n]]
    BY <1>1
  <2>2. \A n \in Nodes : nodes'[n] \in 0..Len(regs')
                        /\ (nodes'[n] # 0 => regs'[nodes'[n]].node = n)
    <3> TAKE n \in Nodes
    <3>1. CASE n \in moved
      <4>1. PICK i \in 1..k : order[i] = n /\ nodes'[n] = Len(regs) + i
        BY <1>8, <3>1
      <4> QED BY <1>3, <1>4, <1>6, <4>1
    <3>2. CASE n \notin moved
      <4>1. nodes'[n] = 0
        BY <1>1, <1>7, <3>2
      <4> QED BY <1>3, <1>4, <1>6, <4>1
    <3> QED BY <3>1, <3>2
  <2>3. armed' \subseteq DOMAIN regs'
    BY <1>1, <1>3, <1>4, <1>6 DEF RegTypes
  <2> QED BY <1>6, <2>1, <2>2, <2>3 DEF RegTypes
<1>10. StoreTypes' /\ TimerTypes'
  BY <1>1 DEF StoreTypes, TimerTypes
<1>11. CallTypes' /\ AgentTypes'
  <2>1. 0..Len(regs) \subseteq 0..Len(regs')
    BY <1>3, <1>4, <1>6
  <2>2. CallTypes'
    BY <1>1, <2>1 DEF CallTypes
  <2>3. AgentTypes'
    BY <1>1, <2>1 DEF AgentTypes, agentVars
  <2> QED BY <2>2, <2>3
<1>12. QueueTypes' /\ ReportTypes'
  BY <1>1 DEF QueueTypes, ReportTypes, agentVars, IdleBatch, NodeUpd, TaskUpd, None, Failed
<1>13. ControlTypes'
  BY <1>1, Zenon DEF ControlTypes
<1>14. RegsBounded'
  <2>1. Registering' = Registering
    BY <1>1 DEF Registering
  <2>2. left.regs \in Nat /\ Registering \in Nat
    BY PendingFinite, DispatcherAssumption DEF RegsBounded, Budget
  <2> QED BY <1>1, <1>2, <1>3, <1>4, <1>6, <2>1, <2>2 DEF RegsBounded
<1>15. SessionsWatched'
  <2>1. \A n \in Nodes : nodes'[n] # 0 => nodes'[n] \in armed'
    <3> SUFFICES ASSUME NEW n \in Nodes, nodes'[n] # 0 PROVE nodes'[n] \in armed'
      OBVIOUS
    <3>1. n \in moved
      BY <1>1, <1>7
    <3>2. PICK i \in 1..k : nodes'[n] = Len(regs) + i
      BY <1>8, <3>1
    <3>3. armed' = armed \cup {Len(regs) + j : j \in 1..k}
      BY <1>1, <1>4
    <3> QED BY <3>2, <3>3
  <2> QED BY <1>1, <2>1 DEF SessionsWatched, RegisteredIsTimed, StoppedForgets
<1> QED
  BY <1>9, <1>10, <1>11, <1>12, <1>13, <1>14, <1>15

-----------------------------------------------------------------------------
(* The theorems.                                                            *)

(* Every step keeps the invariant.                                          *)
LEMMA InvNext == IInv /\ [Next]_vars => IInv'
<1> SUFFICES ASSUME IInv, [Next]_vars PROVE IInv'
  OBVIOUS
<1>1. CASE UNCHANGED vars
  <2>1. StoreTypes' /\ RegTypes' /\ CallTypes' /\ AgentTypes' /\ TimerTypes'
    BY <1>1 DEF vars, IInv, TypeInv, StoreTypes, RegTypes, CallTypes, AgentTypes, TimerTypes
  <2>2. QueueTypes' /\ ReportTypes' /\ RegsBounded'
    BY <1>1 DEF vars, IInv, TypeInv, QueueTypes, ReportTypes, RegsBounded, Registering
  <2>3. ControlTypes'
    BY <1>1, Zenon DEF vars, IInv, TypeInv, ControlTypes
  <2>4. SessionsWatched'
    BY <1>1 DEF vars, IInv, SessionsWatched, RegisteredIsTimed, StoppedForgets
  <2> QED BY <2>1, <2>2, <2>3, <2>4 DEF IInv, TypeInv
<1>2. CASE \E n \in Nodes, s \in Streams : OpenSession(n, s) \/ Handler(n, s)
  <2>1. PICK n \in Nodes, s \in Streams : OpenSession(n, s) \/ Handler(n, s)
    BY <1>2
  <2>2. CASE Add(n, s)
    BY <2>2, InvAdd
  <2>3. CASE ~Add(n, s)
    BY <2>1, <2>3, InvCall
  <2> QED BY <2>2, <2>3
<1>3. CASE \/ \E n \in Nodes : Heartbeat(n) \/ LateBeat(n)
           \/ \E r \in DOMAIN regs : Expire(r)
  BY <1>3, InvTimer
<1>4. CASE \E r \in DOMAIN regs : ExpiryCallback(r)
  BY <1>4, InvExpiry
<1>5. CASE \/ \E n \in Nodes : DownExpire(n) \/ DownCallback(n)
           \/ \E t \in Tasks : \/ UpdateTaskStatus(t) \/ ReportDelayed(t)
                               \/ UpdateTaskStatusLate(t)
  BY <1>5, InvReport
<1>6. CASE ProcessUpdates \/ OtherTraffic
  BY <1>6, InvBatch
<1>7. CASE \/ LoseLeadership \/ Stop \/ BecomeLeader
           \/ \E n \in Nodes : OtherLeaderWrites(n)
  BY <1>7, InvStop
<1>8. CASE Run
  BY <1>8, InvRun
<1>9. CASE \/ \E n \in Nodes : BreakSession(n) \/ AgentCrash(n) \/ AgentRestart(n)
                               \/ RemoveNode(n)
           \/ \E t \in Tasks : Progress(t) \/ RemoveTask(t)
  BY <1>9, InvAgent
<1> QED
  BY <1>1, <1>2, <1>3, <1>4, <1>5, <1>6, <1>7, <1>8, <1>9, Zenon DEF Next

(* The invariant holds in every behaviour.                                  *)
THEOREM DispatcherInvariant == Spec => []IInv
<1>1. Init => IInv
  BY InvInit
<1>2. IInv /\ [Next]_vars => IInv'
  BY InvNext
<1> QED BY <1>1, <1>2, PTL DEF Spec

(* Type correctness; in particular the ids in d.nodes, in armed timers and  *)
(* in the agents always name a registration of their own node.              *)
THEOREM TypeCorrect == Spec => []TypeOK
<1>1. IInv => TypeOK
  <2> SUFFICES ASSUME IInv PROVE TypeOK
    OBVIOUS
  <2>1. Len(regs) <= MaxRegs
    BY RegIdsType DEF IInv, TypeInv
  <2>2. leads \in BOOLEAN /\ phase \in {"off", "on", "cancelled", "woken"}
    BY DEF IInv, TypeInv, ControlTypes
  <2> QED BY <2>1, <2>2 DEF TypeOK, IInv, TypeInv, StoreTypes, RegTypes, AgentTypes,
                            TimerTypes, QueueTypes, NodeUpd, TaskUpd
<1> QED BY <1>1, DispatcherInvariant, PTL

(* While the dispatcher runs every registered node that is in the store is  *)
(* watched by a timer or by the callback that takes it out, and once Stop   *)
(* has returned nothing of the old leadership is left, however Session,     *)
(* Heartbeat, markNodeNotReady, Stop and Run interleave.                    *)
THEOREM SessionsAlwaysWatched == Spec => []SessionsWatched
<1>1. IInv => SessionsWatched
  BY DEF IInv
<1> QED BY <1>1, DispatcherInvariant, PTL

(* The steps that write the state of a task in the store.                   *)
LEMMA TaskWriters ==
  ASSUME Next
  PROVE  \/ UNCHANGED taskState
         \/ WriteUpdates /\ leads
         \/ \E n \in Nodes : taskState' = OrphanTasks(n)
         \/ \E t \in Tasks : RemoveTask(t)
<1>1. CASE \E n \in Nodes, s \in Streams : OpenSession(n, s) \/ Handler(n, s)
  <2>0. PICK n \in Nodes, s \in Streams : OpenSession(n, s) \/ Handler(n, s)
    BY <1>1
  <2>1. UNCHANGED storeVars
    BY <2>0 DEF OpenSession, Handler, SessionRefused, RateLimited, BeginRegister,
              ResumeSession, QueueReady, WaitUpdates, ReadyCancelled, Add, SendSession,
              SessionEnds
  <2> QED BY <2>1 DEF storeVars
<1>2. CASE \E n \in Nodes : Heartbeat(n) \/ LateBeat(n) \/ DownExpire(n) \/ DownCallback(n)
                          \/ OtherLeaderWrites(n)
  BY <1>2 DEF Heartbeat, LateBeat, DownExpire, DownCallback, moveTasksToOrphaned,
              DownDelete, OtherLeaderWrites, storeVars
<1>3. CASE \E n \in Nodes : BreakSession(n) \/ AgentCrash(n) \/ AgentRestart(n)
                          \/ RemoveNode(n)
  BY <1>3 DEF BreakSession, AgentCrash, AgentRestart, RemoveNode, storeVars
<1>4. CASE \E r \in DOMAIN regs : Expire(r) \/ ExpiryCallback(r)
  BY <1>4 DEF Expire, ExpiryCallback, NotReadyRefused, NotReadyCheck, NotReadyDown,
              NotReadyQueue, NotReadyDelete, storeVars
<1>5. CASE \E t \in Tasks : \/ UpdateTaskStatus(t) \/ ReportDelayed(t)
                          \/ UpdateTaskStatusLate(t) \/ Progress(t) \/ RemoveTask(t)
  BY <1>5 DEF UpdateTaskStatus, ReportDelayed, UpdateTaskStatusLate, Progress, storeVars
<1>6. CASE ProcessUpdates \/ OtherTraffic
  BY <1>6 DEF ProcessUpdates, TakeUpdates, WriteUpdates, EndUpdates, OtherTraffic, storeVars
<1>7. CASE LoseLeadership \/ Stop \/ BecomeLeader \/ Run
  BY <1>7 DEF LoseLeadership, Stop, StopCancel, StopBroadcast, StopClean, BecomeLeader,
              Run, storeVars
<1> QED BY <1>1, <1>2, <1>3, <1>4, <1>5, <1>6, <1>7, Zenon DEF Next

(* processUpdates and moveTasksToOrphaned never move a task of the store    *)
(* backwards, whatever reports are late, and leave a failed one alone.      *)
THEOREM TasksOnlyForward == Spec => TaskStatesForward
<1> DEFINE A == \A t \in Tasks : \/ taskState'[t] = None
                                 \/ taskState'[t] >= taskState[t] /\ taskState[t] # Failed
                                 \/ taskState'[t] = taskState[t]
<1>1. IInv /\ [Next]_vars => [A]_taskState
  <2> SUFFICES ASSUME IInv, Next PROVE A \/ UNCHANGED taskState
    BY DEF vars
  <2>0. taskState \in [Tasks -> None..Orphaned]
    BY DEF IInv, TypeInv, StoreTypes
  <2>1. CASE UNCHANGED taskState
    BY <2>1
  <2>2. CASE WriteUpdates /\ leads
    <3>1. batch.taskUpd \in TaskUpd
      BY DEF IInv, TypeInv, QueueTypes
    <3>2. taskState' = [t \in Tasks |-> ApplyStatus(taskState[t], batch.taskUpd[t])]
      BY <2>2 DEF WriteUpdates
    <3> QED BY <2>0, <3>1, <3>2 DEF TaskUpd, ApplyStatus, None, Failed, Orphaned
  <2>3. CASE \E n \in Nodes : taskState' = OrphanTasks(n)
    BY <2>0, <2>3 DEF OrphanTasks, MayProgress, None, Running, Failed, Orphaned
  <2>4. CASE \E t \in Tasks : RemoveTask(t)
    BY <2>0, <2>4 DEF RemoveTask
  <2> QED BY <2>1, <2>2, <2>3, <2>4, TaskWriters
<1> QED BY <1>1, DispatcherInvariant, PTL DEF Spec, TaskStatesForward
=============================================================================
