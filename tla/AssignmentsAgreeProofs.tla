---------------------- MODULE AssignmentsAgreeProofs ----------------------
(***************************************************************************)
(* Proof that leader and node agree (Agree of Assignments): what the       *)
(* leader writes reaches the node through the watch queue, the assignment  *)
(* set and the messages of a stream, what the node writes reaches the      *)
(* leader through the status reporter, and neither is ahead of the other   *)
(* once nothing is on its way, for any number of tasks, changes and        *)
(* faults. With it, that states never go back (StatesForward), but on the  *)
(* disk while a manager starts; and proof that the reference counts of the *)
(* assignment set give a node the secrets and configs its tasks need and   *)
(* no more (DependenciesKept).                                             *)
(***************************************************************************)
EXTENDS AssignmentsProofs

-----------------------------------------------------------------------------
(* Queues.                                                                  *)

LEMMA AppendFacts ==
  ASSUME NEW S, NEW q \in Seq(S), NEW e \in S
  PROVE  /\ Append(q, e) \in Seq(S) /\ Len(q) \in Nat
         /\ Len(Append(q, e)) = Len(q) + 1 /\ Append(q, e)[Len(q) + 1] = e
         /\ \A i \in 1..Len(q) : Append(q, e)[i] = q[i]
OBVIOUS

LEMMA SuffixFacts ==
  ASSUME NEW S, NEW q \in Seq(S), NEW k \in 1..Len(q)
  PROVE  LET p == SubSeq(q, k + 1, Len(q))
         IN /\ p \in Seq(S) /\ Len(q) \in Nat /\ Len(p) = Len(q) - k
            /\ \A i \in 1..Len(p) : i + k \in 1..Len(q) /\ p[i] = q[i + k]
<1>1. Len(q) \in Nat /\ k \in Nat /\ k + 1 >= 1 /\ k <= Len(q)
  OBVIOUS
<1>2. \A i \in (k + 1)..Len(q) : q[i] \in S
  OBVIOUS
<1> QED BY <1>1, <1>2

-----------------------------------------------------------------------------
(* From the store to the assignment set.                                    *)

(* What the assignment set keeps of a record: nothing before it is assigned.*)
Known(task) == IF task.state >= Assigned THEN task ELSE NoRecord

NoEvent(t) == \A i \in 1..Len(events) : events[i].task # t
LastEvent(t, i) == events[i].task = t /\ \A j \in (i + 1)..Len(events) : events[j].task # t

(* The watch queue ends with what the store holds; with no event left the   *)
(* set knows it.                                                            *)
EventFollows(t, i) ==
  events[i].task = t =>
    /\ events[i].new.state # Pending
    /\ store[t].state # None =>
         events[i].new.state # None /\ events[i].new.state <= store[t].state
    /\ LastEvent(t, i) => events[i].new = store[t]
    /\ events[i].new.state = None => LastEvent(t, i)

EventsFollow(t) ==
  stream =>
    /\ \A i \in 1..Len(events) : EventFollows(t, i)
    /\ NoEvent(t) => aset.tasks[t] = Known(store[t])
    /\ aset.tasks[t] = NoRecord \/ aset.tasks[t].state >= Assigned
    /\ store[t].state # None => aset.tasks[t].state <= store[t].state

(* A task that is not assigned yet has left no trace: in the stream ...     *)
FreshStream(t) ==
  store[t].state = Pending =>
    /\ store[t].desired = Run
    /\ NoEvent(t) /\ aset.tasks[t] = NoRecord
    /\ \A i \in 1..Len(pipe) : pipe[i].changes[t] = NoChange

(* ... and on the node.                                                     *)
FreshNode(t) ==
  store[t].state = Pending =>
    /\ db[t].state = None /\ Written[t].state = None
    /\ mgr[t] = NoMgr /\ rq[t] = None /\ sending.task # t

(* The set b within a batch, after i events.                                *)
BatchTask(b, t, i) ==
  /\ b.tasks[t] = NoRecord \/ b.tasks[t].state >= Assigned
  /\ store[t].state # None => b.tasks[t].state <= store[t].state
  /\ (\A j \in (i + 1)..Len(events) : events[j].task # t) => b.tasks[t] = Known(store[t])
  /\ (\A j \in 1..i : events[j].task # t) =>
       b.tasks[t] = aset.tasks[t] /\ b.changes[t] = NoChange
  /\ b.changes[t].action = "none" =>
       /\ b.tasks[t].state = None <=> aset.tasks[t].state = None
       /\ b.tasks[t].desired = aset.tasks[t].desired
  /\ b.changes[t].action = "update" =>
       b.tasks[t].state # None /\ b.changes[t].task.desired = b.tasks[t].desired
  /\ b.changes[t].action = "remove" =>
       /\ b.tasks[t].state = None /\ store[t].state = None
       /\ \A j \in (i + 1)..Len(events) : events[j].task # t

(* One event of a batch.                                                    *)
LEMMA EventStep ==
  ASSUME TypeInv, stream, NEW t \in Tasks, EventsFollow(t),
         NEW i \in 1..Len(events), NEW b \in ASet, BatchTask(b, t, i - 1)
  PROVE  BatchTask(Apply(b, events[i]), t, i)
<1> DEFINE e == events[i]
           d == Apply(b, e)
<1>1. e \in Event /\ e.task \in Tasks /\ e.new \in Record /\ e.new.state \in 0..4
      /\ Len(events) \in Nat /\ i \in Nat
  <2>1. Len(events) \in Nat /\ i \in Nat /\ e \in Event
    BY DEF TypeInv, LeaderTypes
  <2> QED BY <2>1 DEF Event, Record, None, Final
<1>2. d \in ASet /\ TaskEffect(b, e, d)
  BY <1>1, ApplyEffect
<1>3. b.tasks[t] \in Record /\ b.tasks[t].state \in 0..4 /\ store[t].state \in 0..4
  BY TaskTypes DEF ASet, Record, None, Final
<1>4. /\ NoRecord.state = None /\ Removal.action = "remove" /\ NoChange.action = "none"
      /\ \A task : Update(task).action = "update" /\ Update(task).task = task
  BY DEF NoRecord, Removal, NoChange, Update
<1>7. (\A j \in ((i - 1) + 1)..Len(events) : events[j].task # t) =>
        \A j \in (i + 1)..Len(events) : events[j].task # t
  <2>1. \A j \in (i + 1)..Len(events) : j \in ((i - 1) + 1)..Len(events)
    BY <1>1
  <2> QED BY <2>1
<1> HIDE DEF e, d
<1>5. CASE t # e.task
  <2>1. d.tasks[t] = b.tasks[t] /\ d.changes[t] = b.changes[t]
    BY <1>2, <1>5 DEF TaskEffect
  <2>2. (\A j \in (i + 1)..Len(events) : events[j].task # t) =>
          \A j \in ((i - 1) + 1)..Len(events) : events[j].task # t
    BY <1>1, <1>5 DEF e
  <2>3. (\A j \in 1..i : events[j].task # t) => \A j \in 1..(i - 1) : events[j].task # t
    BY <1>1
  <2>4. BatchTask(d, t, i)
    BY <1>7, <2>1, <2>2, <2>3 DEF BatchTask
  <2> QED BY <2>4 DEF d, e
<1>6. CASE t = e.task
  <2>1. /\ e.new.state # Pending
        /\ store[t].state # None => e.new.state # None /\ e.new.state <= store[t].state
        /\ (\A j \in (i + 1)..Len(events) : events[j].task # t) => e.new = store[t]
        /\ e.new.state = None => \A j \in (i + 1)..Len(events) : events[j].task # t
    BY <1>1, <1>6 DEF EventsFollow, EventFollows, LastEvent, e
  <2>2. ~\A j \in 1..i : events[j].task # t
    BY <1>1, <1>6 DEF e
  <2>3. CASE e.new.state = None /\ b.tasks[t].state = None
    <3>1. d.tasks[t] = b.tasks[t] /\ d.changes[t] = b.changes[t]
      BY <1>2, <1>6, <2>3 DEF TaskEffect
    <3>2. b.tasks[t] = NoRecord
      BY <2>3 DEF BatchTask, None, Assigned
    <3>3. (\A j \in (i + 1)..Len(events) : events[j].task # t) => d.tasks[t] = Known(store[t])
      BY <2>1, <2>3, <3>1, <3>2 DEF Known, None, Assigned
    <3>4. BatchTask(d, t, i)
      BY <2>1, <2>2, <2>3, <3>1, <3>3 DEF BatchTask
    <3> QED BY <3>4 DEF d, e
  <2>4. CASE e.new.state = None /\ b.tasks[t].state # None
    <3>1. d.tasks[t] = NoRecord /\ d.changes[t] = Removal
      BY <1>2, <1>6, <2>4 DEF TaskEffect
    <3>2. store[t].state = None
      BY <2>1, <2>4
    <3>3. Known(store[t]) = NoRecord
      BY <3>2 DEF Known, None, Assigned
    <3>4. BatchTask(d, t, i)
      BY <1>4, <2>1, <2>2, <2>4, <3>1, <3>2, <3>3 DEF BatchTask
    <3> QED BY <3>4 DEF d, e
  <2>5. CASE e.new.state >= Assigned
    <3>1. d.tasks[t] = e.new /\ e.new.state # None
      BY <1>2, <1>6, <2>5 DEF TaskEffect, None, Assigned
    <3>2. (\A j \in (i + 1)..Len(events) : events[j].task # t) => d.tasks[t] = Known(store[t])
      BY <2>1, <2>5, <3>1 DEF Known
    <3>3. CASE NoNews(b, t, e.new)
      <4>1. /\ d.changes[t] = b.changes[t] /\ b.tasks[t].state # None
            /\ b.tasks[t].desired = e.new.desired
        BY <1>2, <1>6, <2>5, <3>3 DEF TaskEffect, NoNews
      <4>2. BatchTask(d, t, i)
        BY <2>1, <2>2, <2>5, <3>1, <3>2, <4>1 DEF BatchTask
      <4> QED BY <4>2 DEF d, e
    <3>4. CASE ~NoNews(b, t, e.new)
      <4>1. d.changes[t] = Update(e.new)
        BY <1>2, <1>6, <2>5, <3>4 DEF TaskEffect
      <4>2. BatchTask(d, t, i)
        BY <1>4, <2>1, <2>2, <2>5, <3>1, <3>2, <4>1 DEF BatchTask
      <4> QED BY <4>2 DEF d, e
    <3> QED BY <3>3, <3>4
  <2> QED BY <1>1, <2>1, <2>3, <2>4, <2>5 DEF None, Pending, Assigned
<1> QED BY <1>5, <1>6

(* A batch of k events.                                                     *)
LEMMA BatchEffect ==
  ASSUME TypeInv, stream, \A t \in Tasks : EventsFollow(t), NEW k \in 1..Len(events)
  PROVE  /\ Batch(aset, events, k) \in ASet
         /\ \A t \in Tasks : BatchTask(Batch(aset, events, k), t, k)
<1> DEFINE S == [i \in 0..k |-> {b \in ASet : \A t \in Tasks : BatchTask(b, t, i)}]
<1>0. Len(events) \in Nat /\ k \in Nat /\ aset \in ASet /\ aset.changes = NoChanges
  BY DEF TypeInv, LeaderTypes
<1>1. aset \in S[0]
  <2>1. ASSUME NEW t \in Tasks PROVE BatchTask(aset, t, 0)
    <3>1. aset.changes[t] = NoChange /\ NoChange.action = "none"
      BY <1>0 DEF NoChanges, NoChange
    <3>2. (\A j \in (0 + 1)..Len(events) : events[j].task # t) => NoEvent(t)
      BY DEF NoEvent
    <3>3. EventsFollow(t)
      OBVIOUS
    <3> QED BY <3>1, <3>2, <3>3 DEF BatchTask, EventsFollow
  <2> QED BY <1>0, <2>1
<1>2. \A i \in 1..k : \A b \in S[i - 1] : Apply(b, events[i]) \in S[i]
  <2> SUFFICES ASSUME NEW i \in 1..k, NEW b \in S[i - 1] PROVE Apply(b, events[i]) \in S[i]
    OBVIOUS
  <2>1. i - 1 \in 0..k /\ i \in 0..k /\ i \in 1..Len(events)
    BY <1>0
  <2>2. b \in ASet /\ \A t \in Tasks : BatchTask(b, t, i - 1)
    BY <2>1
  <2>3. events[i] \in Event
    BY <2>1 DEF TypeInv, LeaderTypes
  <2>4. Apply(b, events[i]) \in ASet
    BY <2>2, <2>3, ApplyEffect
  <2>5. \A t \in Tasks : BatchTask(Apply(b, events[i]), t, i)
    BY <2>1, <2>2, EventStep
  <2> QED BY <2>1, <2>4, <2>5
<1>3. S[k] = {b \in ASet : \A t \in Tasks : BatchTask(b, t, k)}
  BY <1>0
<1> HIDE DEF S
<1>4. Batch(aset, events, k) \in S[k]
  BY <1>0, <1>1, <1>2, BatchInduction
<1> QED BY <1>3, <1>4

(* A stream opens.                                                          *)
LEMMA OpenEffect ==
  ASSUME TypeInv, OpenAssignments
  PROVE  /\ stream' = TRUE /\ ~stream /\ session /\ up
         /\ events' = <<>> /\ Len(events') = 0 /\ Len(pipe') = 1 /\ pipe'[1].complete
         /\ \A t \in Tasks : /\ aset'.tasks[t] = Known(store[t])
                             /\ pipe'[1].changes[t] = IF store[t].state >= Assigned
                                                      THEN Update(store[t]) ELSE NoChange
         /\ \A r \in Resources :
              /\ aset'.using[r] =
                   {t \in Tasks : store[t].state \in Assigned..Active /\ r \in Deps[t]}
              /\ pipe'[1].changes[r] = IF aset'.using[r] # {} /\ r \notin Missing
                                       THEN Update(NoRecord) ELSE NoChange
         /\ UNCHANGED <<store, up, session, synced, db, tx, mgr, pending, held, rq, reporting,
                        sending, used>>
<1>1. /\ stream' = TRUE /\ ~stream /\ session /\ up /\ events' = <<>>
      /\ aset' = Cleared(SnapshotSet)
      /\ pipe' = <<[complete |-> TRUE, changes |-> SnapshotSet.changes]>>
      /\ UNCHANGED <<store, up, session, synced, workerVars, reporterVars, used>>
  BY DEF OpenAssignments, CanOpen, Cleared
<1>2. store \in [Tasks -> Record]
  BY DEF TypeInv, LeaderTypes
<1>3. SnapshotSet \in ASet
  BY <1>2, SnapshotEffect
<1>4. aset'.tasks = SnapshotSet.tasks /\ aset'.using = SnapshotSet.using
  BY <1>1, <1>3, ClearedEffect
<1>5. Len(pipe') = 1 /\ pipe'[1].complete /\ pipe'[1].changes = SnapshotSet.changes
  BY <1>1
<1>6. UNCHANGED <<db, tx, mgr, pending, held, rq, reporting, sending>>
  BY <1>1 DEF workerVars, reporterVars
<1>7. \A t \in Tasks : /\ aset'.tasks[t] = Known(store[t])
                       /\ pipe'[1].changes[t] = IF store[t].state >= Assigned
                                                THEN Update(store[t]) ELSE NoChange
  BY <1>2, <1>4, <1>5, SnapshotEffect DEF Known
<1>8. \A r \in Resources :
        /\ aset'.using[r] =
             {t \in Tasks : store[t].state \in Assigned..Active /\ r \in Deps[t]}
        /\ pipe'[1].changes[r] = IF aset'.using[r] # {} /\ r \notin Missing
                                 THEN Update(NoRecord) ELSE NoChange
  BY <1>2, <1>4, <1>5, SnapshotEffect
<1> QED BY <1>1, <1>5, <1>6, <1>7, <1>8

(* A batch is sent.                                                         *)
LEMMA SendEffect ==
  ASSUME TypeInv, \A t \in Tasks : EventsFollow(t), SendBatch
  PROVE  /\ stream /\ stream' = stream
         /\ \E k \in 1..Len(events) : \E b \in ASet :
              /\ b = Batch(aset, events, k) /\ \A t \in Tasks : BatchTask(b, t, k)
              /\ aset'.tasks = b.tasks /\ aset'.using = b.using
              /\ events' = SubSeq(events, k + 1, Len(events))
              /\ pipe' = IF b.changes = NoChanges THEN pipe
                         ELSE Append(pipe, [complete |-> FALSE, changes |-> b.changes])
         /\ UNCHANGED <<store, up, session, synced, db, tx, mgr, pending, held, rq, reporting,
                        sending, used>>
<1>1. /\ stream /\ stream' = stream
      /\ UNCHANGED <<store, up, session, synced, workerVars, reporterVars, used>>
  BY DEF SendBatch
<1>2. PICK k \in 1..Len(events) :
        LET new == Batch(aset, events, k)
        IN /\ aset' = Cleared(new)
           /\ events' = SubSeq(events, k + 1, Len(events))
           /\ pipe' = IF new.changes = NoChanges THEN pipe
                      ELSE Append(pipe, [complete |-> FALSE, changes |-> new.changes])
  BY DEF SendBatch, Cleared
<1> DEFINE b == Batch(aset, events, k)
<1>3. b \in ASet /\ \A t \in Tasks : BatchTask(b, t, k)
  BY <1>1, BatchEffect
<1>4. aset'.tasks = b.tasks /\ aset'.using = b.using
  BY <1>2, <1>3, ClearedEffect
<1>5. UNCHANGED <<db, tx, mgr, pending, held, rq, reporting, sending>>
  BY <1>1 DEF workerVars, reporterVars
<1>6. /\ events' = SubSeq(events, k + 1, Len(events))
      /\ pipe' = IF b.changes = NoChanges THEN pipe
                 ELSE Append(pipe, [complete |-> FALSE, changes |-> b.changes])
  BY <1>2
<1> HIDE DEF b
<1>7. b = Batch(aset, events, k)
  BY DEF b
<1>8. \E c \in ASet :
              /\ c = Batch(aset, events, k) /\ \A t \in Tasks : BatchTask(c, t, k)
              /\ aset'.tasks = c.tasks /\ aset'.using = c.using
              /\ events' = SubSeq(events, k + 1, Len(events))
              /\ pipe' = IF c.changes = NoChanges THEN pipe
                         ELSE Append(pipe, [complete |-> FALSE, changes |-> c.changes])
  BY <1>3, <1>4, <1>6, <1>7
<1> QED BY <1>1, <1>5, <1>8

(* The leader writes a record.                                              *)
LEMMA WriteStore ==
  ASSUME TypeInv, NEW u \in Tasks, NEW new \in Record, LeaderWrites(u, new)
  PROVE  \A v \in Tasks : store'[v] = IF v = u THEN new ELSE store[v]
BY DEF LeaderWrites, TypeInv, LeaderTypes

LEMMA WriteEffect ==
  ASSUME TypeInv, NEW u \in Tasks, NEW new \in Record, LeaderWrites(u, new)
  PROVE  /\ \A t \in Tasks : store'[t] = IF t = u THEN new ELSE store[t]
         /\ StoreMove(u, new)
         /\ stream => /\ Len(events) \in Nat /\ Len(events') = Len(events) + 1
                      /\ events'[Len(events) + 1] = [task |-> u, new |-> new]
                      /\ \A i \in 1..Len(events) : events'[i] = events[i]
         /\ UNCHANGED <<stream, aset, pipe, up, session, synced, db, tx, mgr, pending, held, rq,
                        reporting>>
<1>1. \A t \in Tasks : store'[t] = IF t = u THEN new ELSE store[t]
  BY WriteStore
<1>2. /\ StoreMove(u, new) /\ events' = Publish(u, new)
      /\ UNCHANGED <<stream, aset, pipe, up, session, synced, db, tx, mgr, pending, held, rq,
                     reporting>>
  BY DEF LeaderWrites, StoreMove
<1> DEFINE e == [task |-> u, new |-> new]
<1>3. e \in Event /\ events \in Seq(Event)
  BY DEF Event, TypeInv, LeaderTypes
<1>4. stream => events' = Append(events, e)
  BY <1>2 DEF Publish
<1> HIDE DEF e
<1>5. stream => /\ Len(events) \in Nat /\ Len(events') = Len(events) + 1
                /\ events'[Len(events) + 1] = e
                /\ \A i \in 1..Len(events) : events'[i] = events[i]
  BY <1>3, <1>4, AppendFacts
<1> QED BY <1>1, <1>2, <1>5 DEF e

LEMMA EventsInit == Init => \A t \in Tasks : EventsFollow(t)
BY DEF Init, EventsFollow

LEMMA EventsStep ==
  ASSUME TypeInv, [Next]_vars, \A t \in Tasks : EventsFollow(t), NEW t \in Tasks
  PROVE  EventsFollow(t)'
<1>1. EventsFollow(t) /\ store[t].state \in 0..4
  BY TaskTypes
<1>2. CASE UNCHANGED <<store, stream, events, aset>>
  BY <1>1, <1>2 DEF EventsFollow, EventFollows, LastEvent, NoEvent
<1>3. ASSUME NEW u \in Tasks, NEW new \in Record, LeaderWrites(u, new)
      PROVE  EventsFollow(t)'
  <2> SUFFICES ASSUME stream' PROVE EventsFollow(t)'
    BY DEF EventsFollow
  <2>1. /\ \A v \in Tasks : store'[v] = IF v = u THEN new ELSE store[v]
        /\ StoreMove(u, new) /\ stream /\ aset' = aset
        /\ Len(events) \in Nat /\ Len(events') = Len(events) + 1
        /\ events'[Len(events) + 1] = [task |-> u, new |-> new]
        /\ \A i \in 1..Len(events) : events'[i] = events[i]
    BY <1>3, WriteEffect, ZenonT(40)
  <2>2. /\ store[u].state # None /\ new.state \in 0..4
        /\ new.state >= store[u].state \/ new = NoRecord
        /\ new.state # Pending /\ NoRecord.state = None
    BY <2>1, MoveEffect DEF NoRecord
  <2>3. ASSUME NEW i \in 1..Len(events') PROVE EventFollows(t, i)'
    <3>1. CASE i = Len(events) + 1
      BY <2>1, <2>2, <3>1 DEF EventFollows, LastEvent
    <3>2. CASE i \in 1..Len(events)
      <4>1. /\ events'[i] = events[i]
            /\ Len(events') \in (i + 1)..Len(events') /\ events'[Len(events')].task = u
        BY <2>1, <3>2
      <4>2. LastEvent(t, i)' => t # u
        BY <4>1 DEF LastEvent
      <4>3. LastEvent(t, i)' => LastEvent(t, i)
        BY <2>1, <3>2, <4>1 DEF LastEvent
      <4>4. EventFollows(t, i) /\ events[i].new.state \in 0..4
        <5>1. EventFollows(t, i)
          BY <1>1, <2>1, <3>2 DEF EventsFollow
        <5>2. events[i] \in Event
          BY <3>2 DEF TypeInv, LeaderTypes
        <5> QED BY <5>1, <5>2 DEF Event, Record, None, Final
      <4>5. CASE t # u
        <5>1. store'[t] = store[t]
          BY <2>1, <4>5
        <5>2. ASSUME LastEvent(t, i) PROVE LastEvent(t, i)'
          <6>1. ASSUME NEW j \in (i + 1)..Len(events') PROVE events'[j].task # t
            <7>1. CASE j = Len(events')
              BY <4>1, <4>5, <7>1
            <7>2. CASE j \in (i + 1)..Len(events)
              BY <2>1, <3>2, <5>2, <7>2 DEF LastEvent
            <7> QED BY <2>1, <3>2, <7>1, <7>2
          <6> QED BY <4>1, <5>2, <6>1 DEF LastEvent
        <5> QED BY <4>1, <4>3, <4>4, <5>1, <5>2 DEF EventFollows
      <4>6. CASE t = u
        <5>1. store'[t] = new
          BY <2>1, <4>6
        <5> QED BY <1>1, <2>2, <4>1, <4>2, <4>4, <4>6, <5>1 DEF EventFollows
      <4> QED BY <4>5, <4>6
    <3> QED BY <2>1, <3>1, <3>2
  <2>4. NoEvent(t)' => NoEvent(t) /\ t # u
    <3>1. Len(events') \in 1..Len(events') /\ events'[Len(events')].task = u
      BY <2>1
    <3>2. \A i \in 1..Len(events) : i \in 1..Len(events')
      BY <2>1
    <3> QED BY <2>1, <3>1, <3>2 DEF NoEvent
  <2>5. NoEvent(t)' => aset'.tasks[t] = Known(store'[t])
    BY <1>1, <2>1, <2>4 DEF EventsFollow
  <2>6. aset.tasks[t].state \in 0..4
    BY DEF TypeInv, LeaderTypes, ASet, Record, None, Final
  <2>7. /\ aset'.tasks[t] = NoRecord \/ aset'.tasks[t].state >= Assigned
        /\ store'[t].state # None => aset'.tasks[t].state <= store'[t].state
    BY <1>1, <2>1, <2>2, <2>6 DEF EventsFollow
  <2> QED BY <2>3, <2>5, <2>7 DEF EventsFollow
<1>4. CASE SessionDrops
  BY <1>4 DEF SessionDrops, EventsFollow
<1>5. CASE OpenAssignments
  <2>1. /\ Len(events') = 0 /\ aset'.tasks[t] = Known(store[t]) /\ store' = store
    BY <1>5, OpenEffect
  <2> QED BY <1>1, <2>1 DEF EventsFollow, Known, NoRecord, None
<1>6. CASE SendBatch
  <2>1. PICK k \in 1..Len(events), b \in ASet :
          /\ BatchTask(b, t, k) /\ aset'.tasks = b.tasks
          /\ events' = SubSeq(events, k + 1, Len(events))
    BY <1>6, SendEffect
  <2>2. /\ Len(events) \in Nat /\ Len(events') = Len(events) - k
        /\ \A i \in 1..Len(events') : i + k \in 1..Len(events) /\ events'[i] = events[i + k]
    BY <2>1, SuffixFacts DEF TypeInv, LeaderTypes
  <2>3. store' = store /\ stream
    BY <1>6, SendEffect
  <2>4. ASSUME NEW j \in (k + 1)..Len(events)
        PROVE  j - k \in 1..Len(events') /\ events'[j - k] = events[j]
    <3>1. j - k \in 1..Len(events') /\ (j - k) + k = j
      BY <2>1, <2>2
    <3> QED BY <2>2, <3>1
  <2>5. ASSUME NEW i \in 1..Len(events') PROVE EventFollows(t, i)'
    <3>1. EventFollows(t, i + k) /\ events'[i] = events[i + k]
      BY <1>1, <2>2, <2>3 DEF EventsFollow
    <3>2. LastEvent(t, i)' => LastEvent(t, i + k)
      <4>1. ASSUME NEW j \in ((i + k) + 1)..Len(events)
            PROVE  j - k \in (i + 1)..Len(events') /\ events'[j - k] = events[j]
        BY <2>1, <2>2, <2>4
      <4> QED BY <3>1, <4>1 DEF LastEvent
    <3>3. LastEvent(t, i + k) => LastEvent(t, i)'
      <4>1. ASSUME NEW j \in (i + 1)..Len(events')
            PROVE  j + k \in ((i + k) + 1)..Len(events) /\ events'[j] = events[j + k]
        <5>1. j \in 1..Len(events') /\ i + k + 1 <= j + k
          BY <2>1, <2>2
        <5>2. j + k \in 1..Len(events) /\ events'[j] = events[j + k]
          BY <2>2, <5>1
        <5> QED BY <2>1, <2>2, <5>1, <5>2
      <4> QED BY <3>1, <4>1 DEF LastEvent
    <3> QED BY <2>3, <3>1, <3>2, <3>3 DEF EventFollows
  <2>6. NoEvent(t)' => \A j \in (k + 1)..Len(events) : events[j].task # t
    BY <2>4 DEF NoEvent
  <2> QED BY <2>1, <2>3, <2>5, <2>6 DEF EventsFollow, BatchTask
<1> QED BY <1>2, <1>3, <1>4, <1>5, <1>6, LeaderFrame

-----------------------------------------------------------------------------
(* The steps of the agent.                                                  *)

LEMMA AgentFrame ==
  ASSUME [Next]_vars
  PROVE  \/ UNCHANGED <<up, db, tx, mgr, pending, rq, sending>>
         \/ ReceiveAssignments \/ Commit \/ Crash \/ Restart
         \/ Report \/ SendFails \/ SendStatus
         \/ \E u \in Tasks : Operate(u) \/ ReportStatus(u) \/ TakeStatus(u)
<1>1. CASE UNCHANGED vars
  BY <1>1 DEF vars
<1>2. ASSUME NEW u \in Tasks, Schedule(u) \/ SetShutdown(u) \/ DeleteTask(u)
      PROVE  UNCHANGED <<up, db, tx, mgr, pending, rq, sending>>
  BY <1>2 DEF Schedule, SetShutdown, DeleteTask, workerVars, reporterVars
<1>3. CASE StreamStep
  BY <1>3 DEF StreamStep, OpenAssignments, SendBatch, workerVars, reporterVars
<1>4. CASE Connect \/ Break
  BY <1>4 DEF Connect, Break, workerVars, reporterVars
<1> QED BY <1>1, <1>2, <1>3, <1>4 DEF Next, TaskStep, ReporterStep

(* An operation of a manager ends, and leaves the task where it was or      *)
(* further on.                                                              *)
LEMMA EndEffect ==
  ASSUME TypeInv, NEW u \in Tasks, Operate(u), NEW t \in Tasks
  PROVE  /\ Written' = Written /\ mgr[u] # NoMgr /\ up
         /\ mgr[t] = NoMgr <=> mgr'[t] = NoMgr
         /\ t # u => mgr'[t] = mgr[t] /\ pending'[t] = pending[t]
         /\ t = u => /\ pending[t] = None /\ pending'[t] = mgr'[t].state
                     /\ mgr'[t].state \in {Assigned, Active, Final}
                     /\ mgr[t].state = Assigned \/ mgr'[t].state = Final
         /\ UNCHANGED <<up, db, tx, rq, sending>>
<1>1. PICK s \in {Assigned, Active, Final} :
        /\ up /\ mgr[u] # NoMgr /\ pending[u] = None
        /\ mgr[u].state = Assigned \/ s = Final
        /\ mgr' = [mgr EXCEPT ![u].state = s] /\ pending' = [pending EXCEPT ![u] = s]
        /\ UNCHANGED <<db, tx, rq, sending>>
  BY OperateEffect
<1>2. mgr'[u].state = s /\ pending'[u] = s
  BY <1>1 DEF TypeInv, WorkerTypes, Record
<1>3. mgr'[u] # NoMgr
  BY <1>2 DEF NoMgr, NoRecord, None, Assigned, Active, Final
<1>4. t # u => mgr'[t] = mgr[t] /\ pending'[t] = pending[t]
  BY <1>1 DEF TypeInv, WorkerTypes
<1>5. Written' = Written
  BY <1>1 DEF Written
<1>6. UNCHANGED <<up, db, tx, rq, sending>>
  BY <1>1 DEF Operate
<1> QED BY <1>1, <1>2, <1>3, <1>4, <1>5, <1>6

(* A manager's status is written.                                           *)
LEMMA StatusEffect ==
  ASSUME TypeInv, NEW u \in Tasks, ReportStatus(u), NEW t \in Tasks
  PROVE  /\ tx = NoTx /\ Written[t] = db[t] /\ up
         /\ pending'[t] = IF t = u THEN None ELSE pending[t]
         /\ pending[u] \in {Assigned, Active, Final}
         /\ t # u \/ db[t].state = None => Written'[t] = Written[t] /\ rq'[t] = rq[t]
         /\ t = u /\ db[t].state # None =>
              /\ Written'[t].state = pending[t] /\ Written'[t].desired = Written[t].desired
              /\ rq'[t] = Enqueue(rq, t, pending[t])
         /\ db[u].state # None => tx' \in [Tasks -> Record]
         /\ db[u].state = None => tx' = tx
         /\ UNCHANGED <<up, db, mgr, sending>>
<1>1. /\ tx = NoTx /\ pending[u] # None /\ up
      /\ pending' = [pending EXCEPT ![u] = None]
      /\ IF db[u].state # None
         THEN /\ tx' = PutTaskStatus(u, pending[u])
              /\ rq' = [rq EXCEPT ![u] = Enqueue(rq, u, pending[u])]
         ELSE UNCHANGED <<tx, rq>>
      /\ UNCHANGED <<up, db, mgr, sending>>
  BY DEF ReportStatus
<1>2. /\ pending[u] \in {Assigned, Active, Final} /\ Written[t] = db[t]
      /\ db \in [Tasks -> Record] /\ rq \in [Tasks -> None..Final]
      /\ pending'[t] = IF t = u THEN None ELSE pending[t]
  BY <1>1, WrittenTx DEF TypeInv, WorkerTypes, ReporterTypes
<1>3. CASE db[u].state = None
  <2>1. tx' = NoTx /\ rq' = rq /\ db' = db
    BY <1>1, <1>3
  <2>2. Written'[t] = db[t]
    BY <2>1, WrittenTx
  <2> QED BY <1>1, <1>2, <1>3, <2>1, <2>2
<1>4. CASE db[u].state # None
  <2>1. /\ tx' = [db EXCEPT ![u].state = pending[u]]
        /\ rq' = [rq EXCEPT ![u] = Enqueue(rq, u, pending[u])]
    BY <1>1, <1>4 DEF PutTaskStatus
  <2>2. tx' \in [Tasks -> Record]
    BY <1>2, <2>1 DEF Record, None, Assigned, Active, Final
  <2>3. Written'[t] = tx'[t]
    BY <2>2, WrittenTx
  <2>4. /\ t = u => tx'[t].state = pending[t] /\ tx'[t].desired = db[t].desired
        /\ t # u => tx'[t] = db[t]
    BY <1>2, <2>1 DEF Record
  <2>5. rq'[t] = IF t = u THEN Enqueue(rq, t, pending[t]) ELSE rq[t]
    BY <1>2, <2>1
  <2>6. UNCHANGED <<up, db, mgr, sending>>
    BY <1>1
  <2> QED BY <1>1, <1>2, <1>4, <2>2, <2>3, <2>4, <2>5, <2>6
<1> QED BY <1>3, <1>4

LEMMA CommitEffect ==
  ASSUME TypeInv, Commit, NEW t \in Tasks
  PROVE  Written'[t] = Written[t] /\ db'[t] = Written[t] /\ UNCHANGED <<up, mgr, pending, rq, sending>>
<1>1. tx # NoTx /\ db' = tx /\ tx' = NoTx /\ UNCHANGED <<up, mgr, pending, rq, sending>>
  BY DEF Commit, reporterVars
<1>2. tx \in [Tasks -> Record]
  BY <1>1 DEF TypeInv, WorkerTypes
<1> QED BY <1>1, <1>2, WrittenTx

LEMMA TakeEffect ==
  ASSUME TypeInv, NEW u \in Tasks, TakeStatus(u), NEW t \in Tasks
  PROVE  /\ sending.task \notin Tasks /\ rq[u] # None
         /\ sending'.task = u /\ sending'.state = rq[u]
         /\ rq'[t] = IF t = u THEN None ELSE rq[t]
         /\ NodeSame /\ Written' = Written
<1>1. /\ sending = NoSend /\ rq[u] # None /\ sending' = [task |-> u, state |-> rq[u]]
      /\ rq' = [rq EXCEPT ![u] = None] /\ NodeSame
  BY DEF TakeStatus, workerVars, NodeSame
<1>2. NoSend.task \notin Tasks
  BY AssignmentsAssumption DEF NoSend
<1>3. Written' = Written
  BY <1>1 DEF NodeSame, Written
<1>4. rq'[t] = IF t = u THEN None ELSE rq[t]
  BY <1>1 DEF TypeInv, ReporterTypes
<1> QED BY <1>1, <1>2, <1>3, <1>4

LEMMA ReportEffect ==
  ASSUME TypeInv, Report, NEW t \in Tasks
  PROVE  /\ rq'[t] = IF db[t].state # None THEN Enqueue(rq, t, db[t].state) ELSE rq[t]
         /\ Written[t] = db[t] /\ NodeSame /\ Written' = Written /\ sending' = sending
<1>1. tx = NoTx /\ rq' = ReportAll /\ NodeSame /\ sending' = sending
  BY DEF Report, workerVars, NodeSame
<1>2. Written[t] = db[t] /\ Written' = Written
  BY <1>1, WrittenTx DEF NodeSame, Written
<1> QED BY <1>1, <1>2 DEF ReportAll

(* A status is sent, or it fails to be.                                     *)
LEMMA SendingEffect ==
  ASSUME TypeInv, SendStatus \/ SendFails, NEW t \in Tasks
  PROVE  /\ up /\ sending # NoSend /\ sending' = NoSend /\ NodeSame /\ Written' = Written
         /\ SendStatus => rq'[t] = rq[t] /\ store'[t] =
              IF t = sending.task THEN Updated(t, sending.state) ELSE store[t]
         /\ SendFails => rq'[t] = IF t = sending.task /\ rq[t] = None
                                  THEN sending.state ELSE rq[t]
<1>1. up /\ sending # NoSend /\ sending' = NoSend /\ NodeSame
  BY DEF SendStatus, SendFails, workerVars, NodeSame, TypeInv, Alive
<1>2. Written' = Written
  BY <1>1 DEF NodeSame, Written
<1>3. ASSUME SendStatus
      PROVE  rq'[t] = rq[t] /\ store'[t] =
               IF t = sending.task THEN Updated(t, sending.state) ELSE store[t]
  BY <1>3 DEF SendStatus, TypeInv, LeaderTypes
<1>4. ASSUME SendFails
      PROVE  rq'[t] = IF t = sending.task /\ rq[t] = None THEN sending.state ELSE rq[t]
  BY <1>4 DEF SendFails, PutBack, TypeInv, ReporterTypes
<1> QED BY <1>1, <1>2, <1>3, <1>4

(* Only a message, a crash or a restart can add a task to the node, remove  *)
(* one or change its desired state.                                         *)
LEMMA PresenceKept ==
  ASSUME TypeInv, [Next]_vars, NEW t \in Tasks
  PROVE  \/ ReceiveAssignments \/ Crash \/ Restart
         \/ /\ Written'[t].state = None <=> Written[t].state = None
            /\ Written'[t].desired = Written[t].desired
            /\ mgr'[t] = NoMgr <=> mgr[t] = NoMgr
<1>1. CASE UNCHANGED <<up, db, tx, mgr, pending, rq, sending>>
  BY <1>1 DEF Written
<1>2. CASE Commit
  BY <1>2, CommitEffect
<1>3. CASE Report
  BY <1>3, ReportEffect DEF NodeSame
<1>4. CASE SendFails \/ SendStatus
  BY <1>4, SendingEffect DEF NodeSame
<1>5. ASSUME NEW u \in Tasks, Operate(u)
      PROVE  /\ Written'[t].state = None <=> Written[t].state = None
             /\ Written'[t].desired = Written[t].desired
             /\ mgr'[t] = NoMgr <=> mgr[t] = NoMgr
  BY <1>5, EndEffect
<1>6. ASSUME NEW u \in Tasks, ReportStatus(u)
      PROVE  /\ Written'[t].state = None <=> Written[t].state = None
             /\ Written'[t].desired = Written[t].desired
             /\ mgr'[t] = NoMgr <=> mgr[t] = NoMgr
  BY <1>6, StatusEffect DEF None, Assigned, Active, Final
<1>7. ASSUME NEW u \in Tasks, TakeStatus(u)
      PROVE  /\ Written'[t].state = None <=> Written[t].state = None
             /\ Written'[t].desired = Written[t].desired
             /\ mgr'[t] = NoMgr <=> mgr[t] = NoMgr
  BY <1>7, TakeEffect DEF NodeSame
<1> QED BY <1>1, <1>2, <1>3, <1>4, <1>5, <1>6, <1>7, AgentFrame

(* A message is received.                                                   *)
LEMMA ReceiveEffect ==
  ASSUME TypeInv, NodeInv, ReceiveAssignments, NEW t \in Tasks
  PROVE  /\ up /\ stream /\ UNCHANGED <<store, stream, events, aset, up, db, pending, sending>>
         /\ pipe[1] \in Msg /\ pipe[1].changes[t] \in ChangeOf
         /\ Len(pipe) \in Nat /\ Len(pipe) >= 1 /\ Len(pipe') = Len(pipe) - 1
         /\ \A i \in 1..Len(pipe') : i + 1 \in 1..Len(pipe) /\ pipe'[i] = pipe[i + 1]
         /\ Written[t] = db[t]
         /\ pipe[1].changes[t].action = "update" =>
              /\ Written'[t].state # None /\ Written'[t].state >= Written[t].state
              /\ Written'[t].desired = pipe[1].changes[t].task.desired
              /\ IF mgr[t] = NoMgr THEN rq'[t] = Enqueue(rq, t, Written'[t].state)
                 ELSE /\ rq'[t] = rq[t] /\ Written'[t].state = Written[t].state
                      /\ mgr'[t] # NoMgr /\ mgr'[t].state = mgr[t].state
              /\ mgr[t] = NoMgr /\ mgr'[t] = NoMgr => Written'[t].state = Final
              /\ mgr[t] = NoMgr /\ mgr'[t] # NoMgr =>
                   \/ Written'[t].state = mgr'[t].state
                   \/ Written'[t].state = Active /\ mgr'[t].state = Assigned
         /\ pipe[1].changes[t].action # "update" =>
              /\ rq'[t] = rq[t]
              /\ Gone(t, pipe[1]) => Written'[t] = NoRecord /\ mgr'[t] = NoMgr
              /\ ~Gone(t, pipe[1]) => Written'[t] = Written[t] /\ mgr'[t] = mgr[t]
<1>1. PICK bad \in SUBSET Tasks : Reconcile(Head(pipe), bad)
  BY DEF ReceiveAssignments
<1>2. /\ tx = NoTx /\ up /\ pipe # <<>> /\ pipe' = Tail(pipe) /\ pipe \in Seq(Msg)
      /\ UNCHANGED <<store, stream, events, aset, up>>
  BY DEF ReceiveAssignments, TypeInv, LeaderTypes
<1>3. /\ Head(pipe) = pipe[1] /\ pipe[1] \in Msg
      /\ Len(pipe) \in Nat /\ Len(pipe) >= 1 /\ Len(pipe') = Len(pipe) - 1
      /\ \A i \in 1..Len(pipe') : i + 1 \in 1..Len(pipe) /\ pipe'[i] = pipe[i + 1]
  BY <1>2, PipeTail
<1>4. stream
  BY <1>2 DEF TypeInv, Alive
<1> DEFINE c == pipe[1].changes[t]
           ok == t \notin bad
           d == Stored(t, c.task.state)
           s == StartStatus(t, c, ok)
<1>5. /\ TaskReconciled(t, c, Gone(t, pipe[1]), ok) /\ tx' \in [Tasks -> Record]
      /\ UNCHANGED <<db, pending, sending>>
  BY <1>1, <1>3, ReconcileEffect
<1>6. Written[t] = db[t] /\ Written'[t] = tx'[t]
  BY <1>2, <1>5, WrittenTx
<1>7. c \in ChangeOf /\ c.task.state \in None..Final
  BY <1>3, KeyTypes DEF Msg, Changes, ChangeOf, Record
<1>8. c.action = "update" =>
        /\ d \in {Assigned, Active, Final} /\ s \in {Active, Final} /\ s >= db[t].state
        /\ ok => s = d \/ (s = Active /\ d = Assigned)
        /\ ~ok => s = Final
  <2>1. ASSUME c.action = "update"
        PROVE  /\ d \in {Assigned, Active, Final} /\ d >= db[t].state
               /\ s \in {Active, Final} /\ s >= d
               /\ ok => s = d \/ (s = Active /\ d = Assigned)
               /\ ~ok => s = Final
    BY <1>3, <2>1, StartEffect
  <2>2. db[t].state \in 0..4
    BY TaskTypes
  <2> HIDE DEF d, s, ok
  <2> QED BY <2>1, <2>2 DEF Assigned, Active, Final
<1>9. Managed(t) /\ db[t] \in Record /\ mgr[t] \in Record /\ db[t].state \in 0..4
  BY TaskTypes DEF NodeInv
<1> HIDE DEF c, ok, s, d
<1>10. CASE c.action = "update" /\ mgr[t] = NoMgr
  <2>1. /\ tx'[t].state = s /\ tx'[t].desired = c.task.desired /\ rq'[t] = Enqueue(rq, t, s)
        /\ ok => mgr'[t].state = d
        /\ ~ok => mgr'[t] = NoMgr
    BY <1>5, <1>10 DEF TaskReconciled, s, d
  <2>2. s # None /\ (ok => mgr'[t] # NoMgr)
    BY <1>8, <1>10, <2>1 DEF None, Assigned, Active, Final, NoMgr, NoRecord
  <2> QED BY <1>2, <1>3, <1>4, <1>5, <1>6, <1>7, <1>8, <1>10, <2>1, <2>2 DEF c
<1>11. CASE c.action = "update" /\ mgr[t] # NoMgr
  <2>1. /\ tx'[t].state = db[t].state /\ tx'[t].desired = c.task.desired
        /\ mgr'[t].state = mgr[t].state /\ rq'[t] = rq[t]
    BY <1>5, <1>9, <1>11 DEF TaskReconciled, Record
  <2>2. db[t].state # None /\ mgr'[t] # NoMgr
    BY <1>6, <1>9, <1>11, <2>1 DEF Managed, NoMgr, NoRecord, None, Assigned, Active, Final
  <2> QED BY <1>2, <1>3, <1>4, <1>5, <1>6, <1>7, <1>9, <1>11, <2>1, <2>2 DEF c
<1>12. CASE c.action # "update"
  <2>1. /\ rq'[t] = rq[t]
        /\ Gone(t, pipe[1]) => tx'[t] = NoRecord /\ mgr'[t] = NoMgr
        /\ ~Gone(t, pipe[1]) => tx'[t] = db[t] /\ mgr'[t] = mgr[t]
    BY <1>5, <1>12 DEF TaskReconciled
  <2> QED BY <1>2, <1>3, <1>4, <1>5, <1>6, <1>7, <1>12, <2>1 DEF c
<1> QED BY <1>10, <1>11, <1>12

-----------------------------------------------------------------------------
(* Tasks that are not assigned yet.                                         *)

LEMMA FreshInit == Init => \A t \in Tasks : FreshStream(t) /\ FreshNode(t)
<1> SUFFICES ASSUME Init, NEW t \in Tasks PROVE FreshStream(t) /\ FreshNode(t)
  OBVIOUS
<1>1. /\ store[t] = [state |-> Pending, desired |-> Run] /\ events = <<>> /\ pipe = <<>>
      /\ aset = EmptySet /\ db[t] = NoRecord /\ tx = NoTx /\ mgr[t] = NoMgr /\ rq[t] = None
      /\ sending = NoSend
  BY DEF Init
<1>2. EmptySet.tasks[t] = NoRecord /\ NoRecord.state = None /\ NoSend.task # t
  BY AssignmentsAssumption DEF EmptySet, NoRecord, NoSend
<1>3. Written[t] = db[t]
  BY <1>1, WrittenTx
<1>4. FreshStream(t)
  BY <1>1, <1>2 DEF FreshStream, NoEvent
<1> QED BY <1>1, <1>2, <1>3, <1>4 DEF FreshNode

LEMMA PendingStays ==
  ASSUME TypeInv, [Next]_vars, NEW t \in Tasks, store'[t].state = Pending
  PROVE  /\ store'[t] = store[t]
         /\ \A u \in Tasks, new \in Record : LeaderWrites(u, new) => u # t
<1>1. store \in [Tasks -> Record]
  BY DEF TypeInv, LeaderTypes
<1>2. ASSUME NEW u \in Tasks, NEW new \in Record, StoreMove(u, new),
             store' = [store EXCEPT ![u] = new]
      PROVE  u # t /\ store'[t] = store[t]
  <2>1. new.state # Pending
    BY <1>2, MoveEffect
  <2> QED BY <1>1, <1>2, <2>1
<1>3. CASE store' = store
  <2>1. \A u \in Tasks, new \in Record : LeaderWrites(u, new) => u # t
    BY <1>2 DEF LeaderWrites, StoreMove
  <2> QED BY <1>3, <2>1
<1>4. CASE \E u \in Tasks : \E new \in Record : LeaderWrites(u, new)
  BY <1>2, <1>4 DEF LeaderWrites, StoreMove
<1>5. CASE SessionDrops /\ store' # store
  BY <1>2, <1>5 DEF SessionDrops, StoreMove, LeaderWrites
<1>6. OpenAssignments \/ SendBatch => store' = store
  BY DEF OpenAssignments, SendBatch
<1> QED BY <1>3, <1>4, <1>5, <1>6, LeaderFrame

LEMMA FreshStreamStep ==
  ASSUME TypeInv, NodeInv, [Next]_vars, \A t \in Tasks : EventsFollow(t), NEW t \in Tasks,
         FreshStream(t)
  PROVE  FreshStream(t)'
<1> SUFFICES ASSUME store'[t].state = Pending PROVE FreshStream(t)'
  BY DEF FreshStream
<1>1. /\ store'[t] = store[t]
      /\ \A u \in Tasks, new \in Record : LeaderWrites(u, new) => u # t
  BY PendingStays
<1>2. /\ store[t].desired = Run /\ NoEvent(t) /\ aset.tasks[t] = NoRecord
      /\ \A i \in 1..Len(pipe) : pipe[i].changes[t] = NoChange
  BY <1>1 DEF FreshStream
<1> USE <1>1, <1>2 DEF FreshStream
<1>3. CASE UNCHANGED <<store, stream, events, aset>> /\ (pipe' = pipe \/ ReceiveAssignments)
  <2>1. NoEvent(t)'
    BY <1>3 DEF NoEvent
  <2>2. \A i \in 1..Len(pipe') : pipe'[i].changes[t] = NoChange
    <3>1. CASE pipe' = pipe
      BY <3>1
    <3>2. CASE ReceiveAssignments
      BY <3>2, ReceiveEffect
    <3> QED BY <1>3, <3>1, <3>2
  <2> QED BY <1>3, <2>1, <2>2
<1>4. ASSUME NEW u \in Tasks, NEW new \in Record, LeaderWrites(u, new)
      PROVE  FreshStream(t)'
  <2>1. u # t /\ aset' = aset /\ pipe' = pipe
    BY <1>4, WriteEffect
  <2>2. NoEvent(t)'
    <3>1. CASE stream
      <4>1. /\ Len(events) \in Nat /\ Len(events') = Len(events) + 1
            /\ events'[Len(events) + 1] = [task |-> u, new |-> new]
            /\ \A i \in 1..Len(events) : events'[i] = events[i]
        BY <1>4, <3>1, WriteEffect
      <4> QED BY <2>1, <4>1 DEF NoEvent
    <3>2. CASE ~stream
      <4>1. events' = events
        BY <1>4, <3>2 DEF LeaderWrites, Publish
      <4> QED BY <4>1 DEF NoEvent
    <3> QED BY <3>1, <3>2
  <2> QED BY <2>1, <2>2
<1>5. CASE SessionDrops
  <2>1. events' = <<>> /\ pipe' = <<>> /\ aset' = EmptySet
    BY <1>5 DEF SessionDrops
  <2>2. EmptySet.tasks[t] = NoRecord
    BY DEF EmptySet
  <2> QED BY <2>1, <2>2 DEF NoEvent
<1>6. CASE OpenAssignments
  <2>1. /\ Len(events') = 0 /\ Len(pipe') = 1 /\ aset'.tasks[t] = Known(store[t])
        /\ pipe'[1].changes[t] = IF store[t].state >= Assigned
                                 THEN Update(store[t]) ELSE NoChange
    BY <1>6, OpenEffect
  <2>2. ~(store[t].state >= Assigned)
    BY DEF Pending, Assigned
  <2>3. aset'.tasks[t] = NoRecord /\ pipe'[1].changes[t] = NoChange
    BY <2>1, <2>2 DEF Known
  <2> QED BY <2>1, <2>3 DEF NoEvent
<1>7. CASE SendBatch
  <2>1. PICK k \in 1..Len(events), b \in ASet :
          /\ BatchTask(b, t, k) /\ aset'.tasks = b.tasks
          /\ events' = SubSeq(events, k + 1, Len(events))
          /\ pipe' = IF b.changes = NoChanges THEN pipe
                     ELSE Append(pipe, [complete |-> FALSE, changes |-> b.changes])
    BY <1>7, SendEffect
  <2>2. /\ Len(events) \in Nat
        /\ \A i \in 1..Len(events') : i + k \in 1..Len(events) /\ events'[i] = events[i + k]
    BY <2>1, SuffixFacts DEF TypeInv, LeaderTypes
  <2>3. NoEvent(t)'
    BY <2>2 DEF NoEvent
  <2>4. \A j \in 1..k : events[j].task # t
    BY <2>1, <2>2 DEF NoEvent
  <2>5. b.tasks[t] = NoRecord /\ b.changes[t] = NoChange
    BY <2>1, <2>4 DEF BatchTask
  <2>6. \A i \in 1..Len(pipe') : pipe'[i].changes[t] = NoChange
    <3> DEFINE m == [complete |-> FALSE, changes |-> b.changes]
    <3>1. m \in Msg /\ pipe \in Seq(Msg) /\ m.changes = b.changes
      BY DEF Msg, ASet, TypeInv, LeaderTypes
    <3>2. pipe' = pipe \/ pipe' = Append(pipe, m)
      BY <2>1
    <3> HIDE DEF m
    <3>3. CASE pipe' = pipe
      BY <3>3
    <3>4. CASE pipe' = Append(pipe, m)
      <4>1. /\ Len(pipe) \in Nat /\ Len(pipe') = Len(pipe) + 1 /\ pipe'[Len(pipe) + 1] = m
            /\ \A i \in 1..Len(pipe) : pipe'[i] = pipe[i]
        BY <3>1, <3>4, AppendFacts
      <4> QED BY <2>5, <3>1, <4>1
    <3> QED BY <3>2, <3>3, <3>4
  <2> QED BY <2>1, <2>3, <2>5, <2>6
<1> QED BY <1>3, <1>4, <1>5, <1>6, <1>7, LeaderFrame

LEMMA FreshNodeStep ==
  ASSUME TypeInv, NodeInv, [Next]_vars, NEW t \in Tasks, FreshStream(t), FreshNode(t)
  PROVE  FreshNode(t)'
<1> SUFFICES ASSUME store'[t].state = Pending PROVE FreshNode(t)'
  BY DEF FreshNode
<1>1. store'[t] = store[t]
  BY PendingStays
<1>2. /\ db[t].state = None /\ Written[t].state = None
      /\ mgr[t] = NoMgr /\ rq[t] = None /\ sending.task # t
  BY <1>1 DEF FreshNode
<1>3. NoSend.task # t /\ NoRecord.state = None /\ NoRecord = NoMgr
  BY AssignmentsAssumption DEF NoSend, NoRecord, NoMgr
<1> USE <1>2, <1>3 DEF FreshNode
<1>4. CASE UNCHANGED <<up, db, tx, mgr, pending, rq, sending>>
  BY <1>4 DEF Written
<1>5. CASE ReceiveAssignments
  <2>1. /\ pipe[1].changes[t] = NoChange
    <3>1. Len(pipe) \in Nat /\ Len(pipe) >= 1
      BY <1>5, ReceiveEffect
    <3> QED BY <1>1, <3>1 DEF FreshStream
  <2>2. pipe[1].changes[t].action = "none"
    BY <2>1 DEF NoChange
  <2>3. ~Gone(t, pipe[1])
    BY <2>2 DEF Gone
  <2> QED BY <1>5, <2>2, <2>3, ReceiveEffect
<1>6. CASE Commit
  BY <1>6, CommitEffect
<1>7. CASE Crash
  <2>1. mgr'[t] = NoMgr /\ tx' = NoTx /\ db' = db /\ rq'[t] = None /\ sending' = NoSend
    BY <1>7 DEF Crash
  <2> QED BY <2>1, WrittenTx
<1>8. CASE Restart
  <2>1. ~up /\ tx' = tx /\ sending' = sending
    BY <1>8, RestartEffect
  <2>2. tx' = NoTx
    BY <2>1 DEF TypeInv, Alive
  <2>3. PICK bad \in SUBSET Tasks :
          /\ db' = [u \in Tasks |-> Restarted(u, bad)]
          /\ mgr' = [u \in Tasks |-> IF u \in bad THEN NoMgr ELSE db[u]]
          /\ rq' = [u \in Tasks |-> Restarted(u, bad).state]
    BY <1>8, RestartEffect
  <2>4. Restarted(t, bad) = NoRecord /\ db[t] = NoRecord
    BY RestartedEffect DEF NodeInv, Managed
  <2>5. db'[t] = NoRecord /\ mgr'[t] = NoMgr /\ rq'[t] = None
    BY <2>3, <2>4
  <2> QED BY <2>1, <2>2, <2>5, WrittenTx
<1>9. CASE Report
  BY <1>9, ReportEffect DEF NodeSame
<1>10. CASE SendFails \/ SendStatus
  BY <1>10, SendingEffect DEF NodeSame
<1>11. ASSUME NEW u \in Tasks, Operate(u) PROVE FreshNode(t)'
  BY <1>11, EndEffect
<1>12. ASSUME NEW u \in Tasks, ReportStatus(u) PROVE FreshNode(t)'
  BY <1>12, StatusEffect
<1>13. ASSUME NEW u \in Tasks, TakeStatus(u) PROVE FreshNode(t)'
  BY <1>13, TakeEffect DEF NodeSame
<1> QED BY <1>4, <1>5, <1>6, <1>7, <1>8, <1>9, <1>10, <1>11, <1>12, <1>13, AgentFrame

-----------------------------------------------------------------------------
(* From the assignment set to the node.                                     *)

(* A message that says what becomes of task t.                              *)
Mentions(m, t) == m.complete \/ m.changes[t].action # "none"

LastMention(t, i) ==
  Mentions(pipe[i], t) /\ \A j \in (i + 1)..Len(pipe) : ~Mentions(pipe[j], t)
Unmentioned(t) == \A i \in 1..Len(pipe) : ~Mentions(pipe[i], t)

(* A message, and the node, are as the set has the task.                    *)
Tells(c, task) ==
  IF task.state # None THEN c.action = "update" /\ c.task.desired = task.desired
  ELSE c.action # "update"

OnNode(t, task) ==
  IF task.state # None THEN Written[t].state # None /\ Written[t].desired = task.desired
  ELSE mgr[t] = NoMgr /\ (Written[t].state = None \/ used["rejects"] > 0)

(* The last message about a task tells what the set has; when none is left  *)
(* the node has it.                                                         *)
PipeFollows(t) ==
  stream =>
    /\ \A i \in 1..Len(pipe) :
         LastMention(t, i) => Tells(pipe[i].changes[t], aset.tasks[t])
    /\ Unmentioned(t) => OnNode(t, aset.tasks[t])

(* A task that the leader has is not taken from the node.                   *)
Wanted(t) ==
  stream /\ store[t].state # None =>
    \A i \in 1..Len(pipe) :
      /\ pipe[i].changes[t].action # "remove"
      /\ pipe[i].complete /\ mgr[t] # NoMgr => pipe[i].changes[t].action = "update"

CompleteFirst == \A i \in 1..Len(pipe) : pipe[i].complete => i = 1

LEMMA PipeInit == Init => CompleteFirst /\ \A t \in Tasks : PipeFollows(t) /\ Wanted(t)
BY DEF Init, CompleteFirst, PipeFollows, Wanted

(* What a batch adds to the pipe.                                           *)
LEMMA SendPipe ==
  ASSUME TypeInv, NEW b \in ASet,
         pipe' = IF b.changes = NoChanges THEN pipe
                 ELSE Append(pipe, [complete |-> FALSE, changes |-> b.changes])
  PROVE  /\ Len(pipe) \in Nat /\ \A i \in 1..Len(pipe) : pipe'[i] = pipe[i]
         /\ \/ pipe' = pipe /\ Len(pipe') = Len(pipe)
               /\ \A k \in Keys : b.changes[k] = NoChange
            \/ /\ Len(pipe') = Len(pipe) + 1
               /\ pipe'[Len(pipe) + 1].complete = FALSE
               /\ pipe'[Len(pipe) + 1].changes = b.changes
<1> DEFINE m == [complete |-> FALSE, changes |-> b.changes]
<1>1. m \in Msg /\ pipe \in Seq(Msg) /\ m.changes = b.changes /\ m.complete = FALSE
  BY DEF Msg, ASet, TypeInv, LeaderTypes
<1>2. b.changes # NoChanges => pipe' = Append(pipe, m)
  OBVIOUS
<1> HIDE DEF m
<1>3. CASE b.changes = NoChanges
  <2>1. \A k \in Keys : b.changes[k] = NoChange
    BY <1>3 DEF NoChanges, Keys
  <2> QED BY <1>1, <1>3, <2>1
<1>4. CASE b.changes # NoChanges
  BY <1>1, <1>2, <1>4, AppendFacts
<1> QED BY <1>3, <1>4

LEMMA CompleteFirstStep ==
  ASSUME TypeInv, NodeInv, [Next]_vars, \A t \in Tasks : EventsFollow(t), CompleteFirst
  PROVE  CompleteFirst'
<1>1. CASE pipe' = pipe
  BY <1>1 DEF CompleteFirst
<1>2. CASE ReceiveAssignments
  <2>1. /\ Len(pipe) \in Nat /\ Len(pipe') = Len(pipe) - 1
        /\ \A i \in 1..Len(pipe') : i + 1 \in 1..Len(pipe) /\ pipe'[i] = pipe[i + 1]
    <3>1. pipe \in Seq(Msg) /\ pipe # <<>> /\ pipe' = Tail(pipe)
      BY <1>2 DEF ReceiveAssignments, TypeInv, LeaderTypes
    <3> QED BY <3>1, PipeTail
  <2>2. \A i \in 1..Len(pipe') : i + 1 # 1
    BY <2>1
  <2> QED BY <2>1, <2>2 DEF CompleteFirst
<1>3. CASE SessionDrops
  BY <1>3 DEF SessionDrops, CompleteFirst
<1>4. CASE OpenAssignments
  <2>1. Len(pipe') = 1
    BY <1>4, OpenEffect
  <2> QED BY <2>1 DEF CompleteFirst
<1>5. CASE SendBatch
  <2>1. PICK b \in ASet : pipe' = IF b.changes = NoChanges THEN pipe
                            ELSE Append(pipe, [complete |-> FALSE, changes |-> b.changes])
    BY <1>5, SendEffect
  <2> QED BY <1>1, <2>1, SendPipe DEF CompleteFirst
<1>6. ASSUME NEW u \in Tasks, NEW new \in Record, LeaderWrites(u, new) PROVE pipe' = pipe
  BY <1>6, WriteEffect
<1> QED BY <1>1, <1>2, <1>3, <1>4, <1>5, <1>6, LeaderFrame

(* Without a message, as long as the stream goes on, the node keeps what it *)
(* has.                                                                     *)
LEMMA NodeKeeps ==
  ASSUME TypeInv, [Next]_vars, stream', ~ReceiveAssignments, NEW t \in Tasks
  PROVE  /\ mgr'[t] = NoMgr <=> mgr[t] = NoMgr
         /\ \A task : OnNode(t, task) => OnNode(t, task)'
<1>1. ~Crash /\ ~Restart
  <2>1. ~Crash
    BY DEF Crash, DropSession
  <2>2. ASSUME Restart PROVE FALSE
    <3>1. ~up /\ stream' = stream
      BY <2>2, RestartEffect DEF streamVars
    <3> QED BY <3>1 DEF TypeInv, Alive
  <2> QED BY <2>1, <2>2
<1>2. /\ Written'[t].state = None <=> Written[t].state = None
      /\ Written'[t].desired = Written[t].desired
      /\ mgr'[t] = NoMgr <=> mgr[t] = NoMgr
  BY <1>1, PresenceKept
<1>3. /\ used["rejects"] \in Nat /\ used'["rejects"] \in Nat
      /\ used'["rejects"] >= used["rejects"]
  BY BudgetStep
<1> QED BY <1>2, <1>3 DEF OnNode

LEMMA WantedStep ==
  ASSUME TypeInv, NodeInv, [Next]_vars, \A t \in Tasks : EventsFollow(t), CompleteFirst,
         NEW t \in Tasks, FreshNode(t), Wanted(t)
  PROVE  Wanted(t)'
<1> SUFFICES ASSUME stream', store'[t].state # None PROVE Wanted(t)'
  BY DEF Wanted
<1>1. CASE ReceiveAssignments
  <2>1. /\ stream /\ UNCHANGED <<store, stream>>
        /\ Len(pipe) \in Nat
        /\ \A i \in 1..Len(pipe') : i + 1 \in 1..Len(pipe) /\ pipe'[i] = pipe[i + 1]
    BY <1>1, ReceiveEffect
  <2>2. ASSUME NEW i \in 1..Len(pipe')
        PROVE  pipe'[i].changes[t].action # "remove" /\ ~pipe'[i].complete
    <3>1. i + 1 \in 1..Len(pipe) /\ pipe'[i] = pipe[i + 1] /\ i + 1 # 1
      BY <2>1
    <3> QED BY <2>1, <3>1 DEF Wanted, CompleteFirst
  <2> QED BY <2>2 DEF Wanted
<1>2. CASE ~ReceiveAssignments
  <2>0. mgr'[t] = NoMgr <=> mgr[t] = NoMgr
    BY <1>2, NodeKeeps
  <2>1. CASE UNCHANGED <<store, stream, events, aset>> /\ pipe' = pipe
    BY <2>0, <2>1 DEF Wanted
  <2>2. ASSUME NEW u \in Tasks, NEW new \in Record, LeaderWrites(u, new)
        PROVE  Wanted(t)'
    <3>1. /\ \A v \in Tasks : store'[v] = IF v = u THEN new ELSE store[v]
          /\ StoreMove(u, new) /\ stream' = stream /\ pipe' = pipe
      <4>1. LeaderWrites(u, new)
        BY <2>2
      <4>2. StoreMove(u, new) /\ stream' = stream /\ pipe' = pipe
        BY <4>1, WriteEffect
      <4>3. \A v \in Tasks : store'[v] = IF v = u THEN new ELSE store[v]
        BY <4>1, WriteStore
      <4> QED BY <4>2, <4>3
    <3>2. store[u].state # None
      BY <3>1, MoveEffect
    <3>3. store[t].state # None
      BY <3>1, <3>2
    <3> QED BY <2>0, <3>1, <3>3 DEF Wanted
  <2>3. ~SessionDrops
    BY DEF SessionDrops
  <2>4. CASE OpenAssignments
    <3>1. /\ Len(pipe') = 1 /\ store' = store
          /\ pipe'[1].changes[t] = IF store[t].state >= Assigned
                                   THEN Update(store[t]) ELSE NoChange
      BY <2>4, OpenEffect
    <3>2. store[t].state \in 0..4
      BY TaskTypes
    <3>3. store[t].state >= Assigned => pipe'[1].changes[t].action = "update"
      BY <3>1 DEF Update
    <3>4. ~(store[t].state >= Assigned) =>
            pipe'[1].changes[t].action = "none" /\ mgr[t] = NoMgr
      BY <3>1, <3>2 DEF NoChange, FreshNode, None, Pending, Assigned
    <3> QED BY <2>0, <3>1, <3>3, <3>4 DEF Wanted
  <2>5. CASE SendBatch
    <3>1. PICK k \in 1..Len(events), b \in ASet :
            /\ BatchTask(b, t, k)
            /\ pipe' = IF b.changes = NoChanges THEN pipe
                       ELSE Append(pipe, [complete |-> FALSE, changes |-> b.changes])
      BY <2>5, SendEffect
    <3>2. store' = store /\ stream
      BY <2>5, SendEffect
    <3>3. b.changes[t].action # "remove"
      BY <3>1, <3>2 DEF BatchTask
    <3>4. /\ Len(pipe) \in Nat /\ \A i \in 1..Len(pipe) : pipe'[i] = pipe[i]
          /\ \/ Len(pipe') = Len(pipe)
             \/ /\ Len(pipe') = Len(pipe) + 1
                /\ pipe'[Len(pipe) + 1].complete = FALSE
                /\ pipe'[Len(pipe) + 1].changes = b.changes
      BY <3>1, SendPipe
    <3> QED BY <2>0, <3>2, <3>3, <3>4 DEF Wanted
  <2> QED BY <1>2, <2>1, <2>2, <2>3, <2>4, <2>5, LeaderFrame
<1> QED BY <1>1, <1>2

LEMMA PipeStep ==
  ASSUME TypeInv, NodeInv, [Next]_vars, \A t \in Tasks : EventsFollow(t),
         NEW t \in Tasks, PipeFollows(t)
  PROVE  PipeFollows(t)'
<1> SUFFICES ASSUME stream' PROVE PipeFollows(t)'
  BY DEF PipeFollows
<1>1. CASE ReceiveAssignments
  <2>1. /\ stream /\ aset' = aset /\ up
        /\ Len(pipe) \in Nat /\ Len(pipe) >= 1 /\ Len(pipe') = Len(pipe) - 1
        /\ \A i \in 1..Len(pipe') : i + 1 \in 1..Len(pipe) /\ pipe'[i] = pipe[i + 1]
    BY <1>1, ReceiveEffect
  <2>2. \A j \in 2..Len(pipe) : j - 1 \in 1..Len(pipe') /\ pipe'[j - 1] = pipe[j]
    <3>1. \A j \in 2..Len(pipe) : j - 1 \in 1..Len(pipe') /\ (j - 1) + 1 = j
      BY <2>1
    <3> QED BY <2>1, <3>1
  <2>3. ASSUME NEW i \in 1..Len(pipe'), LastMention(t, i)'
        PROVE  Tells(pipe'[i].changes[t], aset'.tasks[t])
    <3>1. Mentions(pipe[i + 1], t)
      BY <2>1, <2>3 DEF LastMention
    <3>2. ASSUME NEW j \in ((i + 1) + 1)..Len(pipe) PROVE ~Mentions(pipe[j], t)
      <4>1. j \in 2..Len(pipe) /\ j - 1 \in (i + 1)..Len(pipe')
        BY <2>1
      <4> QED BY <2>2, <2>3, <4>1 DEF LastMention
    <3>3. LastMention(t, i + 1)
      BY <3>1, <3>2 DEF LastMention
    <3> QED BY <2>1, <3>3 DEF PipeFollows
  <2>4. ASSUME Unmentioned(t)' PROVE OnNode(t, aset.tasks[t])'
    <3>1. \A j \in 2..Len(pipe) : ~Mentions(pipe[j], t)
      BY <2>2, <2>4 DEF Unmentioned
    <3> DEFINE c == pipe[1].changes[t]
    <3>2. /\ Written[t] = db[t]
          /\ c.action = "update" => Written'[t].state # None /\ Written'[t].desired = c.task.desired
          /\ c.action # "update" =>
               /\ Gone(t, pipe[1]) => Written'[t] = NoRecord /\ mgr'[t] = NoMgr
               /\ ~Gone(t, pipe[1]) => Written'[t] = Written[t] /\ mgr'[t] = mgr[t]
          /\ c \in ChangeOf
      BY <1>1, ReceiveEffect
    <3>3. /\ used["rejects"] \in Nat /\ used'["rejects"] \in Nat
          /\ used'["rejects"] >= used["rejects"]
      BY BudgetStep
    <3>4. Managed(t) /\ NoRecord.state = None /\ c.action \in {"none", "update", "remove"}
      BY <3>2 DEF NodeInv, NoRecord, ChangeOf
    <3> HIDE DEF c
    <3>5. CASE Mentions(pipe[1], t)
      <4>1. LastMention(t, 1)
        BY <2>1, <3>1, <3>5 DEF LastMention
      <4>2. Tells(c, aset.tasks[t])
        BY <2>1, <4>1 DEF PipeFollows, c
      <4>3. CASE aset.tasks[t].state # None
        BY <2>1, <3>2, <4>2, <4>3 DEF Tells, OnNode
      <4>4. CASE aset.tasks[t].state = None
        <5>1. c.action # "update"
          BY <4>2, <4>4 DEF Tells
        <5>2. CASE Gone(t, pipe[1])
          BY <2>1, <3>2, <3>4, <4>4, <5>1, <5>2 DEF OnNode
        <5>3. CASE ~Gone(t, pipe[1])
          <6>1. mgr[t] = NoMgr
            BY <3>4, <3>5, <5>1, <5>3 DEF Gone, Mentions, c
          <6> QED BY <2>1, <3>2, <3>3, <3>4, <4>4, <5>1, <5>3, <6>1 DEF OnNode, Managed
        <5> QED BY <5>2, <5>3
      <4> QED BY <4>3, <4>4
    <3>6. CASE ~Mentions(pipe[1], t)
      <4>1. c.action = "none" /\ ~Gone(t, pipe[1])
        BY <3>6 DEF Mentions, Gone, c
      <4>2. Unmentioned(t)
        BY <2>1, <3>1, <3>6 DEF Unmentioned
      <4>3. OnNode(t, aset.tasks[t])
        BY <2>1, <4>2 DEF PipeFollows
      <4> QED BY <2>1, <3>2, <3>3, <4>1, <4>3 DEF OnNode
    <3> QED BY <3>5, <3>6
  <2> QED BY <2>1, <2>3, <2>4 DEF PipeFollows
<1>2. CASE ~ReceiveAssignments
  <2>0. \A task : OnNode(t, task) => OnNode(t, task)'
    BY <1>2, NodeKeeps
  <2>1. CASE stream' = stream /\ aset' = aset /\ pipe' = pipe
    BY <2>0, <2>1 DEF PipeFollows, LastMention, Unmentioned, Mentions
  <2>2. ASSUME NEW u \in Tasks, NEW new \in Record, LeaderWrites(u, new)
        PROVE  stream' = stream /\ aset' = aset /\ pipe' = pipe
    BY <2>2, WriteEffect
  <2>3. ~SessionDrops
    BY DEF SessionDrops
  <2>4. CASE OpenAssignments
    <3>1. /\ Len(pipe') = 1 /\ pipe'[1].complete /\ aset'.tasks[t] = Known(store[t])
          /\ pipe'[1].changes[t] = IF store[t].state >= Assigned
                                   THEN Update(store[t]) ELSE NoChange
      BY <2>4, OpenEffect
    <3>2. Mentions(pipe'[1], t)
      BY <3>1 DEF Mentions
    <3>3. ~Unmentioned(t)'
      BY <3>1, <3>2 DEF Unmentioned
    <3>4. Tells(pipe'[1].changes[t], aset'.tasks[t])
      BY <3>1 DEF Tells, Known, Update, NoChange, NoRecord, None, Assigned
    <3> QED BY <3>1, <3>3, <3>4 DEF PipeFollows
  <2>5. CASE SendBatch
    <3>1. PICK k \in 1..Len(events), b \in ASet :
            /\ BatchTask(b, t, k) /\ aset'.tasks = b.tasks
            /\ pipe' = IF b.changes = NoChanges THEN pipe
                       ELSE Append(pipe, [complete |-> FALSE, changes |-> b.changes])
      BY <2>5, SendEffect
    <3>2. stream
      BY <2>5, SendEffect
    <3>3. /\ Len(pipe) \in Nat /\ \A i \in 1..Len(pipe) : pipe'[i] = pipe[i]
          /\ \/ /\ pipe' = pipe /\ Len(pipe') = Len(pipe)
                /\ \A key \in Keys : b.changes[key] = NoChange
             \/ /\ Len(pipe') = Len(pipe) + 1
                /\ pipe'[Len(pipe) + 1].complete = FALSE
                /\ pipe'[Len(pipe) + 1].changes = b.changes
      BY <3>1, SendPipe
    <3>4. t \in Keys /\ NoChange.action = "none"
          /\ b.changes[t].action \in {"none", "update", "remove"}
      BY KeyTypes DEF NoChange, ASet, Changes, ChangeOf
    <3>5. CASE b.changes[t].action = "none"
      <4>1. /\ aset'.tasks[t].state = None <=> aset.tasks[t].state = None
            /\ aset'.tasks[t].desired = aset.tasks[t].desired
        BY <3>1, <3>5 DEF BatchTask
      <4>2. \A i \in 1..Len(pipe') : i > Len(pipe) => ~Mentions(pipe'[i], t)
        BY <3>3, <3>5 DEF Mentions
      <4>3. \A i \in 1..Len(pipe) : i \in 1..Len(pipe')
        BY <3>3
      <4>4. Unmentioned(t)' => Unmentioned(t)
        BY <3>3, <4>3 DEF Unmentioned
      <4>5. ASSUME NEW i \in 1..Len(pipe'), LastMention(t, i)'
            PROVE  LastMention(t, i) /\ i \in 1..Len(pipe)
        <5>1. i \in 1..Len(pipe)
          BY <3>3, <4>2, <4>5 DEF LastMention
        <5>2. Mentions(pipe[i], t)
          BY <3>3, <4>5, <5>1 DEF LastMention
        <5>3. ASSUME NEW j \in (i + 1)..Len(pipe) PROVE ~Mentions(pipe[j], t)
          <6>1. j \in (i + 1)..Len(pipe') /\ j \in 1..Len(pipe)
            BY <3>3, <5>1
          <6> QED BY <3>3, <4>5, <6>1 DEF LastMention
        <5> QED BY <5>1, <5>2, <5>3 DEF LastMention
      <4>6. ASSUME NEW i \in 1..Len(pipe'), LastMention(t, i)'
            PROVE  Tells(pipe'[i].changes[t], aset'.tasks[t])
        BY <3>2, <3>3, <4>1, <4>5, <4>6 DEF PipeFollows, Tells
      <4>7. ASSUME Unmentioned(t)' PROVE OnNode(t, aset.tasks[t])'
        <5>1. PICK task : task = aset'.tasks[t]
          OBVIOUS
        <5>2. OnNode(t, task)
          BY <3>2, <4>1, <4>4, <4>7, <5>1 DEF PipeFollows, OnNode
        <5>3. OnNode(t, task)'
          BY <2>0, <5>2
        <5> QED BY <5>1, <5>3 DEF OnNode
      <4> QED BY <4>6, <4>7 DEF PipeFollows
    <3>6. CASE b.changes[t].action # "none"
      <4>1. /\ Len(pipe') = Len(pipe) + 1 /\ Mentions(pipe'[Len(pipe) + 1], t)
            /\ pipe'[Len(pipe) + 1].changes = b.changes
        BY <3>3, <3>4, <3>6 DEF Mentions
      <4>2. ~Unmentioned(t)'
        BY <3>3, <4>1 DEF Unmentioned
      <4>3. ASSUME NEW i \in 1..Len(pipe'), LastMention(t, i)' PROVE i = Len(pipe) + 1
        <5>1. i < Len(pipe) + 1 => Len(pipe) + 1 \in (i + 1)..Len(pipe')
          BY <3>3, <4>1
        <5> QED BY <3>3, <4>1, <4>3, <5>1 DEF LastMention
      <4>4. Tells(b.changes[t], aset'.tasks[t])
        BY <3>1, <3>4, <3>6 DEF BatchTask, Tells
      <4> QED BY <4>1, <4>2, <4>3, <4>4 DEF PipeFollows
    <3> QED BY <3>5, <3>6
  <2> QED BY <1>2, <2>1, <2>2, <2>3, <2>4, <2>5, LeaderFrame
<1> QED BY <1>1, <1>2

-----------------------------------------------------------------------------
(* The leader's record of a task that it keeps.                             *)
LEMMA StoreForward ==
  ASSUME TypeInv, [Next]_vars, NEW t \in Tasks, store'[t].state # None
  PROVE  /\ store[t].state # None /\ store'[t].state \in 0..4
         /\ store'[t].state >= store[t].state
         /\ \/ store'[t].state = store[t].state
            \/ store'[t].state = Assigned
            \/ /\ sending # NoSend /\ sending.task = t
               /\ store'[t].state = sending.state
<1>1. store \in [Tasks -> Record] /\ store[t].state \in 0..4 /\ NoRecord.state = None
  BY TaskTypes DEF TypeInv, LeaderTypes, NoRecord
<1> DEFINE P == /\ store[t].state # None /\ store'[t].state \in 0..4
                /\ store'[t].state >= store[t].state
                /\ \/ store'[t].state = store[t].state
                   \/ store'[t].state = Assigned
                   \/ /\ sending # NoSend /\ sending.task = t
                      /\ store'[t].state = sending.state
<1>2. CASE store'[t] = store[t]
  BY <1>1, <1>2
<1>3. ASSUME NEW u \in Tasks, NEW new \in Record, StoreMove(u, new),
             store' = [store EXCEPT ![u] = new]
      PROVE  P
  <2>1. CASE u # t
    BY <1>1, <1>2, <1>3, <2>1
  <2>2. CASE u = t
    <3>1. store'[t] = new
      BY <1>1, <1>3, <2>2
    <3>2. /\ store[t].state # None /\ new.state \in 0..4
          /\ new.state >= store[t].state \/ new = NoRecord
          /\ Assigns(t, new) => new.state = Assigned
          /\ Shuts(t, new) => new.state = store[t].state
          /\ Deletes(t, new) => new.state = None
          /\ Progresses(t, new) => new.state = sending.state
      BY <1>3, <2>2, MoveEffect
    <3>3. Progresses(t, new) => sending # NoSend /\ sending.task = t
      BY DEF Progresses
    <3> QED BY <1>1, <1>3, <2>2, <3>1, <3>2, <3>3 DEF StoreMove, Ordered
  <2> QED BY <2>1, <2>2
<1> HIDE DEF P
<1>4. P
  <2>1. OpenAssignments \/ SendBatch => store' = store
    BY DEF OpenAssignments, SendBatch
  <2>2. (\E u \in Tasks : \E new \in Record : LeaderWrites(u, new)) => P
    BY <1>3 DEF LeaderWrites, StoreMove
  <2>3. SessionDrops => store' = store \/ P
    BY <1>3 DEF SessionDrops, StoreMove
  <2>4. store' = store => P
    BY <1>2 DEF P
  <2> QED BY <2>1, <2>2, <2>3, <2>4, LeaderFrame
<1> QED BY <1>4 DEF P

-----------------------------------------------------------------------------
(* A task that is taken from the node does not come back.                   *)

(* Nothing after message i speaks of task t.                                *)
Over(t, i) ==
  /\ store[t].state = None /\ NoEvent(t)
  /\ \A j \in (i + 1)..Len(pipe) : pipe[j].changes[t].action # "update"

Removed(t) ==
  stream => \A i \in 1..Len(pipe) : Gone(t, pipe[i]) => Over(t, i)

(* A status that is left of a manager that is gone will be ignored.         *)
Stale(t) ==
  mgr[t] = NoMgr /\ pending[t] # None =>
    /\ up /\ Written[t].state = None /\ store[t].state = None
    /\ stream => /\ NoEvent(t)
                 /\ \A i \in 1..Len(pipe) : pipe[i].changes[t].action # "update"

LEMMA RemovedInit == Init => \A t \in Tasks : Removed(t) /\ Stale(t)
BY DEF Init, Removed, Stale

(* A write of another task is not about this one.                           *)
LEMMA WriteQuiet ==
  ASSUME TypeInv, NEW u \in Tasks, NEW new \in Record, LeaderWrites(u, new),
         NEW t \in Tasks, store[t].state = None, stream => NoEvent(t)
  PROVE  store'[t].state = None /\ (stream' => stream /\ NoEvent(t)')
<1>1. StoreMove(u, new)
  BY WriteEffect
<1>2. u # t
  BY <1>1, MoveEffect
<1>3. store'[t].state = None /\ stream' = stream
  <2>1. \A v \in Tasks : store'[v] = IF v = u THEN new ELSE store[v]
    BY WriteStore
  <2>2. stream' = stream
    BY DEF LeaderWrites
  <2> QED BY <1>2, <2>1, <2>2
<1>4. ASSUME stream PROVE NoEvent(t)'
  <2>1. /\ Len(events) \in Nat /\ Len(events') = Len(events) + 1
        /\ events'[Len(events) + 1] = [task |-> u, new |-> new]
        /\ \A i \in 1..Len(events) : events'[i] = events[i]
    BY <1>4, WriteEffect
  <2> QED BY <1>2, <1>4, <2>1 DEF NoEvent
<1> QED BY <1>3, <1>4

(* A batch without an event of a task says nothing of it.                   *)
LEMMA SendQuiet ==
  ASSUME TypeInv, \A u \in Tasks : EventsFollow(u), SendBatch, NEW t \in Tasks, NoEvent(t)
  PROVE  /\ NoEvent(t)'
         /\ \A i \in 1..Len(pipe') :
              \/ i \in 1..Len(pipe) /\ pipe'[i] = pipe[i]
              \/ pipe'[i].changes[t] = NoChange
<1>1. PICK k \in 1..Len(events), b \in ASet :
        /\ BatchTask(b, t, k)
        /\ events' = SubSeq(events, k + 1, Len(events))
        /\ pipe' = IF b.changes = NoChanges THEN pipe
                   ELSE Append(pipe, [complete |-> FALSE, changes |-> b.changes])
  BY SendEffect
<1>2. /\ Len(events) \in Nat
      /\ \A i \in 1..Len(events') : i + k \in 1..Len(events) /\ events'[i] = events[i + k]
  BY <1>1, SuffixFacts DEF TypeInv, LeaderTypes
<1>3. NoEvent(t)'
  BY <1>2 DEF NoEvent
<1>4. \A j \in 1..k : events[j].task # t
  BY <1>1, <1>2 DEF NoEvent
<1>5. b.changes[t] = NoChange
  BY <1>1, <1>4 DEF BatchTask
<1>6. /\ Len(pipe) \in Nat /\ \A i \in 1..Len(pipe) : pipe'[i] = pipe[i]
      /\ \/ Len(pipe') = Len(pipe)
         \/ Len(pipe') = Len(pipe) + 1 /\ pipe'[Len(pipe) + 1].changes = b.changes
  BY <1>1, SendPipe
<1> QED BY <1>3, <1>5, <1>6

LEMMA RemovedStep ==
  ASSUME TypeInv, NodeInv, [Next]_vars, \A u \in Tasks : EventsFollow(u), CompleteFirst,
         NEW t \in Tasks, FreshNode(t), Removed(t)
  PROVE  Removed(t)'
<1> SUFFICES ASSUME stream', NEW i \in 1..Len(pipe'), Gone(t, pipe[i])' PROVE Over(t, i)'
  BY DEF Removed
<1>1. CASE ReceiveAssignments
  <2>1. /\ stream /\ UNCHANGED <<store, events>> /\ Len(pipe) \in Nat
        /\ Len(pipe') = Len(pipe) - 1
        /\ \A j \in 1..Len(pipe') : j + 1 \in 1..Len(pipe) /\ pipe'[j] = pipe[j + 1]
    BY <1>1, ReceiveEffect
  <2>2. i + 1 \in 1..Len(pipe) /\ pipe'[i] = pipe[i + 1] /\ i + 1 # 1
    BY <2>1
  <2>3. ~pipe[i + 1].complete
    BY <2>2 DEF CompleteFirst
  <2>4. Gone(t, pipe[i + 1])
    BY <2>2, <2>3 DEF Gone
  <2>5. Over(t, i + 1)
    BY <2>1, <2>2, <2>4 DEF Removed
  <2>6. ASSUME NEW j \in (i + 1)..Len(pipe')
        PROVE  j + 1 \in ((i + 1) + 1)..Len(pipe) /\ pipe'[j] = pipe[j + 1]
    <3>1. j \in 1..Len(pipe')
      BY <2>1
    <3> QED BY <2>1, <3>1
  <2>7. \A j \in (i + 1)..Len(pipe') : pipe'[j].changes[t].action # "update"
    BY <2>5, <2>6 DEF Over
  <2>8. store'[t].state = None /\ NoEvent(t)'
    BY <2>1, <2>5 DEF Over, NoEvent
  <2> QED BY <2>7, <2>8 DEF Over
<1>2. CASE ~ReceiveAssignments
  <2>0. mgr'[t] = NoMgr <=> mgr[t] = NoMgr
    BY <1>2, NodeKeeps
  <2>1. ASSUME stream, i \in 1..Len(pipe), pipe'[i] = pipe[i] PROVE Over(t, i)
    <3>1. Gone(t, pipe[i])
      BY <2>0, <2>1 DEF Gone
    <3> QED BY <2>1, <3>1 DEF Removed
  <2>2. CASE UNCHANGED <<store, stream, events, aset>> /\ pipe' = pipe
    BY <2>1, <2>2 DEF Over, NoEvent
  <2>3. ASSUME NEW u \in Tasks, NEW new \in Record, LeaderWrites(u, new)
        PROVE  Over(t, i)'
    <3>1. stream' = stream /\ pipe' = pipe
      BY <2>3, WriteEffect
    <3>2. Over(t, i)
      BY <2>1, <3>1
    <3>3. store'[t].state = None /\ NoEvent(t)'
      BY <2>3, <3>1, <3>2, WriteQuiet DEF Over
    <3> QED BY <3>1, <3>2, <3>3 DEF Over
  <2>4. ~SessionDrops
    BY DEF SessionDrops
  <2>5. CASE OpenAssignments
    <3>1. /\ Len(pipe') = 1 /\ Len(events') = 0 /\ pipe'[1].complete /\ store' = store
          /\ pipe'[1].changes[t] = IF store[t].state >= Assigned
                                   THEN Update(store[t]) ELSE NoChange
      BY <2>5, OpenEffect
    <3>2. i = 1 /\ mgr[t] # NoMgr /\ pipe'[1].changes[t].action # "update"
      BY <2>0, <3>1 DEF Gone
    <3>3. ~(store[t].state >= Assigned) /\ store[t].state \in 0..4
      BY <3>1, <3>2, TaskTypes DEF Update
    <3>4. store[t].state = None
      BY <3>2, <3>3 DEF FreshNode, None, Pending, Assigned
    <3> QED BY <3>1, <3>2, <3>4 DEF Over, NoEvent
  <2>6. CASE SendBatch
    <3>1. PICK k \in 1..Len(events), b \in ASet :
            /\ BatchTask(b, t, k)
            /\ events' = SubSeq(events, k + 1, Len(events))
            /\ pipe' = IF b.changes = NoChanges THEN pipe
                       ELSE Append(pipe, [complete |-> FALSE, changes |-> b.changes])
      BY <2>6, SendEffect
    <3>2. store' = store /\ stream
      BY <2>6, SendEffect
    <3>3. /\ Len(pipe) \in Nat /\ \A j \in 1..Len(pipe) : pipe'[j] = pipe[j]
          /\ \/ Len(pipe') = Len(pipe)
             \/ /\ Len(pipe') = Len(pipe) + 1
                /\ pipe'[Len(pipe) + 1].complete = FALSE
                /\ pipe'[Len(pipe) + 1].changes = b.changes
      BY <3>1, SendPipe
    <3>4. CASE i \in 1..Len(pipe)
      <4>1. Over(t, i)
        BY <2>1, <3>2, <3>3, <3>4
      <4>2. /\ NoEvent(t)'
            /\ \A j \in 1..Len(pipe') :
                 \/ j \in 1..Len(pipe) /\ pipe'[j] = pipe[j]
                 \/ pipe'[j].changes[t] = NoChange
        BY <2>6, <4>1, SendQuiet DEF Over
      <4>3. ASSUME NEW j \in (i + 1)..Len(pipe') PROVE pipe'[j].changes[t].action # "update"
        <5>1. j \in 1..Len(pipe') /\ (j \in 1..Len(pipe) => j \in (i + 1)..Len(pipe))
          BY <3>3, <3>4
        <5>2. NoChange.action # "update"
          BY DEF NoChange
        <5> QED BY <4>1, <4>2, <5>1, <5>2 DEF Over
      <4> QED BY <3>2, <4>1, <4>2, <4>3 DEF Over
    <3>5. CASE ~(i \in 1..Len(pipe))
      <4>1. /\ i = Len(pipe) + 1 /\ Len(pipe') = i
            /\ pipe'[i].complete = FALSE /\ pipe'[i].changes = b.changes
        BY <3>3, <3>5
      <4>2. b.changes[t].action = "remove"
        BY <4>1 DEF Gone
      <4>3. /\ store[t].state = None
            /\ \A j \in (k + 1)..Len(events) : events[j].task # t
        BY <3>1, <4>2 DEF BatchTask
      <4>4. /\ Len(events) \in Nat /\ Len(events') = Len(events) - k
            /\ \A j \in 1..Len(events') : j + k \in 1..Len(events) /\ events'[j] = events[j + k]
        BY <3>1, SuffixFacts DEF TypeInv, LeaderTypes
      <4>5. \A j \in 1..Len(events') : j + k \in (k + 1)..Len(events)
        BY <3>1, <4>4
      <4>6. NoEvent(t)'
        BY <4>3, <4>4, <4>5 DEF NoEvent
      <4>7. (i + 1)..Len(pipe') = {}
        BY <3>3, <4>1
      <4> QED BY <3>2, <4>3, <4>6, <4>7 DEF Over
    <3> QED BY <3>4, <3>5
  <2> QED BY <1>2, <2>2, <2>3, <2>4, <2>5, <2>6, LeaderFrame
<1> QED BY <1>1, <1>2

(* What becomes of the status a manager has yet to report.                  *)
LEMMA PendingFrame ==
  ASSUME TypeInv, [Next]_vars, ~Crash, ~Restart, NEW t \in Tasks
  PROVE  /\ up' = up
         /\ pending'[t] = pending[t] \/ Operate(t) \/ pending'[t] = None
<1>1. CASE UNCHANGED <<up, db, tx, mgr, pending, rq, sending>>
  BY <1>1
<1>2. CASE ReceiveAssignments
  BY <1>2 DEF ReceiveAssignments, Reconcile
<1>3. CASE Commit
  BY <1>3, CommitEffect
<1>4. CASE Report
  BY <1>4, ReportEffect DEF NodeSame
<1>5. CASE SendFails \/ SendStatus
  BY <1>5, SendingEffect DEF NodeSame
<1>6. ASSUME NEW u \in Tasks, Operate(u)
      PROVE  up' = up /\ (pending'[t] = pending[t] \/ Operate(t))
  BY <1>6, EndEffect
<1>7. ASSUME NEW u \in Tasks, ReportStatus(u)
      PROVE  up' = up /\ (pending'[t] = pending[t] \/ pending'[t] = None)
  BY <1>7, StatusEffect
<1>8. ASSUME NEW u \in Tasks, TakeStatus(u) PROVE up' = up /\ pending'[t] = pending[t]
  BY <1>8, TakeEffect DEF NodeSame
<1> QED BY <1>1, <1>2, <1>3, <1>4, <1>5, <1>6, <1>7, <1>8, AgentFrame

LEMMA StaleStep ==
  ASSUME TypeInv, NodeInv, [Next]_vars, \A u \in Tasks : EventsFollow(u),
         NEW t \in Tasks, Removed(t), Stale(t)
  PROVE  Stale(t)'
<1> SUFFICES ASSUME mgr'[t] = NoMgr, pending'[t] # None PROVE Stale(t)'
  BY DEF Stale
<1>0. ~Crash /\ ~Restart
  <2>1. ~Crash
    BY DEF Crash
  <2>2. ASSUME Restart PROVE FALSE
    <3>1. ~up /\ pending' = pending
      BY <2>2, RestartEffect
    <3>2. mgr[t] = NoMgr
      BY <3>1 DEF TypeInv, Alive
    <3> QED BY <3>1, <3>2 DEF Stale
  <2> QED BY <2>1, <2>2
<1>1. CASE ReceiveAssignments
  <2>1. /\ up /\ stream /\ UNCHANGED <<store, stream, events, up, pending>>
        /\ Len(pipe) \in Nat /\ Len(pipe) >= 1 /\ Len(pipe') = Len(pipe) - 1
        /\ \A i \in 1..Len(pipe') : i + 1 \in 1..Len(pipe) /\ pipe'[i] = pipe[i + 1]
    BY <1>1, ReceiveEffect
  <2>2. pipe[1].changes[t].action # "update"
    <3>1. ASSUME pipe[1].changes[t].action = "update" PROVE FALSE
      <4>1. mgr[t] = NoMgr
        BY <1>1, <3>1, ReceiveEffect
      <4>2. 1 \in 1..Len(pipe)
        BY <2>1
      <4> QED BY <2>1, <3>1, <4>1, <4>2 DEF Stale
    <3> QED BY <3>1
  <2>3. /\ Written'[t].state = None /\ store[t].state = None /\ NoEvent(t)
        /\ \A j \in 2..Len(pipe) : pipe[j].changes[t].action # "update"
    <3>1. CASE Gone(t, pipe[1])
      <4>1. Over(t, 1)
        BY <2>1, <3>1 DEF Removed
      <4>2. Written'[t].state = None
        BY <1>1, <2>2, <3>1, ReceiveEffect DEF NoRecord
      <4> QED BY <4>1, <4>2 DEF Over
    <3>2. CASE ~Gone(t, pipe[1])
      <4>1. Written'[t] = Written[t] /\ mgr'[t] = mgr[t]
        BY <1>1, <2>2, <3>2, ReceiveEffect
      <4>2. \A j \in 2..Len(pipe) : j \in 1..Len(pipe)
        BY <2>1
      <4> QED BY <2>1, <4>1, <4>2 DEF Stale
    <3> QED BY <3>1, <3>2
  <2>4. ASSUME NEW i \in 1..Len(pipe') PROVE pipe'[i].changes[t].action # "update"
    <3>1. i + 1 \in 2..Len(pipe) /\ pipe'[i] = pipe[i + 1]
      BY <2>1
    <3> QED BY <2>3, <3>1
  <2>5. NoEvent(t)'
    BY <2>1, <2>3 DEF NoEvent
  <2> QED BY <2>1, <2>3, <2>4, <2>5 DEF Stale
<1>2. CASE ~ReceiveAssignments
  <2>1. mgr[t] = NoMgr /\ (Written'[t].state = None <=> Written[t].state = None)
    BY <1>0, <1>2, PresenceKept
  <2>2. up' = up /\ pending[t] # None
    <3>1. ~Operate(t)
      BY <2>1 DEF Operate
    <3> QED BY <1>0, <3>1, PendingFrame
  <2>3. /\ up /\ Written[t].state = None /\ store[t].state = None
        /\ stream => /\ NoEvent(t)
                     /\ \A i \in 1..Len(pipe) : pipe[i].changes[t].action # "update"
    BY <2>1, <2>2 DEF Stale
  <2>4. store'[t].state = None
    BY <2>3, StoreForward
  <2>5. ASSUME stream'
        PROVE  NoEvent(t)' /\ \A i \in 1..Len(pipe') : pipe'[i].changes[t].action # "update"
    <3>1. CASE UNCHANGED <<store, stream, events, aset>> /\ pipe' = pipe
      BY <2>3, <2>5, <3>1 DEF NoEvent
    <3>2. ASSUME NEW u \in Tasks, NEW new \in Record, LeaderWrites(u, new)
          PROVE  NoEvent(t)' /\ \A i \in 1..Len(pipe') : pipe'[i].changes[t].action # "update"
      <4>1. stream' = stream /\ pipe' = pipe
        BY <3>2, WriteEffect
      <4>2. NoEvent(t)'
        BY <2>3, <2>5, <3>2, WriteQuiet
      <4> QED BY <2>3, <2>5, <4>1, <4>2
    <3>3. ~SessionDrops
      BY <2>5 DEF SessionDrops
    <3>4. CASE OpenAssignments
      <4>1. /\ Len(pipe') = 1 /\ Len(events') = 0
            /\ pipe'[1].changes[t] = IF store[t].state >= Assigned
                                     THEN Update(store[t]) ELSE NoChange
        BY <3>4, OpenEffect
      <4>2. pipe'[1].changes[t].action # "update"
        BY <2>3, <4>1 DEF NoChange, None, Assigned
      <4> QED BY <4>1, <4>2 DEF NoEvent
    <3>5. CASE SendBatch
      <4>1. stream /\ NoChange.action # "update"
        BY <3>5, SendEffect DEF NoChange
      <4> QED BY <2>3, <3>5, <4>1, SendQuiet
    <3> QED BY <1>2, <3>1, <3>2, <3>3, <3>4, <3>5, LeaderFrame
  <2> QED BY <2>1, <2>2, <2>3, <2>4, <2>5 DEF Stale
<1> QED BY <1>1, <1>2

-----------------------------------------------------------------------------
(* The managers and what is written of their tasks.  exec.Resolve has had   *)
(* ACCEPTED written for a manager that starts at ASSIGNED.                  *)

Same(x, y) == x = y \/ (x = Active /\ y = Assigned)
NotPast(x, y) == x <= y \/ (x = Active /\ y = Assigned)

Working(t) ==
  /\ up /\ mgr[t] = NoMgr /\ Written[t].state # None => Written[t].state = Final
  /\ mgr[t] # NoMgr =>
       /\ pending[t] \in {None, mgr[t].state}
       /\ NotPast(Written[t].state, mgr[t].state)
       /\ pending[t] = None => Same(Written[t].state, mgr[t].state)

(* A transaction takes no task back, but one that starts.                   *)
TxForward(t) ==
  tx # NoTx =>
    \/ tx[t].state >= db[t].state \/ tx[t].state = None
    \/ db[t].state = Active /\ tx[t].state = Assigned /\ Starting(t)

LEMMA SameEffect ==
  ASSUME NEW x \in 0..4, NEW y \in 0..4, NEW z \in 0..4
  PROVE  /\ Same(x, y) => NotPast(x, y) /\ x >= y
         /\ NotPast(x, y) /\ NotPast(y, z) => NotPast(x, z)
BY DEF Same, NotPast, Assigned, Active

LEMMA WorkingInit == Init => \A t \in Tasks : Working(t) /\ TxForward(t)
<1> SUFFICES ASSUME Init, NEW t \in Tasks PROVE Working(t) /\ TxForward(t)
  OBVIOUS
<1>1. db[t].state = None /\ tx = NoTx /\ mgr[t] = NoMgr
  BY DEF Init, NoRecord
<1>2. Written[t] = db[t]
  BY <1>1, WrittenTx
<1> QED BY <1>1, <1>2 DEF Working, TxForward

(* The status that a manager reports is that of its task.                   *)
LEMMA StatusOfTask ==
  ASSUME TypeInv, NodeInv, NEW t \in Tasks, ReportStatus(t), Stale(t), Working(t),
         db[t].state # None
  PROVE  /\ mgr[t] # NoMgr /\ pending[t] = mgr[t].state
         /\ NotPast(Written[t].state, pending[t])
<1>1. Written[t] = db[t] /\ pending[t] \in {Assigned, Active, Final}
  BY StatusEffect
<1>2. pending[t] # None
  BY <1>1 DEF None, Assigned, Active, Final
<1>3. mgr[t] # NoMgr
  BY <1>1, <1>2 DEF Stale
<1> QED BY <1>2, <1>3 DEF Working

LEMMA WorkingStep ==
  ASSUME TypeInv, NodeInv, [Next]_vars, NEW t \in Tasks, Stale(t), Working(t)
  PROVE  Working(t)'
<1>0. /\ Managed(t) /\ Written[t].state \in 0..4 /\ mgr[t].state \in 0..4
      /\ NoRecord.state = None
  BY TaskTypes DEF NodeInv, NoRecord
<1>s. \A x : Same(x, x) /\ \A y \in 0..4 : Same(x, y) /\ x \in 0..4 => NotPast(x, y)
  BY SameEffect DEF Same
<1>t. Written'[t].state \in 0..4 /\ mgr'[t].state \in 0..4
  <2>1. TypeInv'
    BY TypeStep
  <2>2. Written'[t] \in Record /\ mgr'[t] \in Record
    BY <2>1 DEF TypeInv, WorkerTypes, Written
  <2> QED BY <2>2 DEF Record, None, Final
<1>1. ASSUME up' = up, Written'[t].state = Written[t].state,
             mgr'[t] = NoMgr <=> mgr[t] = NoMgr, mgr'[t].state = mgr[t].state,
             pending'[t] = pending[t]
      PROVE  Working(t)'
  BY <1>1 DEF Working
<1>2. CASE UNCHANGED <<up, db, tx, mgr, pending, rq, sending>>
  <2>1. Written' = Written
    BY <1>2 DEF Written
  <2> QED BY <1>1, <1>2, <2>1
<1>3. CASE ReceiveAssignments
  <2>1. /\ up /\ stream /\ up' = up /\ pending' = pending /\ Len(pipe) \in Nat
        /\ Len(pipe) >= 1
    BY <1>3, ReceiveEffect
  <2>2. CASE pipe[1].changes[t].action = "update" /\ mgr[t] = NoMgr
    <3>1. 1 \in 1..Len(pipe)
      BY <2>1
    <3>2. pending'[t] = None
      BY <2>1, <2>2, <3>1 DEF Stale
    <3>3. /\ mgr'[t] = NoMgr => Written'[t].state = Final
          /\ mgr'[t] # NoMgr => \/ Written'[t].state = mgr'[t].state
                                \/ Written'[t].state = Active /\ mgr'[t].state = Assigned
      BY <1>3, <2>2, ReceiveEffect
    <3>4. Written'[t].state \in 0..4 /\ mgr'[t].state \in 0..4
      BY <1>t
    <3> QED BY <1>s, <3>2, <3>3, <3>4 DEF Working, Same, NotPast
  <2>3. CASE pipe[1].changes[t].action = "update" /\ mgr[t] # NoMgr
    <3>1. /\ Written'[t].state = Written[t].state
          /\ mgr'[t] # NoMgr /\ mgr'[t].state = mgr[t].state
      BY <1>3, <2>3, ReceiveEffect
    <3> QED BY <1>1, <2>1, <2>3, <3>1
  <2>4. CASE pipe[1].changes[t].action # "update" /\ Gone(t, pipe[1])
    <3>1. Written'[t] = NoRecord /\ mgr'[t] = NoMgr
      BY <1>3, <2>4, ReceiveEffect
    <3> QED BY <1>0, <3>1 DEF Working
  <2>5. CASE pipe[1].changes[t].action # "update" /\ ~Gone(t, pipe[1])
    <3>1. Written'[t] = Written[t] /\ mgr'[t] = mgr[t]
      BY <1>3, <2>5, ReceiveEffect
    <3> QED BY <1>1, <2>1, <3>1
  <2> QED BY <2>2, <2>3, <2>4, <2>5
<1>4. CASE Commit
  BY <1>1, <1>4, CommitEffect
<1>5. CASE Crash
  <2>1. up' = FALSE /\ mgr'[t] = NoMgr
    BY <1>5 DEF Crash
  <2> QED BY <2>1 DEF Working
<1>6. CASE Restart
  <2>1. ~up /\ tx' = tx /\ pending' = pending
    BY <1>6, RestartEffect
  <2>2. tx' = NoTx /\ mgr[t] = NoMgr
    BY <2>1 DEF TypeInv, Alive
  <2>3. pending'[t] = None
    BY <2>1, <2>2 DEF Stale
  <2>4. PICK bad \in SUBSET Tasks :
          /\ db' = [u \in Tasks |-> Restarted(u, bad)]
          /\ mgr' = [u \in Tasks |-> IF u \in bad THEN NoMgr ELSE db[u]]
          /\ \A u \in bad : db[u].state # None
    BY <1>6, RestartEffect
  <2>5. /\ Written'[t] = Restarted(t, bad)
        /\ mgr'[t] = IF t \in bad THEN NoMgr ELSE db[t]
    BY <2>2, <2>4, WrittenTx
  <2>6. CASE t \in bad
    BY <2>4, <2>5, <2>6, RestartedEffect DEF Working
  <2>7. CASE t \notin bad /\ db[t].state = None
    <3>1. mgr'[t] = NoMgr /\ Written'[t] = NoRecord
      BY <1>0, <2>5, <2>7, RestartedEffect DEF Managed, NoMgr
    <3> QED BY <1>0, <3>1 DEF Working
  <2>8. CASE t \notin bad /\ db[t].state # None
    <3>1. db[t] \in Record /\ db[t].state \in {Assigned, Active, Final}
      BY <1>0, <2>8, TaskTypes DEF Managed
    <3>2. Restarted(t, bad).state = Resolved(db[t].state, TRUE)
      BY <2>8, <3>1 DEF Restarted, Record
    <3>3. Same(Written'[t].state, db[t].state) /\ NotPast(Written'[t].state, db[t].state)
      BY <2>5, <3>1, <3>2 DEF Resolved, Greater, Same, NotPast, Assigned, Active, Final
    <3>4. mgr'[t] = db[t] /\ mgr'[t] # NoMgr
      BY <2>5, <2>8 DEF NoMgr, NoRecord
    <3> QED BY <2>3, <3>3, <3>4 DEF Working
  <2> QED BY <2>6, <2>7, <2>8
<1>7. CASE Report
  BY <1>1, <1>7, ReportEffect DEF NodeSame
<1>8. CASE SendFails \/ SendStatus
  BY <1>1, <1>8, SendingEffect DEF NodeSame
<1>9. ASSUME NEW u \in Tasks, TakeStatus(u) PROVE Working(t)'
  BY <1>1, <1>9, TakeEffect DEF NodeSame
<1>10. ASSUME NEW u \in Tasks, Operate(u) PROVE Working(t)'
  <2>1. CASE t # u
    BY <1>1, <1>10, <2>1, EndEffect
  <2>2. CASE t = u
    <3>1. /\ Written' = Written /\ mgr[t] # NoMgr /\ mgr'[t] # NoMgr
          /\ pending[t] = None /\ pending'[t] = mgr'[t].state
          /\ mgr'[t].state \in {Assigned, Active, Final}
          /\ mgr[t].state = Assigned \/ mgr'[t].state = Final
      BY <1>10, <2>2, EndEffect
    <3>2. Same(Written[t].state, mgr[t].state)
      BY <3>1 DEF Working
    <3>3. NotPast(Written'[t].state, mgr'[t].state)
      BY <1>0, <3>1, <3>2 DEF Same, NotPast, Assigned, Active, Final
    <3>4. pending'[t] # None
      BY <3>1 DEF None, Assigned, Active, Final
    <3> QED BY <3>1, <3>3, <3>4 DEF Working
  <2> QED BY <2>1, <2>2
<1>11. ASSUME NEW u \in Tasks, ReportStatus(u) PROVE Working(t)'
  <2>1. CASE t # u
    BY <1>1, <1>11, <2>1, StatusEffect
  <2>2. CASE t = u
    <3>1. pending'[t] = None /\ mgr' = mgr /\ up' = up /\ Written[t] = db[t]
      BY <1>11, <2>2, StatusEffect
    <3>2. CASE db[t].state # None
      <4>1. mgr[t] # NoMgr /\ pending[t] = mgr[t].state
        BY <1>11, <2>2, <3>2, StatusOfTask
      <4>2. Written'[t].state = mgr'[t].state
        BY <1>11, <2>2, <3>1, <3>2, <4>1, StatusEffect
      <4> QED BY <1>0, <3>1, <4>1, <4>2 DEF Working, Same, NotPast
    <3>3. CASE db[t].state = None
      <4>1. Written'[t] = Written[t]
        BY <1>11, <2>2, <3>3, StatusEffect
      <4>2. mgr[t] = NoMgr
        BY <1>0, <3>1, <3>3 DEF Managed
      <4> QED BY <3>1, <3>3, <4>1, <4>2 DEF Working
    <3> QED BY <3>2, <3>3
  <2> QED BY <2>1, <2>2
<1> QED BY <1>2, <1>3, <1>4, <1>5, <1>6, <1>7, <1>8, <1>9, <1>10, <1>11, AgentFrame

LEMMA TxForwardStep ==
  ASSUME TypeInv, NodeInv, [Next]_vars, NEW t \in Tasks, Stale(t), Working(t), TxForward(t)
  PROVE  TxForward(t)'
<1> SUFFICES ASSUME tx' # NoTx PROVE TxForward(t)'
  BY DEF TxForward
<1>1. Written'[t] = tx'[t] /\ db[t].state \in 0..4 /\ Written[t].state \in 0..4
  BY TaskTypes DEF Written
<1>2. ASSUME UNCHANGED <<db, tx>>, Starting(t) => Starting(t)' PROVE TxForward(t)'
  BY <1>2 DEF TxForward
<1>3. ASSUME db' = db, Written[t] = db[t],
             Written'[t].state >= Written[t].state \/ Written'[t].state = None
      PROVE  TxForward(t)'
  BY <1>1, <1>3 DEF TxForward
<1>4. CASE UNCHANGED <<up, db, tx, mgr, pending, rq, sending>>
  BY <1>2, <1>4 DEF Starting
<1>5. CASE ReceiveAssignments
  <2>1. db' = db /\ Written[t] = db[t]
    BY <1>5, ReceiveEffect
  <2>2. Written'[t].state >= Written[t].state \/ Written'[t].state = None
    BY <1>1, <1>5, ReceiveEffect DEF NoRecord
  <2> QED BY <1>3, <2>1, <2>2
<1>6. ~Commit /\ ~Crash
  BY DEF Commit, Crash
<1>7. ~Restart
  <2>1. ASSUME Restart PROVE FALSE
    BY <2>1, RestartEffect DEF TypeInv, Alive
  <2> QED BY <2>1
<1>8. CASE Report
  BY <1>2, <1>8, ReportEffect DEF NodeSame, Starting
<1>9. CASE SendFails \/ SendStatus
  BY <1>2, <1>9, SendingEffect DEF NodeSame, Starting
<1>10. ASSUME NEW u \in Tasks, TakeStatus(u) PROVE TxForward(t)'
  BY <1>2, <1>10, TakeEffect DEF NodeSame, Starting
<1>11. ASSUME NEW u \in Tasks, Operate(u) PROVE TxForward(t)'
  <2>1. UNCHANGED <<db, tx>>
    BY <1>11, EndEffect
  <2>2. CASE t # u
    BY <1>2, <1>11, <2>1, <2>2, EndEffect DEF Starting
  <2>3. CASE t = u
    <3>1. pending'[t] \in {Assigned, Active, Final}
      BY <1>11, <2>3, EndEffect
    <3>2. Starting(t)'
      BY <3>1 DEF Starting, None, Assigned, Active, Final
    <3> QED BY <1>2, <2>1, <3>2
  <2> QED BY <2>2, <2>3
<1>12. ASSUME NEW u \in Tasks, ReportStatus(u) PROVE TxForward(t)'
  <2>1. db' = db /\ Written[t] = db[t] /\ mgr' = mgr
    BY <1>12, StatusEffect
  <2>2. CASE t # u \/ db[t].state = None
    <3>1. Written'[t] = Written[t]
      BY <1>12, <2>2, StatusEffect
    <3> QED BY <1>1, <1>3, <2>1, <3>1
  <2>3. CASE t = u /\ db[t].state # None
    <3>1. pending[t] = mgr[t].state /\ NotPast(Written[t].state, pending[t])
      BY <1>12, <2>3, StatusOfTask
    <3>2. Written'[t].state = pending[t] /\ pending[t] \in {Assigned, Active, Final}
      BY <1>12, <2>3, StatusEffect
    <3>3. CASE Written[t].state <= pending[t]
      BY <1>1, <1>3, <2>1, <3>2, <3>3 DEF Assigned, Active, Final
    <3>4. CASE Written[t].state = Active /\ pending[t] = Assigned
      <4>1. Starting(t)'
        BY <2>1, <3>1, <3>4 DEF Starting
      <4> QED BY <1>1, <2>1, <3>2, <3>4, <4>1 DEF TxForward
    <3> QED BY <3>1, <3>3, <3>4 DEF NotPast
  <2> QED BY <2>2, <2>3
<1> QED BY <1>4, <1>5, <1>6, <1>7, <1>8, <1>9, <1>10, <1>11, <1>12, AgentFrame


-----------------------------------------------------------------------------
(* From the node to the leader.                                             *)

(* The status on the node has reached the leader, or is with the reporter.  *)
Reported(t) ==
  up /\ store[t].state # None =>
    /\ rq[t] # None => Same(rq[t], Written[t].state)
    /\ sending.task = t => NotPast(sending.state, Written[t].state)
    /\ sending.task = t /\ rq[t] = None => Same(sending.state, Written[t].state)
    /\ sending.task # t /\ rq[t] = None => Written[t].state <= store[t].state

Idle == ~up => sending = NoSend /\ used["crashes"] # 0

(* Unless a crash lost what had been reported, the leader is not ahead, but *)
(* for ACCEPTED.                                                            *)
NotAhead(t) ==
  used["crashes"] = 0 /\ store[t].state > Assigned =>
    NotPast(store[t].state, Written[t].state)

LEMMA ReportedInit == Init => Idle /\ \A t \in Tasks : Reported(t) /\ NotAhead(t)
<1> SUFFICES ASSUME Init PROVE Idle /\ \A t \in Tasks : Reported(t) /\ NotAhead(t)
  OBVIOUS
<1>1. Idle
  BY DEF Init, Idle
<1>2. ASSUME NEW t \in Tasks PROVE Reported(t) /\ NotAhead(t)
  <2>1. /\ store[t].state = Pending /\ rq[t] = None /\ db[t].state = None /\ tx = NoTx
        /\ sending.task # t
    BY AssignmentsAssumption DEF Init, NoRecord, NoSend
  <2>2. Written[t] = db[t]
    BY <2>1, WrittenTx
  <2> QED BY <2>1, <2>2 DEF Reported, NotAhead, None, Pending, Assigned
<1> QED BY <1>1, <1>2

(* What is written of a task that the leader has does not go back, but to   *)
(* ASSIGNED while it starts, unless the agent crashes.                      *)
LEMMA WrittenForward ==
  ASSUME TypeInv, NodeInv, [Next]_vars, ~Crash, NEW t \in Tasks, Wanted(t), Stale(t),
         Working(t), store[t].state # None
  PROVE  Written'[t].state \in 0..4 /\ NotPast(Written[t].state, Written'[t].state)
<1>1. Written'[t].state \in 0..4 /\ Written[t].state \in 0..4
  <2>1. TypeInv'
    BY TypeStep
  <2>2. Written[t].state \in 0..4
    BY TaskTypes
  <2>3. Written'[t] \in Record
    BY <2>1 DEF TypeInv, WorkerTypes, Written
  <2> QED BY <2>2, <2>3 DEF Record, None, Final
<1>0. ASSUME Written'[t].state >= Written[t].state
      PROVE  NotPast(Written[t].state, Written'[t].state)
  BY <1>0, <1>1 DEF NotPast
<1>2. CASE UNCHANGED <<up, db, tx, mgr, pending, rq, sending>>
  BY <1>0, <1>1, <1>2 DEF Written
<1>3. CASE ReceiveAssignments
  <2>1. stream /\ Len(pipe) \in Nat /\ Len(pipe) >= 1 /\ pipe[1].changes[t] \in ChangeOf
    BY <1>3, ReceiveEffect
  <2>2. pipe[1].changes[t].action # "update" => ~Gone(t, pipe[1])
    BY <2>1 DEF Wanted, Gone, ChangeOf
  <2>3. Written'[t].state >= Written[t].state
    BY <1>1, <1>3, <2>2, ReceiveEffect
  <2> QED BY <1>0, <1>1, <2>3
<1>4. CASE Commit
  BY <1>0, <1>1, <1>4, CommitEffect
<1>5. CASE Restart
  <2>1. ~up /\ tx' = tx
    BY <1>5, RestartEffect
  <2>2. tx = NoTx
    BY <2>1 DEF TypeInv, Alive
  <2>3. PICK bad \in SUBSET Tasks : db' = [u \in Tasks |-> Restarted(u, bad)]
    BY <1>5, RestartEffect
  <2>4. db'[t] = Restarted(t, bad) /\ Written[t] = db[t] /\ Written'[t] = db'[t]
    BY <2>1, <2>2, <2>3, WrittenTx
  <2> QED BY <1>0, <1>1, <2>4, RestartedEffect DEF None
<1>6. CASE Report
  BY <1>0, <1>1, <1>6, ReportEffect
<1>7. CASE SendFails \/ SendStatus
  BY <1>0, <1>1, <1>7, SendingEffect
<1>8. ASSUME NEW u \in Tasks, Operate(u)
      PROVE  NotPast(Written[t].state, Written'[t].state)
  BY <1>0, <1>1, <1>8, EndEffect
<1>9. ASSUME NEW u \in Tasks, ReportStatus(u)
      PROVE  NotPast(Written[t].state, Written'[t].state)
  <2>1. CASE t # u \/ db[t].state = None
    <3>1. Written'[t] = Written[t]
      BY <1>9, <2>1, StatusEffect
    <3> QED BY <1>0, <1>1, <3>1
  <2>2. CASE t = u /\ db[t].state # None
    <3>1. Written'[t].state = pending[t]
      BY <1>9, <2>2, StatusEffect
    <3> QED BY <1>9, <2>2, <3>1, StatusOfTask
  <2> QED BY <2>1, <2>2
<1>10. ASSUME NEW u \in Tasks, TakeStatus(u)
       PROVE  NotPast(Written[t].state, Written'[t].state)
  BY <1>0, <1>1, <1>10, TakeEffect
<1> QED BY <1>1, <1>2, <1>3, <1>4, <1>5, <1>6, <1>7, <1>8, <1>9, <1>10, AgentFrame

LEMMA IdleStep ==
  ASSUME TypeInv, [Next]_vars, Idle
  PROVE  Idle'
<1>0. used'["crashes"] = 0 => used["crashes"] = 0 /\ ~Crash
  BY BudgetStep
<1>1. CASE UNCHANGED <<up, db, tx, mgr, pending, rq, sending>>
  BY <1>0, <1>1 DEF Idle
<1>2. CASE ReceiveAssignments \/ Commit
  BY <1>0, <1>2 DEF ReceiveAssignments, Reconcile, Commit, reporterVars, Idle
<1>3. CASE Crash \/ Restart
  BY <1>0, <1>3 DEF Crash, Restart, Idle
<1>4. CASE Report
  BY <1>0, <1>4 DEF Report, Idle
<1>5. CASE SendFails \/ SendStatus
  BY <1>0, <1>5 DEF SendFails, SendStatus, Idle
<1>6. ASSUME NEW u \in Tasks, Operate(u) \/ ReportStatus(u) \/ TakeStatus(u) PROVE Idle'
  <2>1. up' = up /\ up
    BY <1>6 DEF Operate, ReportStatus, TakeStatus
  <2> QED BY <2>1 DEF Idle
<1> QED BY <1>1, <1>2, <1>3, <1>4, <1>5, <1>6, AgentFrame

LEMMA NotAheadStep ==
  ASSUME TypeInv, NodeInv, [Next]_vars, Idle, NEW t \in Tasks, Wanted(t), Stale(t),
         Working(t), Reported(t), NotAhead(t)
  PROVE  NotAhead(t)'
<1> SUFFICES ASSUME used'["crashes"] = 0, store'[t].state > Assigned
             PROVE  NotPast(store'[t].state, Written'[t].state)
  BY DEF NotAhead
<1>1. used["crashes"] = 0 /\ ~Crash
  BY BudgetStep
<1>2. store'[t].state # None
  BY DEF Assigned, None
<1>3. /\ store[t].state # None /\ store'[t].state \in 0..4
      /\ \/ store'[t].state = store[t].state
         \/ store'[t].state = Assigned
         \/ /\ sending # NoSend /\ sending.task = t
            /\ store'[t].state = sending.state
  BY <1>2, StoreForward
<1>4. Written'[t].state \in 0..4 /\ NotPast(Written[t].state, Written'[t].state)
  BY <1>1, <1>3, WrittenForward
<1>5. Written[t].state \in 0..4 /\ store[t].state \in 0..4
  BY TaskTypes
<1>6. CASE store'[t].state = store[t].state
  <2>1. NotPast(store[t].state, Written[t].state)
    BY <1>1, <1>6 DEF NotAhead
  <2> QED BY <1>4, <1>5, <1>6, <2>1, SameEffect
<1>7. CASE sending # NoSend /\ sending.task = t /\ store'[t].state = sending.state
  <2>1. up
    BY <1>7 DEF Idle
  <2>2. NotPast(store'[t].state, Written[t].state)
    BY <1>3, <1>7, <2>1 DEF Reported
  <2> QED BY <1>3, <1>4, <1>5, <2>2, SameEffect
<1> QED BY <1>3, <1>6, <1>7 DEF Assigned

LEMMA ReportedStep ==
  ASSUME TypeInv, NodeInv, [Next]_vars, Idle, NEW t \in Tasks, Wanted(t), Stale(t),
         Working(t), Reported(t)
  PROVE  Reported(t)'
<1> SUFFICES ASSUME up', store'[t].state # None PROVE Reported(t)'
  BY DEF Reported
<1>0. ~Crash
  BY DEF Crash
<1>1. /\ store[t].state # None /\ store'[t].state \in 0..4
      /\ store'[t].state >= store[t].state
  BY StoreForward
<1>2. /\ Written'[t].state \in 0..4 /\ NotPast(Written[t].state, Written'[t].state)
      /\ Written[t].state \in 0..4 /\ store[t].state \in 0..4 /\ rq[t] \in 0..4
  BY <1>0, <1>1, WrittenForward, TaskTypes
<1>3. up => /\ rq[t] # None => Same(rq[t], Written[t].state)
            /\ sending.task = t => NotPast(sending.state, Written[t].state)
            /\ sending.task = t /\ rq[t] = None => Same(sending.state, Written[t].state)
            /\ sending.task # t /\ rq[t] = None => Written[t].state <= store[t].state
  BY <1>1 DEF Reported
<1>4. NoSend.task # t /\ sending.state \in 0..4
  BY AssignmentsAssumption DEF NoSend, TypeInv, ReporterTypes, None, Final
<1>5. ASSUME up, Written'[t].state = Written[t].state, rq'[t] = rq[t], sending' = sending
      PROVE  Reported(t)'
  BY <1>1, <1>2, <1>3, <1>5 DEF Reported
<1>a. ASSUME up, sending' = sending, rq'[t] # None, Same(rq'[t], Written'[t].state)
      PROVE  Reported(t)'
  <2>1. sending.task = t => NotPast(sending.state, Written'[t].state)
    BY <1>2, <1>3, <1>4, <1>a, SameEffect
  <2> QED BY <1>a, <2>1 DEF Reported
<1>6. CASE UNCHANGED <<up, db, tx, mgr, pending, rq, sending>>
  <2>1. Written' = Written
    BY <1>6 DEF Written
  <2> QED BY <1>5, <1>6, <2>1
<1>7. CASE ReceiveAssignments
  <2>1. /\ up /\ stream /\ Len(pipe) \in Nat /\ Len(pipe) >= 1
        /\ pipe[1].changes[t] \in ChangeOf /\ sending' = sending
    BY <1>7, ReceiveEffect
  <2>2. CASE pipe[1].changes[t].action # "update"
    <3>1. ~Gone(t, pipe[1])
      BY <1>1, <2>1, <2>2 DEF Wanted, Gone, ChangeOf
    <3>2. Written'[t] = Written[t] /\ rq'[t] = rq[t]
      BY <1>7, <2>2, <3>1, ReceiveEffect
    <3> QED BY <1>5, <2>1, <3>2
  <2>3. CASE pipe[1].changes[t].action = "update" /\ mgr[t] # NoMgr
    <3>1. Written'[t].state = Written[t].state /\ rq'[t] = rq[t]
      BY <1>7, <2>3, ReceiveEffect
    <3> QED BY <1>5, <2>1, <3>1
  <2>4. CASE pipe[1].changes[t].action = "update" /\ mgr[t] = NoMgr
    <3>1. /\ Written'[t].state # None /\ Written'[t].state >= Written[t].state
          /\ rq'[t] = Enqueue(rq, t, Written'[t].state)
      BY <1>7, <2>4, ReceiveEffect
    <3>2. Written[t].state \in {None, Final}
      BY <2>1, <2>4 DEF Working
    <3>3. rq[t] \in {None, Written'[t].state}
      BY <1>2, <1>3, <2>1, <3>1, <3>2 DEF Same, None, Assigned, Final
    <3>4. rq'[t] = Written'[t].state
      BY <1>2, <3>1, <3>3 DEF Enqueue, Greater, None
    <3> QED BY <1>a, <2>1, <3>1, <3>4 DEF Same
  <2> QED BY <2>2, <2>3, <2>4
<1>8. CASE Commit
  <2>1. Written'[t] = Written[t] /\ UNCHANGED <<up, rq, sending>>
    BY <1>8, CommitEffect
  <2> QED BY <1>5, <2>1
<1>9. CASE Restart
  <2>1. ~up /\ tx' = tx /\ sending' = sending
    BY <1>9, RestartEffect
  <2>2. tx' = NoTx /\ sending' = NoSend
    BY <2>1 DEF TypeInv, Alive, Idle
  <2>3. PICK bad \in SUBSET Tasks :
          /\ db' = [u \in Tasks |-> Restarted(u, bad)]
          /\ rq' = [u \in Tasks |-> Restarted(u, bad).state]
    BY <1>9, RestartEffect
  <2>4. rq'[t] = Written'[t].state
    <3>1. Written'[t] = db'[t]
      BY <2>2, WrittenTx
    <3> QED BY <2>3, <3>1
  <2> QED BY <1>1, <1>2, <1>4, <2>2, <2>4 DEF Reported, Same, None
<1>10. CASE Report
  <2>1. /\ rq'[t] = IF db[t].state # None THEN Enqueue(rq, t, db[t].state) ELSE rq[t]
        /\ Written[t] = db[t] /\ Written' = Written /\ sending' = sending /\ up' = up
    BY <1>10, ReportEffect DEF NodeSame
  <2>2. CASE db[t].state = None
    BY <1>5, <2>1, <2>2
  <2>3. CASE db[t].state # None
    <3>1. rq'[t] # None /\ Same(rq'[t], Written'[t].state)
      BY <1>2, <1>3, <2>1, <2>3 DEF Enqueue, Greater, Same, None, Assigned, Active
    <3> QED BY <1>a, <2>1, <3>1
  <2> QED BY <2>2, <2>3
<1>11. CASE SendFails
  <2>1. /\ up /\ sending' = NoSend /\ Written' = Written
        /\ rq'[t] = IF t = sending.task /\ rq[t] = None THEN sending.state ELSE rq[t]
    BY <1>11, SendingEffect
  <2>2. rq'[t] # None => Same(rq'[t], Written'[t].state)
    BY <1>3, <2>1
  <2>3. rq'[t] = None => Written'[t].state <= store'[t].state
    BY <1>1, <1>2, <1>3, <2>1 DEF Same, None, Active
  <2> QED BY <1>4, <2>1, <2>2, <2>3 DEF Reported
<1>12. CASE SendStatus
  <2>1. /\ up /\ sending # NoSend /\ sending' = NoSend /\ Written' = Written /\ rq'[t] = rq[t]
        /\ store'[t] = IF t = sending.task THEN Updated(t, sending.state) ELSE store[t]
    BY <1>12, SendingEffect
  <2>2. CASE t = sending.task
    <3>1. store'[t].state >= sending.state
      <4>1. store[t] \in Record
        BY TaskTypes
      <4> QED BY <1>1, <1>2, <1>4, <2>1, <2>2, <4>1 DEF Updated, Record
    <3>2. rq[t] = None => sending.state >= Written[t].state
      BY <1>2, <1>3, <1>4, <2>1, <2>2, SameEffect
    <3>3. rq'[t] = None => Written'[t].state <= store'[t].state
      BY <1>1, <1>2, <1>4, <2>1, <3>1, <3>2
    <3> QED BY <1>3, <1>4, <2>1, <3>3 DEF Reported
  <2>3. CASE t # sending.task
    BY <1>1, <1>2, <1>3, <1>4, <2>1, <2>3 DEF Reported
  <2> QED BY <2>2, <2>3
<1>13. ASSUME NEW u \in Tasks, Operate(u) PROVE Reported(t)'
  <2>1. up /\ Written' = Written /\ UNCHANGED <<up, rq, sending>>
    BY <1>13, EndEffect
  <2> QED BY <1>5, <2>1
<1>14. ASSUME NEW u \in Tasks, ReportStatus(u) PROVE Reported(t)'
  <2>1. up /\ sending' = sending /\ Written[t] = db[t]
    BY <1>14, StatusEffect
  <2>2. CASE t # u \/ db[t].state = None
    <3>1. Written'[t] = Written[t] /\ rq'[t] = rq[t]
      BY <1>14, <2>2, StatusEffect
    <3> QED BY <1>5, <2>1, <3>1
  <2>3. CASE t = u /\ db[t].state # None
    <3>1. /\ Written'[t].state = pending[t] /\ rq'[t] = Enqueue(rq, t, pending[t])
          /\ pending[t] \in {Assigned, Active, Final}
      BY <1>14, <2>3, StatusEffect
    <3>2. rq[t] # None => Same(rq[t], Written[t].state)
      BY <1>3, <2>1
    <3>3. rq'[t] # None /\ Same(rq'[t], Written'[t].state)
      BY <1>2, <3>1, <3>2 DEF Enqueue, Greater, Same, NotPast, None, Assigned, Active, Final
    <3> QED BY <1>a, <2>1, <3>3
  <2> QED BY <2>2, <2>3
<1>15. ASSUME NEW u \in Tasks, TakeStatus(u) PROVE Reported(t)'
  <2>1. /\ sending.task \notin Tasks /\ rq[u] # None
        /\ sending'.task = u /\ sending'.state = rq[u]
        /\ rq'[t] = IF t = u THEN None ELSE rq[t]
        /\ Written' = Written /\ up' = up
    BY <1>15, TakeEffect DEF NodeSame
  <2>2. t = u => Same(rq[t], Written[t].state) /\ NotPast(rq[t], Written[t].state)
    BY <1>2, <1>3, <2>1, SameEffect
  <2> QED BY <1>1, <1>2, <1>3, <2>1, <2>2 DEF Reported
<1> QED BY <1>0, <1>6, <1>7, <1>8, <1>9, <1>10, <1>11, <1>12, <1>13, <1>14, <1>15, AgentFrame

-----------------------------------------------------------------------------
(* The inductive invariant and the theorem.                                 *)

AgreeTask(t) ==
  /\ EventsFollow(t) /\ FreshStream(t) /\ FreshNode(t)
  /\ PipeFollows(t) /\ Wanted(t) /\ Removed(t) /\ Stale(t) /\ Working(t) /\ TxForward(t)
  /\ Reported(t) /\ NotAhead(t)

AgreeInv ==
  TypeInv /\ NodeInv /\ CompleteFirst /\ Idle /\ \A t \in Tasks : AgreeTask(t)

LEMMA AgreeInit == Init => AgreeInv
BY TypeInit, NodeInit, EventsInit, FreshInit, PipeInit, RemovedInit, WorkingInit, ReportedInit
   DEF AgreeInv, AgreeTask

LEMMA AgreeStep == AgreeInv /\ [Next]_vars => AgreeInv'
<1> SUFFICES ASSUME AgreeInv, [Next]_vars PROVE AgreeInv'
  OBVIOUS
<1>1. TypeInv /\ NodeInv /\ CompleteFirst /\ Idle /\ \A t \in Tasks : AgreeTask(t)
  BY DEF AgreeInv
<1>2. \A t \in Tasks : EventsFollow(t)
  BY <1>1 DEF AgreeTask
<1>3. TypeInv' /\ NodeInv' /\ CompleteFirst' /\ Idle'
  BY <1>1, <1>2, TypeStep, NodeStep, CompleteFirstStep, IdleStep
<1>4. ASSUME NEW t \in Tasks PROVE AgreeTask(t)'
  <2>1. /\ EventsFollow(t) /\ FreshStream(t) /\ FreshNode(t)
        /\ PipeFollows(t) /\ Wanted(t) /\ Removed(t) /\ Stale(t) /\ Working(t)
        /\ TxForward(t) /\ Reported(t) /\ NotAhead(t)
    BY <1>1 DEF AgreeTask
  <2>2. EventsFollow(t)' /\ FreshStream(t)' /\ FreshNode(t)'
    BY <1>1, <1>2, <2>1, EventsStep, FreshStreamStep, FreshNodeStep
  <2>3. PipeFollows(t)' /\ Wanted(t)'
    BY <1>1, <1>2, <2>1, PipeStep, WantedStep
  <2>4. Removed(t)' /\ Stale(t)' /\ Working(t)' /\ TxForward(t)'
    BY <1>1, <1>2, <2>1, RemovedStep, StaleStep, WorkingStep, TxForwardStep
  <2>5. Reported(t)' /\ NotAhead(t)'
    BY <1>1, <2>1, ReportedStep, NotAheadStep
  <2> QED BY <2>2, <2>3, <2>4, <2>5 DEF AgreeTask
<1> QED BY <1>3, <1>4 DEF AgreeInv

(* The invariant behind the agreement: what is in the watch queue of the    *)
(* stream, in its assignmentSet, on the wire and on the node is for every   *)
(* task a step of the way from the leader's store to the worker, and what   *)
(* the status reporter has yet to send a step of the way back.              *)
THEOREM AgreeInvariant == Spec => []AgreeInv
BY AgreeInit, AgreeStep, PTL DEF Spec

(* Leader and node agree: when nothing is on its way the node has exactly   *)
(* the tasks that the dispatcher's store has for it, with their desired     *)
(* state, and the store has their status; and until the agent crashes the   *)
(* store shows no status that the worker has not written, ACCEPTED of a     *)
(* task that starts excepted.                                               *)
THEOREM LeaderAndNodeAgree == Spec => []Agree
<1>1. AgreeInv => Agree
  <2> SUFFICES ASSUME AgreeInv PROVE Agree
    OBVIOUS
  <2>0. TypeInv /\ NodeInv /\ \A t \in Tasks : AgreeTask(t) /\ Managed(t)
    BY DEF AgreeInv, NodeInv
  <2>1. StoreNotAhead
    <3> SUFFICES ASSUME used["crashes"] = 0, NEW t \in Tasks, store[t].state > Assigned,
                        Written[t].state # None
                 PROVE  \/ store[t].state <= Written[t].state
                        \/ store[t].state = Active /\ Starting(t)
      BY DEF StoreNotAhead
    <3>1. NotPast(store[t].state, Written[t].state) /\ Working(t) /\ up
      BY <2>0 DEF AgreeInv, AgreeTask, NotAhead, Idle
    <3>2. ASSUME Written[t].state = Assigned PROVE Starting(t)
      <4>1. mgr[t] # NoMgr
        BY <3>1, <3>2 DEF Working, None, Assigned, Final
      <4>2. pending[t] = None => mgr[t].state = Assigned
        BY <3>1, <3>2, <4>1 DEF Working, Same, Assigned, Active
      <4> QED BY <4>2 DEF Starting
    <3> QED BY <3>1, <3>2 DEF NotPast
  <2>2. ASSUME Quiet, NEW t \in Tasks
        PROVE  /\ aset.tasks[t] = Known(store[t]) /\ OnNode(t, Known(store[t]))
               /\ Written[t] = db[t] /\ up /\ pending[t] = None
               /\ store[t].state # None => db[t].state <= store[t].state
    <3>1. /\ up /\ stream /\ events = <<>> /\ pipe = <<>> /\ tx = NoTx /\ sending = NoSend
          /\ rq[t] = None /\ pending[t] = None
      BY <2>2 DEF Quiet
    <3>2. NoEvent(t) /\ Unmentioned(t)
      BY <3>1 DEF NoEvent, Unmentioned
    <3>3. aset.tasks[t] = Known(store[t])
      BY <2>0, <3>1, <3>2 DEF AgreeTask, EventsFollow
    <3>4. OnNode(t, Known(store[t]))
      BY <2>0, <3>1, <3>2, <3>3 DEF AgreeTask, PipeFollows
    <3>5. Written[t] = db[t] /\ sending.task # t
      BY <3>1, WrittenTx, AssignmentsAssumption DEF NoSend
    <3>6. store[t].state # None => db[t].state <= store[t].state
      BY <2>0, <3>1, <3>5 DEF AgreeTask, Reported
    <3> QED BY <3>1, <3>3, <3>4, <3>5, <3>6
  <2>3. NodeFollows
    <3> SUFFICES ASSUME Quiet, NEW t \in Tasks
                 PROVE  /\ store[t].state >= Assigned =>
                             db[t].state # None /\ db[t].desired = store[t].desired
                        /\ store[t].state = None =>
                             mgr[t] = NoMgr /\ (db[t].state = None \/ used["rejects"] > 0)
      BY DEF NodeFollows
    <3>1. OnNode(t, Known(store[t])) /\ Written[t] = db[t]
      BY <2>2
    <3> QED BY <3>1 DEF OnNode, Known, NoRecord, None, Assigned
  <2>4. LeaderFollows
    <3> SUFFICES ASSUME Quiet, NEW t \in Tasks, store[t].state # None
                 PROVE  /\ db[t].state <= store[t].state
                        /\ store[t].desired = Shut => store[t].state = Final
      BY DEF LeaderFollows
    <3>1. /\ OnNode(t, Known(store[t])) /\ Written[t] = db[t] /\ up /\ pending[t] = None
          /\ db[t].state <= store[t].state
      BY <2>2
    <3>2. ASSUME store[t].desired = Shut PROVE store[t].state = Final
      <4>1. store[t].state \in 0..4 /\ mgr[t].desired \in {1, 2}
        BY <2>0, TaskTypes
      <4>2. store[t].state >= Assigned
        BY <2>0, <3>2, <4>1 DEF AgreeTask, FreshStream, None, Pending, Assigned, Run, Shut
      <4>3. db[t].state # None /\ db[t].desired = Shut
        BY <3>1, <3>2, <4>2 DEF OnNode, Known, None, Assigned
      <4>4. db[t].state = Final
        <5>0. Working(t)
          BY <2>0 DEF AgreeTask
        <5>1. CASE mgr[t] = NoMgr
          BY <3>1, <4>3, <5>0, <5>1 DEF Working
        <5>2. CASE mgr[t] # NoMgr
          <6>1. mgr[t].state \in {Assigned, Active, Final} /\ mgr[t].desired >= Shut
            BY <2>0, <3>1, <4>3, <5>2 DEF Managed
          <6>2. mgr[t].desired = Shut
            BY <4>1, <6>1 DEF Shut
          <6>3. mgr[t].state = Final
            BY <6>1, <6>2 DEF Quiet, Assigned, Active, Final
          <6>4. Same(db[t].state, mgr[t].state)
            BY <3>1, <5>0, <5>2 DEF Working
          <6> QED BY <6>3, <6>4 DEF Same, Assigned, Final
        <5> QED BY <5>1, <5>2
      <4> QED BY <3>1, <4>1, <4>4 DEF Final
    <3> QED BY <3>1, <3>2
  <2> QED BY <2>1, <2>3, <2>4 DEF Agree
<1> QED BY <1>1, AgreeInvariant, PTL

-----------------------------------------------------------------------------
(* Task states in the store never go back, and on the disk of the node only *)
(* from ACCEPTED to ASSIGNED, while the manager starts: the dispatcher      *)
(* ignores a status that is older than its own, and the worker starts a     *)
(* task from the status on disk.                                            *)
THEOREM StatesOnlyForward == Spec => StatesForward
<1> DEFINE OnDisk(t) == \/ db'[t].state >= db[t].state \/ db'[t].state = None
                        \/ db[t].state = Active /\ db'[t].state = Assigned /\ Starting(t)
           Forward ==
             \A t \in Tasks : /\ store'[t].state >= store[t].state \/ store'[t].state = None
                              /\ OnDisk(t)
<1>1. AgreeInv /\ [Next]_vars => Forward
  <2> SUFFICES ASSUME AgreeInv, [Next]_vars, NEW t \in Tasks
               PROVE  /\ store'[t].state >= store[t].state \/ store'[t].state = None
                      /\ OnDisk(t)
    OBVIOUS
  <2>1. TypeInv /\ AgreeTask(t)
    BY DEF AgreeInv
  <2>2. db[t].state \in 0..4
    BY <2>1, TaskTypes
  <2>3. store'[t].state >= store[t].state \/ store'[t].state = None
    BY <2>1, StoreForward
  <2>4. CASE db' = db
    BY <2>2, <2>3, <2>4
  <2>5. CASE Commit
    <3>1. tx # NoTx /\ db' = tx /\ TxForward(t)
      BY <2>1, <2>5 DEF Commit, AgreeTask
    <3> QED BY <2>3, <3>1 DEF TxForward
  <2>6. CASE Restart
    <3>1. PICK bad \in SUBSET Tasks : db' = [u \in Tasks |-> Restarted(u, bad)]
      BY <2>1, <2>6, RestartEffect
    <3>2. db'[t] = Restarted(t, bad)
      BY <3>1
    <3>3. db'[t].state >= db[t].state
      BY <2>1, <2>2, <3>2, RestartedEffect DEF NoRecord
    <3> QED BY <2>3, <3>3
  <2>7. ReceiveAssignments \/ Crash \/ (\E u \in Tasks : Operate(u) \/ ReportStatus(u))
        => db' = db
    BY DEF ReceiveAssignments, Reconcile, Crash, Operate, ReportStatus
  <2>8. NodeSame => db' = db
    BY DEF NodeSame
  <2> QED BY <2>4, <2>5, <2>6, <2>7, <2>8, NodeFrame
<1>2. AgreeInv /\ [Next]_vars => [Forward]_<<store, db>>
  BY <1>1
<1>3. Spec => [][Forward]_<<store, db>>
  BY <1>2, AgreeInvariant, PTL DEF Spec
<1> QED BY <1>3 DEF StatesForward

-----------------------------------------------------------------------------
Live(task) == task.state \in Assigned..Active

-----------------------------------------------------------------------------
(* Consecutive events of a task.  An event that ends a task leaves its      *)
(* desired state as it was: addOrUpdateTask would otherwise send the update *)
(* and keep the dependencies of a task that needs none.                     *)

Chain(prev, new) ==
  prev.state # None /\ new.state # None =>
    /\ new.state >= prev.state
    /\ prev.state <= Active /\ new.state > Active => new.desired = prev.desired

(* Event j is the first one of task t after event i.                        *)
Consecutive(t, i, j) ==
  events[j].task = t /\ \A k \in (i + 1)..(j - 1) : events[k].task # t

EventsChain(t) ==
  stream =>
    /\ \A i, j \in 1..Len(events) :
         i < j /\ events[i].task = t /\ Consecutive(t, i, j) =>
           Chain(events[i].new, events[j].new)
    /\ \A j \in 1..Len(events) :
         Consecutive(t, 0, j) => Chain(aset.tasks[t], events[j].new)

(* The users of a dependency are the tasks that have not ended.             *)
Users(a, r) == {t \in Tasks : r \in Deps[t] /\ Live(a.tasks[t])}
UsingOK(r) == stream => aset.using[r] = Users(aset, r)

(* The set b within a batch, after i events.                                *)
NextChains(b, t, i) ==
  \A j \in 1..Len(events) :
    i < j /\ Consecutive(t, i, j) => Chain(b.tasks[t], events[j].new)

(* What a batch says of a dependency; one that cannot be read has users and *)
(* is not sent.                                                             *)
DependencyChange(b, r) ==
  /\ b.changes[r].action = "none" => r \in Missing \/ (b.using[r] = {} <=> aset.using[r] = {})
  /\ b.changes[r].action = "update" => r \notin Missing /\ b.using[r] # {}
  /\ b.changes[r].action = "remove" => r \in Missing \/ b.using[r] = {}

BatchDependencies(b, i) ==
  /\ \A t \in Tasks : BatchTask(b, t, i) /\ NextChains(b, t, i)
  /\ \A r \in Resources : b.using[r] = Users(b, r) /\ DependencyChange(b, r)

LEMMA NextChainsStep ==
  ASSUME TypeInv, stream, NEW t \in Tasks, EventsFollow(t), EventsChain(t),
         NEW i \in 1..Len(events), NEW b \in ASet, BatchTask(b, t, i - 1),
         NextChains(b, t, i - 1)
  PROVE  NextChains(Apply(b, events[i]), t, i)
<1> DEFINE e == events[i]
           d == Apply(b, e)
<1>1. /\ Len(events) \in Nat /\ i \in Nat /\ e \in Event
  BY DEF TypeInv, LeaderTypes
<1>2. TaskEffect(b, e, d)
  BY <1>1, ApplyEffect
<1>3. e.new.state \in 0..4 /\ NoRecord.state = None
  BY <1>1 DEF Event, Record, None, Final, NoRecord
<1> SUFFICES ASSUME NEW j \in 1..Len(events), i < j, Consecutive(t, i, j)
             PROVE  Chain(d.tasks[t], events[j].new)
  BY DEF NextChains
<1> HIDE DEF e, d
<1>4. CASE t # e.task
  <2>1. Consecutive(t, i - 1, j)
    <3>1. \A k \in ((i - 1) + 1)..(j - 1) : k = i \/ k \in (i + 1)..(j - 1)
      BY <1>1
    <3> QED BY <1>4, <3>1 DEF Consecutive, e
  <2>2. i - 1 < j
    BY <1>1
  <2>3. d.tasks[t] = b.tasks[t]
    BY <1>2, <1>4 DEF TaskEffect
  <2> QED BY <2>1, <2>2, <2>3 DEF NextChains
<1>5. CASE t = e.task
  <2>1. e.new.state # Pending
    BY <1>5 DEF EventsFollow, EventFollows, e
  <2>2. CASE e.new.state >= Assigned
    <3>1. d.tasks[t] = e.new
      BY <1>2, <1>5, <2>2 DEF TaskEffect
    <3>2. Chain(e.new, events[j].new)
      BY <1>5 DEF EventsChain, e
    <3> QED BY <3>1, <3>2
  <2>3. CASE e.new.state = None
    <3>1. d.tasks[t].state = None
      BY <1>2, <1>3, <1>5, <2>3 DEF TaskEffect
    <3> QED BY <3>1 DEF Chain
  <2> QED BY <1>3, <2>1, <2>2, <2>3 DEF None, Pending, Assigned
<1> QED BY <1>4, <1>5

(* An event and the users of a dependency.                                  *)
LEMMA UsersStep ==
  ASSUME TypeInv, stream, NEW i \in 1..Len(events), NEW b \in ASet,
         \A t \in Tasks : EventsFollow(t) /\ BatchTask(b, t, i - 1) /\ NextChains(b, t, i - 1),
         NEW r \in Resources, b.using[r] = Users(b, r)
  PROVE  Apply(b, events[i]).using[r] = Users(Apply(b, events[i]), r)
<1> DEFINE e == events[i]
           d == Apply(b, e)
<1>1. Len(events) \in Nat /\ i \in Nat /\ e \in Event
  BY DEF TypeInv, LeaderTypes
<1>2. TaskEffect(b, e, d) /\ DependencyEffect(b, e, d, r)
  BY <1>1, ApplyEffect
<1> DEFINE t == e.task
<1>3. /\ t \in Tasks /\ e.new.state \in 0..4 /\ b.tasks[t].state \in 0..4
      /\ NoRecord.state = None
  BY <1>1 DEF Event, ASet, Record, None, Final, NoRecord
<1>4. Chain(b.tasks[t], e.new)
  <2>1. Consecutive(t, i - 1, i)
    BY <1>1 DEF Consecutive
  <2>2. i - 1 < i
    BY <1>1
  <2> QED BY <1>3, <2>1, <2>2 DEF NextChains
<1>5. e.new.state # Pending /\ (b.tasks[t] = NoRecord \/ b.tasks[t].state >= Assigned)
  BY <1>3 DEF EventsFollow, EventFollows, BatchTask
<1> HIDE DEF e, d
<1>6. \A u \in Tasks : u # t => d.tasks[u] = b.tasks[u]
  BY <1>2 DEF TaskEffect
<1>7. CASE r \notin Deps[t]
  <2>1. d.using[r] = b.using[r]
    BY <1>2, <1>7 DEF DependencyEffect
  <2>2. Users(d, r) = Users(b, r)
    BY <1>6, <1>7 DEF Users
  <2> QED BY <2>1, <2>2 DEF d, e
<1>8. CASE r \in Deps[t] /\ Adds(b, e)
  <2>1. d.using[r] = b.using[r] \cup {t}
    BY <1>2, <1>8 DEF DependencyEffect
  <2>2. Live(d.tasks[t])
    BY <1>2, <1>8 DEF TaskEffect, Adds, Live, Assigned, Active
  <2>3. Users(d, r) = Users(b, r) \cup {t}
    BY <1>3, <1>6, <1>8, <2>2 DEF Users
  <2> QED BY <2>1, <2>3 DEF d, e
<1>9. CASE r \in Deps[t] /\ Releases(b, e)
  <2>1. d.using[r] = b.using[r] \ {t}
    BY <1>2, <1>9 DEF DependencyEffect
  <2>2. ~Live(d.tasks[t])
    BY <1>2, <1>3, <1>9 DEF TaskEffect, Releases, Live, None, Assigned, Active
  <2>3. Users(d, r) = Users(b, r) \ {t}
    BY <1>3, <1>6, <1>9, <2>2 DEF Users
  <2> QED BY <2>1, <2>3 DEF d, e
<1>10. CASE r \in Deps[t] /\ ~Adds(b, e) /\ ~Releases(b, e)
  <2>1. d.using[r] = b.using[r]
    BY <1>2, <1>10 DEF DependencyEffect
  <2>2. Live(d.tasks[t]) <=> Live(b.tasks[t])
    <3>1. CASE e.new.state = None
      <4>1. b.tasks[t].state = None
        BY <1>10, <3>1 DEF Releases
      <4> QED BY <1>2, <3>1, <4>1 DEF TaskEffect
    <3>2. CASE e.new.state >= Assigned
      <4>1. d.tasks[t] = e.new
        BY <1>2, <3>2 DEF TaskEffect
      <4>2. CASE b.tasks[t].state = None
        BY <1>3, <1>10, <3>2, <4>1, <4>2 DEF Adds, Live, None, Assigned, Active
      <4>3. CASE b.tasks[t].state # None
        <5>1. b.tasks[t].state >= Assigned /\ e.new.state >= b.tasks[t].state
          BY <1>3, <1>4, <1>5, <3>2, <4>3 DEF Chain, None, Assigned
        <5>2. b.tasks[t].state <= Active => e.new.state <= Active
          BY <1>3, <1>4, <1>10, <3>2, <4>3 DEF Chain, Releases, NoNews, None, Assigned, Active
        <5> QED BY <1>3, <4>1, <5>1, <5>2 DEF Live, Assigned, Active
      <4> QED BY <4>2, <4>3
    <3> QED BY <1>3, <1>5, <3>1, <3>2 DEF None, Pending, Assigned
  <2>3. Users(d, r) = Users(b, r)
    BY <1>3, <1>6, <2>2 DEF Users
  <2> QED BY <2>1, <2>3 DEF d, e
<1> QED BY <1>7, <1>8, <1>9, <1>10

(* An event and the change of a dependency.                                 *)
LEMMA DependencyChangeStep ==
  ASSUME NEW e \in Event, NEW b \in ASet, NEW r \in Resources, DependencyChange(b, r)
  PROVE  DependencyChange(Apply(b, e), r)
<1> DEFINE d == Apply(b, e)
           t == e.task
<1>1. DependencyEffect(b, e, d, r)
  BY ApplyEffect
<1>2. Removal.action = "remove" /\ Update(NoRecord).action = "update"
  BY DEF Removal, Update
<1> HIDE DEF d
<1>3. CASE r \notin Deps[t] \/ ~(Adds(b, e) \/ Releases(b, e))
  <2>1. d.using[r] = b.using[r] /\ d.changes[r] = b.changes[r]
    BY <1>1, <1>3 DEF DependencyEffect
  <2>2. DependencyChange(d, r)
    BY <2>1 DEF DependencyChange
  <2> QED BY <2>2 DEF d
<1>4. CASE r \in Deps[t] /\ Adds(b, e)
  <2>1. /\ d.using[r] # {}
        /\ d.changes[r] = IF MustSend(b, r, t) THEN Update(NoRecord) ELSE b.changes[r]
    BY <1>1, <1>4 DEF DependencyEffect
  <2>2. IF MustSend(b, r, t) THEN r \notin Missing ELSE b.using[r] # {} \/ r \in Missing
    BY DEF MustSend
  <2>3. DependencyChange(d, r)
    BY <1>2, <2>1, <2>2 DEF DependencyChange
  <2> QED BY <2>3 DEF d
<1>5. CASE r \in Deps[t] /\ Releases(b, e)
  <2>1. /\ d.using[r] = b.using[r] \ {t}
        /\ d.changes[r] = IF Unused(b, r, t) THEN Removal ELSE b.changes[r]
    BY <1>1, <1>5 DEF DependencyEffect
  <2>2. /\ Unused(b, r, t) => d.using[r] = {}
        /\ ~Unused(b, r, t) => d.using[r] # {} /\ b.using[r] # {}
    BY <2>1 DEF Unused
  <2>3. DependencyChange(d, r)
    BY <1>2, <2>1, <2>2 DEF DependencyChange
  <2> QED BY <2>3 DEF d
<1> QED BY <1>3, <1>4, <1>5

(* A batch of k events.                                                     *)
LEMMA BatchDependenciesEffect ==
  ASSUME TypeInv, stream, \A t \in Tasks : EventsFollow(t) /\ EventsChain(t),
         \A r \in Resources : UsingOK(r), NEW k \in 1..Len(events)
  PROVE  BatchDependencies(Batch(aset, events, k), k)
<1> DEFINE S == [i \in 0..k |-> {b \in ASet : BatchDependencies(b, i)}]
<1>0. Len(events) \in Nat /\ k \in Nat /\ aset \in ASet /\ aset.changes = NoChanges
  BY DEF TypeInv, LeaderTypes
<1>1. aset \in S[0]
  <2>1. ASSUME NEW t \in Tasks PROVE BatchTask(aset, t, 0) /\ NextChains(aset, t, 0)
    <3>1. aset.changes[t] = NoChange /\ NoChange.action = "none"
      BY <1>0 DEF NoChanges, NoChange
    <3>2. (\A j \in (0 + 1)..Len(events) : events[j].task # t) => NoEvent(t)
      BY DEF NoEvent
    <3>3. EventsFollow(t) /\ EventsChain(t)
      OBVIOUS
    <3>4. BatchTask(aset, t, 0)
      BY <3>1, <3>2, <3>3 DEF BatchTask, EventsFollow
    <3>5. NextChains(aset, t, 0)
      BY <3>3 DEF NextChains, EventsChain
    <3> QED BY <3>4, <3>5
  <2>2. ASSUME NEW r \in Resources
        PROVE  aset.using[r] = Users(aset, r) /\ DependencyChange(aset, r)
    <3>1. aset.changes[r].action = "none"
      BY <1>0 DEF NoChanges, NoChange
    <3>2. UsingOK(r)
      OBVIOUS
    <3> QED BY <3>1, <3>2 DEF UsingOK, DependencyChange
  <2>3. BatchDependencies(aset, 0)
    BY <2>1, <2>2 DEF BatchDependencies
  <2> QED BY <1>0, <2>3
<1>2. \A i \in 1..k : \A b \in S[i - 1] : Apply(b, events[i]) \in S[i]
  <2> SUFFICES ASSUME NEW i \in 1..k, NEW b \in S[i - 1] PROVE Apply(b, events[i]) \in S[i]
    OBVIOUS
  <2>1. i - 1 \in 0..k /\ i \in 0..k /\ i \in 1..Len(events)
    BY <1>0
  <2>2. b \in ASet /\ BatchDependencies(b, i - 1)
    BY <2>1
  <2>3. events[i] \in Event
    BY <2>1 DEF TypeInv, LeaderTypes
  <2>4. Apply(b, events[i]) \in ASet
    BY <2>2, <2>3, ApplyEffect
  <2>5. /\ \A t \in Tasks : BatchTask(b, t, i - 1) /\ NextChains(b, t, i - 1)
        /\ \A r \in Resources : b.using[r] = Users(b, r) /\ DependencyChange(b, r)
    BY <2>2 DEF BatchDependencies
  <2>6. ASSUME NEW t \in Tasks
        PROVE  BatchTask(Apply(b, events[i]), t, i) /\ NextChains(Apply(b, events[i]), t, i)
    BY <2>1, <2>2, <2>5, EventStep, NextChainsStep
  <2>7. ASSUME NEW r \in Resources
        PROVE  /\ Apply(b, events[i]).using[r] = Users(Apply(b, events[i]), r)
               /\ DependencyChange(Apply(b, events[i]), r)
    BY <2>1, <2>2, <2>3, <2>5, UsersStep, DependencyChangeStep
  <2>8. BatchDependencies(Apply(b, events[i]), i)
    BY <2>6, <2>7 DEF BatchDependencies
  <2> QED BY <2>1, <2>4, <2>8
<1>3. S[k] = {b \in ASet : BatchDependencies(b, k)}
  BY <1>0
<1> HIDE DEF S
<1>4. Batch(aset, events, k) \in S[k]
  BY <1>0, <1>1, <1>2, BatchInduction
<1> QED BY <1>3, <1>4

LEMMA MoveChains ==
  ASSUME TypeInv, NEW t \in Tasks, NEW new \in Record, StoreMove(t, new)
  PROVE  Chain(store[t], new) /\ Chain(Known(store[t]), new)
<1>1. /\ store[t].state \in 0..4 /\ new.state \in 0..4
      /\ new.state >= store[t].state \/ new = NoRecord
      /\ new.state # None => new.state = store[t].state \/ new.desired = store[t].desired
      /\ NoRecord.state = None
  BY TaskTypes, MoveEffect DEF NoRecord
<1>2. Chain(store[t], new)
  BY <1>1 DEF Chain, None, Active
<1> QED BY <1>1, <1>2 DEF Chain, Known

LEMMA EventsChainStep ==
  ASSUME TypeInv, [Next]_vars, \A t \in Tasks : EventsFollow(t) /\ EventsChain(t),
         \A r \in Resources : UsingOK(r), NEW t \in Tasks
  PROVE  EventsChain(t)'
<1>0. EventsFollow(t) /\ EventsChain(t) /\ \A u \in Tasks : EventsFollow(u)
  OBVIOUS
<1>1. CASE UNCHANGED <<store, stream, events, aset>>
  BY <1>0, <1>1 DEF EventsChain, Consecutive
<1>2. ASSUME NEW u \in Tasks, NEW new \in Record, LeaderWrites(u, new)
      PROVE  EventsChain(t)'
  <2> SUFFICES ASSUME stream' PROVE EventsChain(t)'
    BY DEF EventsChain
  <2>0. PICK l : l = Len(events)
    OBVIOUS
  <2>1. /\ StoreMove(u, new) /\ stream /\ aset' = aset
        /\ l \in Nat /\ Len(events') = l + 1
        /\ events'[l + 1] = [task |-> u, new |-> new]
        /\ \A i \in 1..l : events'[i] = events[i]
    BY <1>2, <2>0, WriteEffect
  <2>2. Chain(store[u], new) /\ Chain(Known(store[u]), new)
    BY <2>1, MoveChains
  <2>3. ASSUME NEW i \in 0..l, Consecutive(t, i, l + 1)'
        PROVE  t = u /\ \A k \in (i + 1)..l : events[k].task # t
    <3>1. (l + 1) - 1 = l /\ \A k \in (i + 1)..l : k \in 1..l
      BY <2>1
    <3> QED BY <2>1, <2>3, <3>1 DEF Consecutive
  <2>4. ASSUME NEW i \in 0..l, NEW j \in 1..l, Consecutive(t, i, j)'
        PROVE  Consecutive(t, i, j)
    <3>1. \A k \in (i + 1)..(j - 1) : k \in 1..l
      BY <2>1
    <3> QED BY <2>1, <2>4, <3>1 DEF Consecutive
  <2>5. ASSUME NEW i \in 1..(l + 1), NEW j \in 1..(l + 1), i < j,
               events'[i].task = t, Consecutive(t, i, j)'
        PROVE  Chain(events'[i].new, events'[j].new)
    <3>1. i \in 1..l /\ events'[i] = events[i] /\ i \in 0..l
      BY <2>1, <2>5
    <3>2. CASE j = l + 1
      <4>1. t = u /\ LastEvent(t, i)
        BY <2>0, <2>3, <2>5, <3>1, <3>2 DEF LastEvent
      <4>2. events[i].new = store[t]
        BY <1>0, <2>0, <2>1, <3>1, <4>1 DEF EventsFollow, EventFollows, LastEvent
      <4> QED BY <2>1, <2>2, <3>1, <3>2, <4>1, <4>2
    <3>3. CASE j \in 1..l
      <4>1. Consecutive(t, i, j) /\ events'[j] = events[j]
        BY <2>1, <2>4, <2>5, <3>1, <3>3
      <4> QED BY <1>0, <2>0, <2>1, <2>5, <3>1, <3>3, <4>1 DEF EventsChain
    <3> QED BY <2>1, <3>2, <3>3
  <2>6. ASSUME NEW j \in 1..(l + 1), Consecutive(t, 0, j)'
        PROVE  Chain(aset'.tasks[t], events'[j].new)
    <3>0. 0 \in 0..l
      BY <2>1
    <3>1. CASE j = l + 1
      <4>1. t = u /\ NoEvent(t)
        BY <2>0, <2>3, <2>6, <3>0, <3>1 DEF NoEvent
      <4>2. aset.tasks[t] = Known(store[t])
        BY <1>0, <2>1, <4>1 DEF EventsFollow
      <4> QED BY <2>1, <2>2, <3>1, <4>1, <4>2
    <3>2. CASE j \in 1..l
      <4>1. Consecutive(t, 0, j) /\ events'[j] = events[j]
        BY <2>1, <2>4, <2>6, <3>0, <3>2
      <4> QED BY <1>0, <2>0, <2>1, <3>2, <4>1 DEF EventsChain
    <3> QED BY <2>1, <3>1, <3>2
  <2> QED BY <2>0, <2>1, <2>5, <2>6 DEF EventsChain
<1>3. CASE SessionDrops
  BY <1>3 DEF SessionDrops, EventsChain
<1>4. CASE OpenAssignments
  BY <1>4, OpenEffect DEF EventsChain
<1>5. CASE SendBatch
  <2>1. PICK k \in 1..Len(events), b \in ASet :
          /\ b = Batch(aset, events, k) /\ aset'.tasks = b.tasks
          /\ events' = SubSeq(events, k + 1, Len(events))
    BY <1>0, <1>5, SendEffect
  <2>2. /\ Len(events) \in Nat /\ Len(events') = Len(events) - k
        /\ \A i \in 1..Len(events') : i + k \in 1..Len(events) /\ events'[i] = events[i + k]
    BY <2>1, SuffixFacts DEF TypeInv, LeaderTypes
  <2>3. stream
    BY <1>0, <1>5, SendEffect
  <2>4. NextChains(b, t, k)
    BY <2>1, <2>3, BatchDependenciesEffect DEF BatchDependencies
  <2>5. ASSUME NEW i \in 0..Len(events'), NEW j \in 1..Len(events'), Consecutive(t, i, j)'
        PROVE  Consecutive(t, i + k, j + k)
    <3>1. ASSUME NEW m \in ((i + k) + 1)..((j + k) - 1)
          PROVE  /\ m - k \in (i + 1)..(j - 1) /\ m - k \in 1..Len(events')
                 /\ (m - k) + k = m
      BY <2>1, <2>2
    <3>2. ASSUME NEW m \in ((i + k) + 1)..((j + k) - 1) PROVE events[m].task # t
      <4>1. events'[m - k].task # t
        BY <2>5, <3>1 DEF Consecutive
      <4> QED BY <2>2, <3>1, <4>1
    <3>3. events[j + k].task = t
      BY <2>2, <2>5 DEF Consecutive
    <3> QED BY <3>2, <3>3 DEF Consecutive
  <2>6. ASSUME NEW i \in 1..Len(events'), NEW j \in 1..Len(events'), i < j,
               events'[i].task = t, Consecutive(t, i, j)'
        PROVE  Chain(events'[i].new, events'[j].new)
    <3>1. /\ i + k \in 1..Len(events) /\ j + k \in 1..Len(events) /\ i + k < j + k
          /\ events'[i] = events[i + k] /\ events'[j] = events[j + k]
      BY <2>1, <2>2, <2>6, SMTT(20)
    <3>2. Consecutive(t, i + k, j + k)
      BY <2>2, <2>5, <2>6
    <3> QED BY <1>0, <2>3, <2>6, <3>1, <3>2 DEF EventsChain
  <2>7. ASSUME NEW j \in 1..Len(events'), Consecutive(t, 0, j)'
        PROVE  Chain(aset'.tasks[t], events'[j].new)
    <3>1. /\ j + k \in 1..Len(events) /\ k < j + k /\ events'[j] = events[j + k]
          /\ 0 \in 0..Len(events') /\ 0 + k = k
      BY <2>1, <2>2
    <3>2. Consecutive(t, k, j + k)
      BY <2>5, <2>7, <3>1
    <3> QED BY <2>1, <2>4, <3>1, <3>2 DEF NextChains
  <2> QED BY <2>6, <2>7 DEF EventsChain
<1> QED BY <1>0, <1>1, <1>2, <1>3, <1>4, <1>5, LeaderFrame

LEMMA UsingStep ==
  ASSUME TypeInv, [Next]_vars, \A t \in Tasks : EventsFollow(t) /\ EventsChain(t),
         \A r \in Resources : UsingOK(r), NEW r \in Resources
  PROVE  UsingOK(r)'
<1>0. UsingOK(r) /\ \A t \in Tasks : EventsFollow(t)
  OBVIOUS
<1>1. CASE UNCHANGED <<stream, aset>>
  BY <1>0, <1>1 DEF UsingOK, Users
<1>2. ASSUME NEW u \in Tasks, NEW new \in Record, LeaderWrites(u, new)
      PROVE  UNCHANGED <<stream, aset>>
  BY <1>2 DEF LeaderWrites
<1>3. CASE SessionDrops
  BY <1>3 DEF SessionDrops, UsingOK
<1>4. CASE OpenAssignments
  <2>1. /\ \A t \in Tasks : aset'.tasks[t] = Known(store[t])
        /\ aset'.using[r] = {t \in Tasks : store[t].state \in Assigned..Active /\ r \in Deps[t]}
    BY <1>4, OpenEffect
  <2>2. \A t \in Tasks : Live(aset'.tasks[t]) <=> store[t].state \in Assigned..Active
    <3> SUFFICES ASSUME NEW t \in Tasks
                 PROVE  Live(Known(store[t])) <=> store[t].state \in Assigned..Active
      BY <2>1
    <3>1. store[t].state \in 0..4 /\ NoRecord.state = None
      BY TaskTypes DEF NoRecord
    <3> QED BY <3>1 DEF Live, Known, None, Assigned, Active
  <2> QED BY <2>1, <2>2 DEF UsingOK, Users
<1>5. CASE SendBatch
  <2>1. PICK k \in 1..Len(events), b \in ASet :
          /\ b = Batch(aset, events, k) /\ aset'.tasks = b.tasks /\ aset'.using = b.using
    BY <1>0, <1>5, SendEffect
  <2>2. stream
    BY <1>0, <1>5, SendEffect
  <2>3. b.using[r] = Users(b, r)
    BY <2>1, <2>2, BatchDependenciesEffect DEF BatchDependencies
  <2> QED BY <2>1, <2>3 DEF UsingOK, Users
<1> QED BY <1>0, <1>1, <1>2, <1>3, <1>4, <1>5, LeaderFrame

-----------------------------------------------------------------------------
(* What the messages on the way do to the secrets and configs of the node.  *)

Gives(m, k) == m.changes[k].action = "update"

Drops(m, k) ==
  \/ m.changes[k].action = "remove"
  \/ m.complete /\ m.changes[k].action # "update"

(* A node that holds h has r once the first i messages of p are applied.    *)
Avail(h, p, r, i) ==
  \/ r \in h /\ \A k \in 1..i : ~Drops(p[k], r)
  \/ \E j \in 1..i : Gives(p[j], r) /\ \A k \in (j + 1)..i : ~Drops(p[k], r)

LEMMA AvailNext ==
  ASSUME NEW h, NEW p, NEW r, NEW i \in Nat
  PROVE  /\ Avail(h, p, r, 0) <=> r \in h
         /\ Avail(h, p, r, i + 1) <=>
              \/ Gives(p[i + 1], r)
              \/ ~Drops(p[i + 1], r) /\ Avail(h, p, r, i)
<1>1. Avail(h, p, r, 0) <=> r \in h
  BY DEF Avail
<1>2. Gives(p[i + 1], r) => ~Drops(p[i + 1], r)
  BY DEF Gives, Drops
<1>3. /\ \A k \in 1..(i + 1) : k = i + 1 \/ k \in 1..i
      /\ i + 1 \in 1..(i + 1) /\ \A k \in 1..i : k \in 1..(i + 1)
  OBVIOUS
<1>4. ASSUME NEW j \in 1..i
      PROVE  /\ \A k \in (j + 1)..(i + 1) : k = i + 1 \/ k \in (j + 1)..i
             /\ i + 1 \in (j + 1)..(i + 1)
             /\ \A k \in (j + 1)..i : k \in (j + 1)..(i + 1)
  OBVIOUS
<1>5. ((i + 1) + 1)..(i + 1) = {}
  OBVIOUS
<1>6. ASSUME Avail(h, p, r, i + 1), ~Gives(p[i + 1], r)
      PROVE  ~Drops(p[i + 1], r) /\ Avail(h, p, r, i)
  <2>1. CASE r \in h /\ \A k \in 1..(i + 1) : ~Drops(p[k], r)
    BY <1>3, <2>1 DEF Avail
  <2>2. ASSUME NEW j \in 1..(i + 1), Gives(p[j], r),
               \A k \in (j + 1)..(i + 1) : ~Drops(p[k], r)
        PROVE  ~Drops(p[i + 1], r) /\ Avail(h, p, r, i)
    <3>1. j \in 1..i
      BY <1>3, <1>6, <2>2
    <3> QED BY <1>4, <2>2, <3>1 DEF Avail
  <2> QED BY <1>6, <2>1, <2>2 DEF Avail
<1>7. ASSUME Gives(p[i + 1], r) PROVE Avail(h, p, r, i + 1)
  BY <1>3, <1>5, <1>7 DEF Avail
<1>8. ASSUME ~Drops(p[i + 1], r), Avail(h, p, r, i) PROVE Avail(h, p, r, i + 1)
  <2>1. CASE r \in h /\ \A k \in 1..i : ~Drops(p[k], r)
    BY <1>3, <1>8, <2>1 DEF Avail
  <2>2. ASSUME NEW j \in 1..i, Gives(p[j], r), \A k \in (j + 1)..i : ~Drops(p[k], r)
        PROVE  Avail(h, p, r, i + 1)
    BY <1>3, <1>4, <1>8, <2>2 DEF Avail
  <2> QED BY <1>8, <2>1, <2>2 DEF Avail
<1> QED BY <1>1, <1>6, <1>7, <1>8

LEMMA AvailSame ==
  ASSUME NEW h, NEW p, NEW q, NEW r, NEW i \in Nat, \A k \in 1..i : q[k] = p[k]
  PROVE  Avail(h, q, r, i) <=> Avail(h, p, r, i)
<1>1. \A j \in 1..i : \A k \in (j + 1)..i : k \in 1..i
  OBVIOUS
<1> QED BY <1>1 DEF Avail

(* The worker applies the first message.                                    *)
LEMMA AvailShift ==
  ASSUME NEW h, NEW g, NEW p, NEW q, NEW r, NEW n \in Nat, \A i \in 1..n : q[i] = p[i + 1],
         r \in g <=> Gives(p[1], r) \/ (~Drops(p[1], r) /\ r \in h),
         NEW i \in 0..n
  PROVE  Avail(g, q, r, i) <=> Avail(h, p, r, i + 1)
<1>1. ASSUME NEW k \in 1..i PROVE k + 1 \in 1..(i + 1) /\ q[k] = p[k + 1]
  OBVIOUS
<1>2. ASSUME NEW k \in 2..(i + 1) PROVE k - 1 \in 1..i /\ p[k] = q[k - 1]
  <2>1. k - 1 \in 1..i /\ k - 1 \in 1..n /\ (k - 1) + 1 = k
    OBVIOUS
  <2> QED BY <2>1
<1>3. 1 \in 1..(i + 1) /\ 1 + 1 = 2 /\ \A k \in 1..(i + 1) : k = 1 \/ k \in 2..(i + 1)
  OBVIOUS
<1>4. ASSUME Avail(g, q, r, i) PROVE Avail(h, p, r, i + 1)
  <2>1. ASSUME r \in g, \A k \in 1..i : ~Drops(q[k], r) PROVE Avail(h, p, r, i + 1)
    <3>1. \A k \in 2..(i + 1) : ~Drops(p[k], r)
      BY <1>2, <2>1
    <3>2. CASE Gives(p[1], r)
      BY <1>3, <3>1, <3>2 DEF Avail
    <3>3. CASE ~Drops(p[1], r) /\ r \in h
      BY <1>3, <3>1, <3>3 DEF Avail
    <3> QED BY <2>1, <3>2, <3>3
  <2>2. ASSUME NEW j \in 1..i, Gives(q[j], r), \A k \in (j + 1)..i : ~Drops(q[k], r)
        PROVE  Avail(h, p, r, i + 1)
    <3>1. j + 1 \in 1..(i + 1) /\ Gives(p[j + 1], r)
      BY <1>1, <2>2
    <3>2. ASSUME NEW k \in ((j + 1) + 1)..(i + 1) PROVE ~Drops(p[k], r)
      <4>1. k \in 2..(i + 1) /\ k - 1 \in (j + 1)..i
        OBVIOUS
      <4> QED BY <1>2, <2>2, <4>1
    <3> QED BY <3>1, <3>2 DEF Avail
  <2> QED BY <1>4, <2>1, <2>2 DEF Avail
<1>5. ASSUME Avail(h, p, r, i + 1) PROVE Avail(g, q, r, i)
  <2>1. ASSUME r \in g, \A k \in 2..(i + 1) : ~Drops(p[k], r) PROVE Avail(g, q, r, i)
    <3>1. ASSUME NEW k \in 1..i PROVE ~Drops(q[k], r)
      <4>1. k + 1 \in 2..(i + 1)
        OBVIOUS
      <4> QED BY <1>1, <2>1, <4>1
    <3> QED BY <2>1, <3>1 DEF Avail
  <2>2. CASE r \in h /\ \A k \in 1..(i + 1) : ~Drops(p[k], r)
    <3>1. r \in g /\ \A k \in 2..(i + 1) : k \in 1..(i + 1)
      BY <1>3, <2>2
    <3> QED BY <2>1, <2>2, <3>1
  <2>3. ASSUME NEW j \in 1..(i + 1), Gives(p[j], r),
               \A k \in (j + 1)..(i + 1) : ~Drops(p[k], r)
        PROVE  Avail(g, q, r, i)
    <3>1. CASE j = 1
      BY <1>3, <2>1, <2>3, <3>1
    <3>2. CASE j \in 2..(i + 1)
      <4>1. j - 1 \in 1..i /\ Gives(q[j - 1], r)
        BY <1>2, <2>3, <3>2
      <4>2. ASSUME NEW k \in ((j - 1) + 1)..i PROVE ~Drops(q[k], r)
        <5>1. k \in 1..i /\ k + 1 \in (j + 1)..(i + 1)
          BY <3>2
        <5> QED BY <1>1, <2>3, <5>1
      <4> QED BY <4>1, <4>2 DEF Avail
    <3> QED BY <1>3, <3>1, <3>2
  <2> QED BY <1>5, <2>2, <2>3 DEF Avail
<1> QED BY <1>4, <1>5

-----------------------------------------------------------------------------
(* The dependencies of the node follow those of the assignment set.         *)

HeldFollows(r) ==
  stream => (Avail(held, pipe, r, Len(pipe)) <=> aset.using[r] # {} /\ r \notin Missing)

(* A task that has not ended gets its dependencies no later than itself,    *)
(* and they are only dropped while it is not on the node.                   *)
Supplied(t) ==
  stream /\ Live(store[t]) =>
    \A r \in Deps[t] \ Missing, i \in 1..Len(pipe) :
      /\ Gives(pipe[i], t) => Avail(held, pipe, r, i)
      /\ Drops(pipe[i], r) => mgr[t] = NoMgr /\ \A j \in 1..i : ~Gives(pipe[j], t)

SuppliedNow(t) ==
  synced /\ mgr[t] # NoMgr /\ Live(store[t]) => Deps[t] \ Missing \subseteq held

LEMMA HeldFrame ==
  ASSUME [Next]_vars
  PROVE  ReceiveAssignments \/ Crash \/ UNCHANGED <<held, synced>>
<1>1. CASE UNCHANGED vars
  BY <1>1 DEF vars
<1>2. ASSUME NEW u \in Tasks, Schedule(u) \/ SetShutdown(u) \/ DeleteTask(u)
      PROVE  UNCHANGED <<held, synced>>
  BY <1>2 DEF Schedule, SetShutdown, DeleteTask, workerVars
<1>3. ASSUME NEW u \in Tasks, TaskStep(u) \/ TakeStatus(u)
      PROVE  UNCHANGED <<held, synced>>
  BY <1>3 DEF TaskStep, Operate, ReportStatus, TakeStatus, workerVars
<1>4. CASE StreamStep
  BY <1>4 DEF StreamStep, OpenAssignments, SendBatch, workerVars
<1>5. CASE Commit \/ SendStatus \/ Connect \/ Report
  BY <1>5 DEF Commit, SendStatus, Connect, Report, workerVars
<1>6. CASE Break \/ SendFails \/ Restart
  BY <1>6 DEF Break, SendFails, Restart, workerVars
<1> QED BY <1>1, <1>2, <1>3, <1>4, <1>5, <1>6 DEF Next, ReporterStep

LEMMA ReceiveHeld ==
  ASSUME TypeInv, NodeInv, ReceiveAssignments
  PROVE  /\ stream /\ UNCHANGED <<store, stream, events, aset>>
         /\ Len(pipe) \in Nat /\ Len(pipe) >= 1 /\ Len(pipe') = Len(pipe) - 1
         /\ \A i \in 1..Len(pipe') : i + 1 \in 1..Len(pipe) /\ pipe'[i] = pipe[i + 1]
         /\ synced' => synced \/ pipe[1].complete
         /\ \A r \in Resources : r \in held' <=>
              \/ Gives(pipe[1], r)
              \/ ~Drops(pipe[1], r) /\ r \in held
         /\ \A r \in Resources : \A i \in 0..Len(pipe') :
              Avail(held', pipe', r, i) <=> Avail(held, pipe, r, i + 1)
<1>1. /\ pipe \in Seq(Msg) /\ pipe # <<>> /\ pipe' = Tail(pipe)
      /\ synced' = (synced \/ Head(pipe).complete)
      /\ \E bad \in SUBSET Tasks : Reconcile(Head(pipe), bad)
      /\ UNCHANGED <<store, stream, events, aset>>
  BY DEF ReceiveAssignments, TypeInv, LeaderTypes
<1>2. stream
  BY <1>1 DEF TypeInv, Alive, FlagTypes
<1>3. /\ Head(pipe) = pipe[1] /\ pipe[1] \in Msg
      /\ Len(pipe) \in Nat /\ Len(pipe) >= 1 /\ Len(pipe') = Len(pipe) - 1
      /\ \A i \in 1..Len(pipe') : i + 1 \in 1..Len(pipe) /\ pipe'[i] = pipe[i + 1]
  BY <1>1, PipeTail
<1>4. PICK bad \in SUBSET Tasks : Reconcile(pipe[1], bad)
  BY <1>1, <1>3
<1>5. ASSUME NEW r \in Resources
      PROVE  r \in held' <=> Gives(pipe[1], r) \/ (~Drops(pipe[1], r) /\ r \in held)
  <2>1. r \in held' <=>
          \/ pipe[1].changes[r].action = "update"
          \/ ~pipe[1].complete /\ pipe[1].changes[r].action # "remove" /\ r \in held
    BY <1>3, <1>4, ReconcileEffect
  <2> QED BY <2>1 DEF Gives, Drops
<1>6. ASSUME NEW r \in Resources, NEW i \in 0..Len(pipe')
      PROVE  Avail(held', pipe', r, i) <=> Avail(held, pipe, r, i + 1)
  <2>1. Len(pipe') \in Nat
    BY <1>3
  <2>2. PICK g, q, n : g = held' /\ q = pipe' /\ n = Len(pipe')
    OBVIOUS
  <2>3. /\ n \in Nat /\ i \in 0..n /\ \A j \in 1..n : q[j] = pipe[j + 1]
        /\ r \in g <=> Gives(pipe[1], r) \/ (~Drops(pipe[1], r) /\ r \in held)
    BY <1>3, <1>5, <2>1, <2>2
  <2>4. Avail(g, q, r, i) <=> Avail(held, pipe, r, i + 1)
    BY <2>3, AvailShift
  <2> QED BY <2>2, <2>4
<1> QED BY <1>1, <1>2, <1>3, <1>5, <1>6

LEMMA HeldFollowsStep ==
  ASSUME TypeInv, NodeInv, [Next]_vars, \A t \in Tasks : EventsFollow(t) /\ EventsChain(t),
         \A r \in Resources : UsingOK(r), NEW r \in Resources, HeldFollows(r)
  PROVE  HeldFollows(r)'
<1> SUFFICES ASSUME stream'
             PROVE  Avail(held', pipe', r, Len(pipe')) <=> aset'.using[r] # {} /\ r \notin Missing
  BY DEF HeldFollows
<1>0. \A t \in Tasks : EventsFollow(t)
  OBVIOUS
<1>1. CASE ReceiveAssignments
  <2>1. /\ stream /\ aset' = aset /\ Len(pipe) \in Nat /\ Len(pipe) >= 1
        /\ Len(pipe') = Len(pipe) - 1
        /\ \A i \in 0..Len(pipe') : Avail(held', pipe', r, i) <=> Avail(held, pipe, r, i + 1)
    BY <1>1, ReceiveHeld
  <2>2. Len(pipe') \in 0..Len(pipe') /\ Len(pipe') + 1 = Len(pipe)
    BY <2>1
  <2>3. Avail(held', pipe', r, Len(pipe')) <=> Avail(held, pipe, r, Len(pipe))
    BY <2>1, <2>2
  <2> QED BY <2>1, <2>3 DEF HeldFollows
<1>2. CASE ~ReceiveAssignments
  <2>0. held' = held
    <3>1. ~Crash
      BY DEF Crash, DropSession
    <3> QED BY <1>2, <3>1, HeldFrame
  <2>1. CASE UNCHANGED <<stream, aset, pipe>>
    BY <2>0, <2>1 DEF HeldFollows
  <2>2. ASSUME NEW u \in Tasks, NEW new \in Record, LeaderWrites(u, new)
        PROVE  UNCHANGED <<stream, aset, pipe>>
    BY <2>2 DEF LeaderWrites
  <2>3. ~SessionDrops
    BY DEF SessionDrops
  <2>4. CASE OpenAssignments
    <3>1. /\ Len(pipe') = 1 /\ pipe'[1].complete
          /\ pipe'[1].changes[r] = IF aset'.using[r] # {} /\ r \notin Missing
                                   THEN Update(NoRecord) ELSE NoChange
      BY <2>4, OpenEffect
    <3>2. PICK q : q = pipe'
      OBVIOUS
    <3>3. /\ Gives(q[1], r) <=> aset'.using[r] # {} /\ r \notin Missing
          /\ Gives(q[1], r) \/ Drops(q[1], r)
      BY <3>1, <3>2 DEF Gives, Drops, Update, NoChange
    <3>4. 0 \in Nat /\ 0 + 1 = 1
      OBVIOUS
    <3>5. Avail(held, q, r, 1) <=> Gives(q[1], r)
      BY <3>3, <3>4, AvailNext
    <3> QED BY <2>0, <3>1, <3>2, <3>3, <3>5
  <2>5. CASE SendBatch
    <3>1. PICK k \in 1..Len(events), b \in ASet :
            /\ b = Batch(aset, events, k) /\ aset'.using = b.using
            /\ pipe' = IF b.changes = NoChanges THEN pipe
                       ELSE Append(pipe, [complete |-> FALSE, changes |-> b.changes])
      BY <1>0, <2>5, SendEffect
    <3>2. stream
      BY <1>0, <2>5, SendEffect
    <3>3. DependencyChange(b, r)
      BY <3>1, <3>2, BatchDependenciesEffect DEF BatchDependencies
    <3>4. /\ Len(pipe) \in Nat /\ \A i \in 1..Len(pipe) : pipe'[i] = pipe[i]
          /\ \/ pipe' = pipe /\ b.changes[r] = NoChange
             \/ /\ Len(pipe') = Len(pipe) + 1
                /\ pipe'[Len(pipe) + 1].complete = FALSE
                /\ pipe'[Len(pipe) + 1].changes = b.changes
      BY <3>1, SendPipe, KeyTypes
    <3>5. CASE pipe' = pipe /\ b.changes[r] = NoChange
      <4>1. r \in Missing \/ (b.using[r] = {} <=> aset.using[r] = {})
        BY <3>3, <3>5 DEF DependencyChange, NoChange
      <4> QED BY <2>0, <3>1, <3>2, <3>5, <4>1 DEF HeldFollows
    <3>6. CASE /\ Len(pipe') = Len(pipe) + 1
               /\ pipe'[Len(pipe) + 1].complete = FALSE
               /\ pipe'[Len(pipe) + 1].changes = b.changes
      <4>1. PICK q, l : q = pipe' /\ l = Len(pipe)
        OBVIOUS
      <4>2. /\ Avail(held, q, r, l) <=> Avail(held, pipe, r, l)
            /\ Avail(held, q, r, l + 1) <=>
                 Gives(q[l + 1], r) \/ (~Drops(q[l + 1], r) /\ Avail(held, q, r, l))
        BY <3>4, <4>1, AvailSame, AvailNext
      <4>3. /\ Gives(q[l + 1], r) <=> b.changes[r].action = "update"
            /\ Drops(q[l + 1], r) <=> b.changes[r].action = "remove"
        BY <3>6, <4>1 DEF Gives, Drops
      <4>4. b.changes[r].action \in {"none", "update", "remove"}
        BY <3>1, KeyTypes DEF ASet, Changes, ChangeOf
      <4>5. Avail(held, pipe, r, l) <=> aset.using[r] # {} /\ r \notin Missing
        BY <3>2, <4>1 DEF HeldFollows
      <4>6. Avail(held, q, r, l + 1) <=> b.using[r] # {} /\ r \notin Missing
        BY <3>3, <4>2, <4>3, <4>4, <4>5 DEF DependencyChange
      <4> QED BY <2>0, <3>1, <3>6, <4>1, <4>6
    <3> QED BY <3>4, <3>5, <3>6
  <2> QED BY <1>2, <2>1, <2>2, <2>3, <2>4, <2>5, LeaderFrame
<1> QED BY <1>1, <1>2

(* A task that the assignment set does not have yet is neither on the node  *)
(* nor on its way.                                                          *)
LEMMA Absent ==
  ASSUME TypeInv, stream, CompleteFirst, NEW t \in Tasks, PipeFollows(t), Wanted(t),
         store[t].state # None, aset.tasks[t].state = None
  PROVE  mgr[t] = NoMgr /\ \A j \in 1..Len(pipe) : ~Gives(pipe[j], t)
<1>0. Len(pipe) \in Nat
  BY DEF TypeInv, LeaderTypes
<1>1. CASE Unmentioned(t)
  <2>1. mgr[t] = NoMgr
    BY <1>1 DEF PipeFollows, OnNode
  <2>2. \A j \in 1..Len(pipe) : pipe[j].changes[t].action = "none"
    BY <1>1 DEF Unmentioned, Mentions
  <2> QED BY <2>1, <2>2 DEF Gives
<1>2. CASE ~Unmentioned(t)
  <2> DEFINE T == {n \in Nat : \E i \in 1..Len(pipe) : n = Len(pipe) - i /\ Mentions(pipe[i], t)}
  <2>1. T # {}
    <3>1. PICK i \in 1..Len(pipe) : Mentions(pipe[i], t)
      BY <1>2 DEF Unmentioned
    <3>2. Len(pipe) - i \in T
      BY <1>0, <3>1
    <3> QED BY <3>2
  <2>2. T \subseteq Nat
    OBVIOUS
  <2>3. PICK n \in T : \A m \in T : ~(m < n)
    <3> HIDE DEF T
    <3> QED BY <2>1, <2>2, Least
  <2>4. PICK i \in 1..Len(pipe) : n = Len(pipe) - i /\ Mentions(pipe[i], t)
    BY <2>3
  <2>5. ASSUME NEW j \in (i + 1)..Len(pipe) PROVE ~Mentions(pipe[j], t)
    <3>1. j \in 1..Len(pipe) /\ Len(pipe) - j \in Nat /\ Len(pipe) - j < n
      BY <1>0, <2>4
    <3>2. Mentions(pipe[j], t) => Len(pipe) - j \in T
      BY <3>1
    <3> QED BY <2>3, <3>1, <3>2
  <2>6. LastMention(t, i)
    BY <2>4, <2>5 DEF LastMention
  <2>7. pipe[i].changes[t].action # "update"
    BY <2>6 DEF PipeFollows, Tells
  <2>8. pipe[i].changes[t].action # "remove"
    BY DEF Wanted
  <2>9. pipe[i].changes[t].action \in {"none", "update", "remove"}
    <3>1. pipe[i] \in Msg
      BY DEF TypeInv, LeaderTypes
    <3> QED BY <3>1, KeyTypes DEF Msg, Changes, ChangeOf
  <2>10. pipe[i].complete /\ i = 1
    BY <2>4, <2>7, <2>8, <2>9 DEF Mentions, CompleteFirst
  <2>11. mgr[t] = NoMgr
    BY <2>7, <2>10 DEF Wanted
  <2>12. ASSUME NEW j \in 1..Len(pipe) PROVE ~Gives(pipe[j], t)
    <3>1. CASE j = i
      BY <2>7, <3>1 DEF Gives
    <3>2. CASE j \in (i + 1)..Len(pipe)
      BY <2>5, <3>2 DEF Gives, Mentions
    <3> QED BY <1>0, <2>10, <3>1, <3>2
  <2> QED BY <2>11, <2>12
<1> QED BY <1>1, <1>2

(* A task that has not ended had not ended before, or was not assigned yet. *)
LEMMA LiveBefore ==
  ASSUME TypeInv, [Next]_vars, NEW t \in Tasks, Live(store'[t])
  PROVE  Live(store[t]) \/ store[t].state = Pending
<1>1. store'[t].state # None /\ store'[t].state <= Active
  BY DEF Live, None, Assigned, Active
<1>2. /\ store[t].state \in 0..4 /\ store[t].state # None
      /\ store'[t].state \in 0..4 /\ store'[t].state >= store[t].state
  BY <1>1, TaskTypes, StoreForward
<1> QED BY <1>1, <1>2 DEF Live, None, Pending, Assigned, Active

LEMMA SuppliedStep ==
  ASSUME AgreeInv, [Next]_vars, \A t \in Tasks : EventsChain(t),
         \A r \in Resources : UsingOK(r) /\ HeldFollows(r), NEW t \in Tasks, Supplied(t)
  PROVE  Supplied(t)'
<1> SUFFICES ASSUME stream', Live(store'[t]), NEW r \in Deps[t] \ Missing,
                    NEW i \in 1..Len(pipe')
             PROVE  /\ Gives(pipe'[i], t) => Avail(held', pipe', r, i)
                    /\ Drops(pipe'[i], r) =>
                         mgr'[t] = NoMgr /\ \A j \in 1..i : ~Gives(pipe'[j], t)
  BY DEF Supplied, Live, Gives, Drops, Avail
<1>0. /\ TypeInv /\ NodeInv /\ CompleteFirst /\ r \in Resources
      /\ \A u \in Tasks : EventsFollow(u) /\ EventsChain(u)
      /\ FreshStream(t) /\ FreshNode(t) /\ PipeFollows(t) /\ Wanted(t)
  BY KeyTypes DEF AgreeInv, AgreeTask
<1>l. Live(store[t]) \/ store[t].state = Pending
  BY <1>0, LiveBefore
<1>f. ASSUME store[t].state = Pending, NEW j \in 1..Len(pipe)
      PROVE  ~Gives(pipe[j], t) /\ mgr[t] = NoMgr
  BY <1>0, <1>f DEF FreshStream, FreshNode, Gives, NoChange
<1>1. CASE ReceiveAssignments
  <2>1. /\ stream /\ store' = store /\ Len(pipe) \in Nat /\ Len(pipe) >= 1
        /\ Len(pipe') = Len(pipe) - 1
        /\ \A j \in 1..Len(pipe') : j + 1 \in 1..Len(pipe) /\ pipe'[j] = pipe[j + 1]
        /\ \A j \in 0..Len(pipe') : Avail(held', pipe', r, j) <=> Avail(held, pipe, r, j + 1)
    BY <1>0, <1>1, ReceiveHeld
  <2>2. /\ pipe[1].changes[t].action # "update" /\ mgr[t] = NoMgr => mgr'[t] = NoMgr
    BY <1>0, <1>1, ReceiveEffect
  <2>3. /\ i + 1 \in 1..Len(pipe) /\ pipe'[i] = pipe[i + 1] /\ i \in 0..Len(pipe')
        /\ 1 \in 1..(i + 1) /\ \A j \in 1..i : j + 1 \in 1..(i + 1) /\ j \in 1..Len(pipe')
    BY <2>1
  <2>4. Gives(pipe'[i], t) => Avail(held', pipe', r, i)
    BY <2>1, <2>3 DEF Supplied
  <2>5. ASSUME Drops(pipe'[i], r)
        PROVE  mgr'[t] = NoMgr /\ \A j \in 1..i : ~Gives(pipe'[j], t)
    <3>1. mgr[t] = NoMgr /\ \A j \in 1..(i + 1) : ~Gives(pipe[j], t)
      BY <2>1, <2>3, <2>5 DEF Supplied
    <3>2. mgr'[t] = NoMgr
      BY <2>2, <2>3, <3>1 DEF Gives
    <3>3. \A j \in 1..i : ~Gives(pipe'[j], t)
      BY <2>1, <2>3, <3>1
    <3> QED BY <3>2, <3>3
  <2> QED BY <2>4, <2>5
<1>2. CASE ~ReceiveAssignments
  <2>m. mgr'[t] = NoMgr <=> mgr[t] = NoMgr
    BY <1>0, <1>2, NodeKeeps
  <2>h. held' = held
    <3>1. ~Crash
      BY DEF Crash, DropSession
    <3> QED BY <1>2, <3>1, HeldFrame
  <2>1. ASSUME stream, NEW q, NEW k \in 1..Len(pipe), \A j \in 1..Len(pipe) : q[j] = pipe[j]
        PROVE  /\ Gives(q[k], t) => Avail(held, q, r, k)
               /\ Drops(q[k], r) => mgr[t] = NoMgr /\ \A j \in 1..k : ~Gives(q[j], t)
    <3>1. Len(pipe) \in Nat /\ k \in Nat
      BY <1>0 DEF TypeInv, LeaderTypes
    <3>2. q[k] = pipe[k] /\ \A j \in 1..k : q[j] = pipe[j] /\ j \in 1..Len(pipe)
      BY <2>1, <3>1
    <3>3. Avail(held, q, r, k) <=> Avail(held, pipe, r, k)
      BY <3>1, <3>2, AvailSame
    <3>4. CASE Live(store[t])
      BY <2>1, <3>2, <3>3, <3>4 DEF Supplied
    <3>5. CASE store[t].state = Pending
      BY <1>f, <3>2, <3>5
    <3> QED BY <1>l, <3>4, <3>5
  <2>2. CASE UNCHANGED <<stream, pipe>>
    <3>1. /\ Gives(pipe[i], t) => Avail(held, pipe, r, i)
          /\ Drops(pipe[i], r) => mgr[t] = NoMgr /\ \A j \in 1..i : ~Gives(pipe[j], t)
      BY <2>1, <2>2
    <3> QED BY <2>2, <2>h, <2>m, <3>1
  <2>3. ASSUME NEW u \in Tasks, NEW new \in Record, LeaderWrites(u, new)
        PROVE  UNCHANGED <<stream, pipe>>
    BY <2>3 DEF LeaderWrites
  <2>4. ~SessionDrops
    BY DEF SessionDrops
  <2>5. CASE OpenAssignments
    <3>1. /\ Len(pipe') = 1 /\ pipe'[1].complete /\ store' = store
          /\ aset'.using[r] = {u \in Tasks : store[u].state \in Assigned..Active /\ r \in Deps[u]}
          /\ pipe'[1].changes[r] = IF aset'.using[r] # {} /\ r \notin Missing
                                   THEN Update(NoRecord) ELSE NoChange
      BY <1>0, <2>5, OpenEffect
    <3>2. t \in aset'.using[r] /\ i = 1
      BY <3>1 DEF Live
    <3>3. PICK q : q = pipe'
      OBVIOUS
    <3>4. Gives(q[1], r) /\ ~Drops(q[1], r)
      BY <3>1, <3>2, <3>3 DEF Gives, Drops, Update
    <3>5. 0 \in Nat /\ 0 + 1 = 1
      OBVIOUS
    <3>6. Avail(held, q, r, 1)
      BY <3>4, <3>5, AvailNext
    <3> QED BY <2>h, <3>2, <3>3, <3>4, <3>6
  <2>6. CASE SendBatch
    <3>1. PICK k \in 1..Len(events), b \in ASet :
            /\ b = Batch(aset, events, k) /\ BatchTask(b, t, k) /\ aset'.using = b.using
            /\ pipe' = IF b.changes = NoChanges THEN pipe
                       ELSE Append(pipe, [complete |-> FALSE, changes |-> b.changes])
      BY <1>0, <2>6, SendEffect
    <3>2. stream /\ store' = store
      BY <1>0, <2>6, SendEffect
    <3>3. b.using[r] = Users(b, r) /\ DependencyChange(b, r)
      BY <1>0, <3>1, <3>2, BatchDependenciesEffect DEF BatchDependencies
    <3>4. /\ Len(pipe) \in Nat /\ \A j \in 1..Len(pipe) : pipe'[j] = pipe[j]
          /\ \/ pipe' = pipe
             \/ /\ Len(pipe') = Len(pipe) + 1
                /\ pipe'[Len(pipe) + 1].complete = FALSE
                /\ pipe'[Len(pipe) + 1].changes = b.changes
      BY <1>0, <3>1, SendPipe
    <3>5. PICK q : q = pipe'
      OBVIOUS
    <3>6. CASE i \in 1..Len(pipe)
      <4>1. /\ Gives(q[i], t) => Avail(held, q, r, i)
            /\ Drops(q[i], r) => mgr[t] = NoMgr /\ \A j \in 1..i : ~Gives(q[j], t)
        BY <2>1, <3>2, <3>4, <3>5, <3>6
      <4> QED BY <2>h, <2>m, <3>5, <4>1
    <3>7. CASE ~(i \in 1..Len(pipe))
      <4>1. /\ i = Len(pipe) + 1 /\ Len(pipe') = i
            /\ q[i].complete = FALSE /\ q[i].changes = b.changes
        BY <3>4, <3>5, <3>7
      <4>2. /\ store[t].state \in 0..4 /\ store[t].state # None /\ store[t].state <= Active
            /\ b.tasks[t].state \in 0..4 /\ NoRecord.state = None
            /\ b.changes[t].action \in {"none", "update", "remove"}
        <5>1. store[t].state \in 0..4 /\ store[t].state # None /\ store[t].state <= Active
          BY <1>0, <3>2, TaskTypes DEF Live, None, Assigned, Active
        <5>2. b.tasks[t].state \in 0..4 /\ NoRecord.state = None
          BY <3>1 DEF ASet, Record, None, Final, NoRecord
        <5>3. b.changes[t].action \in {"none", "update", "remove"}
          BY <3>1, KeyTypes DEF ASet, Changes, ChangeOf
        <5> QED BY <5>1, <5>2, <5>3
      <4>3. b.tasks[t].state # None => Live(b.tasks[t]) /\ b.using[r] # {}
        <5>1. b.tasks[t].state # None => Live(b.tasks[t])
          BY <3>1, <4>2 DEF BatchTask, Live, Assigned, Active, None
        <5> QED BY <3>3, <5>1 DEF Users
      <4>4. Gives(q[i], t) => Avail(held, q, r, i)
        <5>1. HeldFollows(r)'
          BY <1>0, HeldFollowsStep
        <5>2. b.using[r] # {} => Avail(held, q, r, i)
          BY <2>h, <3>1, <3>5, <4>1, <5>1 DEF HeldFollows
        <5>3. Gives(q[i], t) => b.tasks[t].state # None
          BY <3>1, <4>1 DEF Gives, BatchTask
        <5> QED BY <4>3, <5>2, <5>3
      <4>5. ASSUME Drops(q[i], r)
            PROVE  mgr[t] = NoMgr /\ \A j \in 1..i : ~Gives(q[j], t)
        <5>1. b.changes[r].action = "remove"
          BY <4>1, <4>5 DEF Drops
        <5>2. b.tasks[t].state = None
          BY <3>3, <4>3, <5>1 DEF DependencyChange
        <5>3. b.changes[t].action = "none"
          BY <3>1, <4>2, <5>2 DEF BatchTask
        <5>4. aset.tasks[t].state = None
          BY <3>1, <5>2, <5>3 DEF BatchTask
        <5>5. mgr[t] = NoMgr /\ \A j \in 1..Len(pipe) : ~Gives(pipe[j], t)
          BY <1>0, <3>2, <4>2, <5>4, Absent
        <5>6. ASSUME NEW j \in 1..i PROVE ~Gives(q[j], t)
          <6>1. CASE j = i
            BY <4>1, <5>3, <6>1 DEF Gives
          <6>2. CASE j \in 1..Len(pipe)
            BY <3>4, <3>5, <5>5, <6>2
          <6> QED BY <3>4, <4>1, <6>1, <6>2
        <5> QED BY <5>5, <5>6
      <4> QED BY <2>h, <2>m, <3>5, <4>4, <4>5
    <3> QED BY <3>6, <3>7
  <2> QED BY <1>0, <1>2, <2>2, <2>3, <2>4, <2>5, <2>6, LeaderFrame
<1> QED BY <1>1, <1>2

LEMMA SuppliedNowStep ==
  ASSUME AgreeInv, [Next]_vars, NEW t \in Tasks, Supplied(t), SuppliedNow(t)
  PROVE  SuppliedNow(t)'
<1> SUFFICES ASSUME synced', mgr'[t] # NoMgr, Live(store'[t]), NEW r \in Deps[t] \ Missing
             PROVE  r \in held'
  BY DEF SuppliedNow, Live, NoMgr, NoRecord
<1>0. TypeInv /\ NodeInv /\ r \in Resources /\ FreshNode(t)
  BY KeyTypes DEF AgreeInv, AgreeTask
<1>l. Live(store[t]) \/ mgr[t] = NoMgr
  BY <1>0, LiveBefore DEF FreshNode
<1>1. CASE ReceiveAssignments
  <2>1. /\ stream /\ store' = store /\ Len(pipe) \in Nat /\ Len(pipe) >= 1
        /\ synced' => synced \/ pipe[1].complete
        /\ r \in held' <=> Gives(pipe[1], r) \/ (~Drops(pipe[1], r) /\ r \in held)
    BY <1>0, <1>1, ReceiveHeld
  <2>2. /\ 1 \in 1..Len(pipe) /\ 1 \in 1..1 /\ 0 \in Nat /\ 0 + 1 = 1
    BY <2>1
  <2>3. CASE Gives(pipe[1], t)
    <3>1. Avail(held, pipe, r, 1)
      BY <2>1, <2>2, <2>3 DEF Supplied
    <3>2. Gives(pipe[1], r) \/ (~Drops(pipe[1], r) /\ r \in held)
      BY <2>2, <3>1, AvailNext
    <3> QED BY <2>1, <3>2
  <2>4. CASE ~Gives(pipe[1], t)
    <3>1. /\ Gone(t, pipe[1]) => mgr'[t] = NoMgr
          /\ ~Gone(t, pipe[1]) => mgr'[t] = mgr[t]
      BY <1>0, <1>1, <2>4, ReceiveEffect DEF Gives
    <3>2. ~Gone(t, pipe[1]) /\ mgr[t] # NoMgr
      BY <3>1
    <3>3. ~pipe[1].complete
      BY <2>4, <3>2 DEF Gone, Gives
    <3>4. r \in held
      BY <2>1, <3>2, <3>3 DEF SuppliedNow
    <3>5. ~Drops(pipe[1], r)
      BY <2>1, <2>2, <3>2 DEF Supplied
    <3> QED BY <2>1, <3>4, <3>5
  <2> QED BY <2>3, <2>4
<1>2. CASE ~ReceiveAssignments
  <2>1. ~Crash
    BY DEF Crash
  <2>2. UNCHANGED <<held, synced>>
    BY <1>2, <2>1, HeldFrame
  <2>3. ~Restart
    BY <1>0, <2>2 DEF Restart, TypeInv, Alive
  <2>4. mgr[t] # NoMgr
    BY <1>0, <1>2, <2>1, <2>3, PresenceKept
  <2> QED BY <1>l, <2>2, <2>4 DEF SuppliedNow
<1> QED BY <1>1, <1>2

-----------------------------------------------------------------------------

DependencyInv ==
  /\ AgreeInv
  /\ \A t \in Tasks : EventsChain(t) /\ Supplied(t) /\ SuppliedNow(t)
  /\ \A r \in Resources : UsingOK(r) /\ HeldFollows(r)

LEMMA DependencyInit == Init => DependencyInv
<1> SUFFICES ASSUME Init PROVE DependencyInv
  OBVIOUS
<1>1. AgreeInv
  BY AgreeInit
<1>2. stream = FALSE /\ synced = FALSE
  BY DEF Init
<1> QED BY <1>1, <1>2 DEF DependencyInv, EventsChain, Supplied, SuppliedNow, UsingOK, HeldFollows

LEMMA DependencyStep == DependencyInv /\ [Next]_vars => DependencyInv'
<1> SUFFICES ASSUME DependencyInv, [Next]_vars PROVE DependencyInv'
  OBVIOUS
<1>1. /\ AgreeInv /\ TypeInv /\ NodeInv
      /\ \A t \in Tasks : EventsFollow(t) /\ EventsChain(t) /\ Supplied(t) /\ SuppliedNow(t)
      /\ \A r \in Resources : UsingOK(r) /\ HeldFollows(r)
  BY DEF DependencyInv, AgreeInv, AgreeTask
<1>2. AgreeInv'
  BY <1>1, AgreeStep
<1>3. ASSUME NEW t \in Tasks PROVE EventsChain(t)' /\ Supplied(t)' /\ SuppliedNow(t)'
  BY <1>1, EventsChainStep, SuppliedStep, SuppliedNowStep
<1>4. ASSUME NEW r \in Resources PROVE UsingOK(r)' /\ HeldFollows(r)'
  BY <1>1, UsingStep, HeldFollowsStep
<1> QED BY <1>2, <1>3, <1>4 DEF DependencyInv

(* The invariant of the reference counts: assignmentSet counts as users of  *)
(* a secret or config exactly the tasks that have not ended, and what the   *)
(* node will hold once it has had all that was sent is what is in use.      *)
THEOREM DependencyInvariant == Spec => []DependencyInv
BY DependencyInit, DependencyStep, PTL DEF Spec

(* A node has what its tasks need, and no more: addTaskDependencies and     *)
(* releaseTaskDependencies count the users of each secret and config, the   *)
(* worker applies dependencies before tasks, so that once it has had a      *)
(* complete set a task that has not ended finds all it refers to that the   *)
(* leader can read; and when nothing is on its way nothing is held for a    *)
(* task that has ended.                                                     *)
THEOREM DependenciesAlwaysKept == Spec => []DependenciesKept
<1>1. DependencyInv => DependenciesKept
  <2> SUFFICES ASSUME DependencyInv PROVE DependenciesKept
    OBVIOUS
  <2>1. /\ \A t \in Tasks : EventsFollow(t) /\ SuppliedNow(t)
        /\ \A r \in Resources : UsingOK(r) /\ HeldFollows(r)
        /\ held \subseteq Resources
    BY DEF DependencyInv, AgreeInv, AgreeTask, TypeInv, WorkerTypes
  <2>2. DependenciesHeld
    BY <2>1 DEF DependenciesHeld, SuppliedNow, Live
  <2>3. HeldForATask
    <3> SUFFICES ASSUME stream, events = <<>>, pipe = <<>>, NEW r \in held
                 PROVE  \E t \in Tasks : r \in Deps[t] /\ store[t].state \in Assigned..Active
      BY DEF HeldForATask
    <3>1. Len(pipe) = 0 /\ 0 \in Nat /\ r \in Resources
      BY <2>1
    <3>2. Avail(held, pipe, r, Len(pipe))
      BY <3>1, AvailNext
    <3>3. PICK t \in Tasks : r \in Deps[t] /\ Live(aset.tasks[t])
      BY <2>1, <3>1, <3>2 DEF HeldFollows, UsingOK, Users
    <3>4. aset.tasks[t] = Known(store[t])
      BY <2>1 DEF EventsFollow, NoEvent
    <3>5. store[t].state \in Assigned..Active
      BY <3>3, <3>4 DEF Live, Known, NoRecord, None, Assigned, Active
    <3> QED BY <3>3, <3>5
  <2> QED BY <2>2, <2>3 DEF DependenciesKept
<1> QED BY <1>1, DependencyInvariant, PTL
=============================================================================
