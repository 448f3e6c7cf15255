------------------------ MODULE AssignmentsProofs ------------------------
(***************************************************************************)
(* Proofs about Assignments, for any tasks, secrets and configs, any       *)
(* number of changes and of faults.                                        *)
(***************************************************************************)
EXTENDS Assignments, FiniteSetTheorems, SequenceTheorems, NaturalsInduction,
        WellFoundedInduction, TLAPS

-----------------------------------------------------------------------------
(* The batching loop.                                                       *)

(* A non-empty set of numbers has a least one.                              *)
LEMMA Least ==
  ASSUME NEW T, T \subseteq Nat, T # {}
  PROVE  \E x \in T : \A y \in T : ~(y < x)
<1>1. \E x \in T : \A y \in T : ~(<<y, x>> \in OpToRel(<, Nat))
  BY NatLessThanWellFounded, WFMin
<1> QED BY <1>1 DEF OpToRel

IsBatch(f, a, queue, k) ==
  f = [i \in 0..k |-> IF i = 0 THEN a ELSE Apply(f[i - 1], queue[i])]

(* The recursive function of Batch exists.                                  *)
LEMMA BatchExists ==
  ASSUME NEW a, NEW queue, NEW k \in Nat
  PROVE  \E f : IsBatch(f, a, queue, k)
<1> DEFINE T == {j \in Nat : ~\E f : IsBatch(f, a, queue, j)}
<1> SUFFICES ASSUME T # {} PROVE FALSE
  OBVIOUS
<1>1. PICK j \in T : \A i \in T : ~(i < j)
  BY Least
<1>2. j # 0
  <2>1. IsBatch([i \in 0..0 |-> a], a, queue, 0)
    BY DEF IsBatch
  <2> QED BY <1>1, <2>1
<1>3. j - 1 \in Nat /\ j - 1 \notin T
  BY <1>1, <1>2
<1>4. PICK f : IsBatch(f, a, queue, j - 1)
  BY <1>3
<1> DEFINE g == [i \in 0..j |-> IF i = 0 THEN a ELSE Apply(f[i - 1], queue[i])]
<1>5. \A i \in 0..(j - 1) : g[i] = f[i]
  BY <1>3, <1>4 DEF IsBatch
<1>6. \A i \in 0..j : i # 0 => g[i - 1] = f[i - 1]
  BY <1>3, <1>5
<1>7. IsBatch(g, a, queue, j)
  <2> HIDE DEF g
  <2>1. g = [i \in 0..j |-> IF i = 0 THEN a ELSE Apply(g[i - 1], queue[i])]
    BY <1>6 DEF g
  <2> QED BY <2>1 DEF IsBatch
<1> QED BY <1>1, <1>7

(* Induction over a batch: what the set satisfies before the first event    *)
(* and each event hands on, it satisfies after the last one.                *)
LEMMA BatchInduction ==
  ASSUME NEW a, NEW queue, NEW k \in Nat, NEW S, a \in S[0],
         \A i \in 1..k : \A b \in S[i - 1] : Apply(b, queue[i]) \in S[i]
  PROVE  Batch(a, queue, k) \in S[k]
<1> DEFINE f == CHOOSE f : IsBatch(f, a, queue, k)
<1>1. IsBatch(f, a, queue, k)
  BY BatchExists
<1>2. Batch(a, queue, k) = f[k]
  BY DEF Batch, IsBatch
<1> HIDE DEF f
<1> DEFINE T == {i \in 0..k : f[i] \notin S[i]}
<1>3. ASSUME T # {} PROVE FALSE
  <2>1. PICK j \in T : \A i \in T : ~(i < j)
    <3>1. T \subseteq Nat
      OBVIOUS
    <3> QED BY <1>3, <3>1, Least
  <2>2. f[0] = a
    BY <1>1 DEF IsBatch
  <2>3. j \in 1..k /\ j - 1 \in 0..k
    BY <2>1, <2>2
  <2>4. f[j - 1] \in S[j - 1]
    BY <2>1, <2>3
  <2>5. f[j] = Apply(f[j - 1], queue[j])
    BY <1>1, <2>3 DEF IsBatch
  <2> QED BY <2>1, <2>3, <2>4, <2>5
<1> QED BY <1>2, <1>3

-----------------------------------------------------------------------------
(* Types.                                                                   *)

Event == [task : Tasks, new : Record]
Keys == Tasks \cup Resources
ChangeOf == [action : {"none", "update", "remove"}, task : Record]
Changes == {c \in [Keys -> ChangeOf] :
              \A t \in Tasks : c[t].action = "update" => c[t].task.state >= Assigned}
ASet == [tasks : [Tasks -> Record], using : [Resources -> SUBSET Tasks],
         changes : Changes]
Msg == [complete : BOOLEAN, changes : Changes]
Kinds == {"changes", "crashes", "breaks", "rejects"}

LeaderTypes ==
  /\ store \in [Tasks -> Record] /\ events \in Seq(Event)
  /\ aset \in ASet /\ aset.changes = NoChanges /\ pipe \in Seq(Msg)

WorkerTypes ==
  /\ db \in [Tasks -> Record] /\ mgr \in [Tasks -> Record]
  /\ tx \in [Tasks -> Record] \cup {NoTx}
  /\ pending \in [Tasks -> {None, Assigned, Active, Final}] /\ held \subseteq Resources

ReporterTypes ==
  /\ rq \in [Tasks -> None..Final]
  /\ sending \in [task : Tasks \cup {NoTask}, state : None..Final]
  /\ sending = NoSend \/ sending.task \in Tasks

FlagTypes ==
  /\ stream \in BOOLEAN /\ up \in BOOLEAN /\ session \in BOOLEAN
  /\ synced \in BOOLEAN /\ reporting \in BOOLEAN

UsedTypes == used \in [Kinds -> Nat]

(* A stream belongs to a session and a session to a running agent; nothing  *)
(* is under way without them.                                               *)
Alive ==
  /\ stream => session
  /\ session => up
  /\ synced => up
  /\ ~stream => events = <<>> /\ pipe = <<>> /\ aset = EmptySet
  /\ ~up => tx = NoTx /\ \A t \in Tasks : mgr[t] = NoMgr

TypeInv ==
  LeaderTypes /\ WorkerTypes /\ ReporterTypes /\ FlagTypes /\ UsedTypes /\ Alive

(* The constants of the model have their types.                             *)
LEMMA ConstantTypes ==
  /\ NoRecord \in Record /\ NoMgr = NoRecord /\ NoChange \in ChangeOf
  /\ NoChanges \in Changes /\ EmptySet \in ASet /\ EmptySet.changes = NoChanges
  /\ NoSend \in [task : Tasks \cup {NoTask}, state : None..Final]
  /\ Removal \in ChangeOf /\ \A task \in Record : Update(task) \in ChangeOf
<1>1. NoRecord \in Record /\ NoMgr = NoRecord
  BY DEF NoRecord, NoMgr, Record, None, Run, Shut, Final
<1>2. NoChange \in ChangeOf
  BY <1>1 DEF NoChange, ChangeOf
<1>3. NoChanges \in Changes
  <2>1. NoChange.action # "update"
    BY DEF NoChange
  <2> QED BY <1>2, <2>1 DEF NoChanges, Changes, Keys
<1>4. EmptySet \in ASet /\ EmptySet.changes = NoChanges
  BY <1>1, <1>3 DEF EmptySet, ASet
<1>5. NoSend \in [task : Tasks \cup {NoTask}, state : None..Final]
  BY DEF NoSend, None, Final
<1>6. Removal \in ChangeOf /\ \A task \in Record : Update(task) \in ChangeOf
  BY <1>1 DEF Removal, Update, ChangeOf
<1> QED BY <1>1, <1>2, <1>3, <1>4, <1>5, <1>6

(* The keys of a message are tasks or resources, not both.                  *)
LEMMA KeyTypes ==
  /\ \A t \in Tasks : t \in Keys /\ t \notin Resources /\ Deps[t] \subseteq Resources
                      /\ t \notin Deps[t]
  /\ \A r \in Resources : r \in Keys /\ r \notin Tasks
BY AssignmentsAssumption DEF Keys

(* What addTaskDependencies changes.                                        *)
LEMMA AddEffect ==
  ASSUME NEW a \in ASet, NEW t \in Tasks
  PROVE  /\ AddDependencies(a, t) \in ASet
         /\ AddDependencies(a, t).tasks = a.tasks
         /\ \A r \in Resources : AddDependencies(a, t).using[r] =
              IF r \in Deps[t] THEN a.using[r] \cup {t} ELSE a.using[r]
         /\ \A k \in Keys : AddDependencies(a, t).changes[k] =
              IF k \in Deps[t] /\ MustSend(a, k, t) THEN Update(NoRecord) ELSE a.changes[k]
<1> DEFINE u == [r \in Resources |-> IF r \in Deps[t] THEN a.using[r] \cup {t} ELSE a.using[r]]
           c == [k \in DOMAIN a.changes |->
                   IF k \in Deps[t] /\ MustSend(a, k, t) THEN Update(NoRecord) ELSE a.changes[k]]
<1>1. AddDependencies(a, t) = [tasks |-> a.tasks, using |-> u, changes |-> c]
  <2>1. AddDependencies(a, t) = [a EXCEPT !.using = u, !.changes = c]
    BY DEF AddDependencies
  <2> HIDE DEF u, c
  <2> QED BY <2>1 DEF ASet
<1>2. DOMAIN a.changes = Keys /\ a.changes \in Changes /\ a.tasks \in [Tasks -> Record]
      /\ a.using \in [Resources -> SUBSET Tasks]
  BY DEF ASet, Changes
<1>3. u \in [Resources -> SUBSET Tasks]
  BY <1>2
<1>4. c \in Changes
  <2>1. c \in [Keys -> ChangeOf]
    BY <1>2, ConstantTypes DEF Changes
  <2>2. \A v \in Tasks : c[v] = a.changes[v]
    BY <1>2, KeyTypes
  <2> HIDE DEF c
  <2> QED BY <1>2, <2>1, <2>2 DEF Changes
<1> QED BY <1>1, <1>2, <1>3, <1>4 DEF ASet

(* What releaseTaskDependencies changes.                                    *)
LEMMA ReleaseEffect ==
  ASSUME NEW a \in ASet, NEW t \in Tasks
  PROVE  /\ ReleaseDependencies(a, t) \in ASet
         /\ ReleaseDependencies(a, t).tasks = a.tasks
         /\ \A r \in Resources : ReleaseDependencies(a, t).using[r] =
              IF r \in Deps[t] THEN a.using[r] \ {t} ELSE a.using[r]
         /\ \A k \in Keys : ReleaseDependencies(a, t).changes[k] =
              IF k \in Deps[t] /\ Unused(a, k, t) THEN Removal ELSE a.changes[k]
<1> DEFINE u == [r \in Resources |-> IF r \in Deps[t] THEN a.using[r] \ {t} ELSE a.using[r]]
           c == [k \in DOMAIN a.changes |->
                   IF k \in Deps[t] /\ Unused(a, k, t) THEN Removal ELSE a.changes[k]]
<1>1. ReleaseDependencies(a, t) = [tasks |-> a.tasks, using |-> u, changes |-> c]
  <2>1. ReleaseDependencies(a, t) = [a EXCEPT !.using = u, !.changes = c]
    BY DEF ReleaseDependencies
  <2> HIDE DEF u, c
  <2> QED BY <2>1 DEF ASet
<1>2. DOMAIN a.changes = Keys /\ a.changes \in Changes /\ a.tasks \in [Tasks -> Record]
      /\ a.using \in [Resources -> SUBSET Tasks]
  BY DEF ASet, Changes
<1>3. u \in [Resources -> SUBSET Tasks]
  BY <1>2
<1>4. c \in Changes
  <2>1. c \in [Keys -> ChangeOf]
    BY <1>2, ConstantTypes DEF Changes
  <2>2. \A v \in Tasks : c[v] = a.changes[v]
    BY <1>2, KeyTypes
  <2> HIDE DEF c
  <2> QED BY <1>2, <2>1, <2>2 DEF Changes
<1> QED BY <1>1, <1>2, <1>3, <1>4 DEF ASet

(* A change of one entry of a set.                                          *)
SetTask(a, t, task) == [a EXCEPT !.tasks[t] = task]
SetChange(a, t, change) == [a EXCEPT !.changes[t] = change]

LEMMA SetTaskEffect ==
  ASSUME NEW a \in ASet, NEW t \in Tasks, NEW task \in Record
  PROVE  /\ SetTask(a, t, task) \in ASet
         /\ \A u \in Tasks : SetTask(a, t, task).tasks[u] = IF u = t THEN task ELSE a.tasks[u]
         /\ SetTask(a, t, task).using = a.using
         /\ SetTask(a, t, task).changes = a.changes
<1>1. SetTask(a, t, task) =
        [tasks |-> [a.tasks EXCEPT ![t] = task], using |-> a.using, changes |-> a.changes]
  BY DEF ASet, SetTask
<1>2. /\ a.changes \in Changes /\ a.tasks \in [Tasks -> Record]
      /\ a.using \in [Resources -> SUBSET Tasks]
  BY DEF ASet
<1>3. [a.tasks EXCEPT ![t] = task] \in [Tasks -> Record]
  BY <1>2
<1> QED BY <1>1, <1>2, <1>3 DEF ASet

LEMMA SetChangeEffect ==
  ASSUME NEW a \in ASet, NEW t \in Tasks, NEW change \in ChangeOf,
         change.action = "update" => change.task.state >= Assigned
  PROVE  /\ SetChange(a, t, change) \in ASet
         /\ SetChange(a, t, change).tasks = a.tasks
         /\ SetChange(a, t, change).using = a.using
         /\ \A k \in Keys : SetChange(a, t, change).changes[k] =
              IF k = t THEN change ELSE a.changes[k]
<1>1. SetChange(a, t, change) =
        [tasks |-> a.tasks, using |-> a.using, changes |-> [a.changes EXCEPT ![t] = change]]
  BY DEF ASet, SetChange
<1>2. /\ a.changes \in Changes /\ a.tasks \in [Tasks -> Record]
      /\ a.using \in [Resources -> SUBSET Tasks]
  BY DEF ASet
<1>3. [a.changes EXCEPT ![t] = change] \in Changes
  <2>1. t \in Keys /\ a.changes \in [Keys -> ChangeOf]
    BY <1>2, KeyTypes DEF Changes
  <2>2. [a.changes EXCEPT ![t] = change] \in [Keys -> ChangeOf]
    BY <2>1
  <2>3. \A u \in Tasks : [a.changes EXCEPT ![t] = change][u] =
                           IF u = t THEN change ELSE a.changes[u]
    BY <2>1, KeyTypes
  <2> QED BY <1>2, <2>2, <2>3 DEF Changes
<1> QED BY <1>1, <1>2, <1>3 DEF ASet, Changes

(* An event that makes a task known to the set, and one after which the     *)
(* task needs its dependencies no more.                                     *)
Adds(a, e) == e.new.state \in Assigned..Active /\ a.tasks[e.task].state = None

Releases(a, e) ==
  \/ e.new.state = None /\ a.tasks[e.task].state # None
  \/ e.new.state > Active /\ NoNews(a, e.task, e.new)

(* What an event does to the tasks of a set and their changes.              *)
TaskEffect(a, e, b) ==
  /\ \A u \in Tasks : u # e.task => b.tasks[u] = a.tasks[u] /\ b.changes[u] = a.changes[u]
  /\ e.new.state = Pending \/ (e.new.state = None /\ a.tasks[e.task].state = None) =>
       b.tasks[e.task] = a.tasks[e.task] /\ b.changes[e.task] = a.changes[e.task]
  /\ e.new.state = None /\ a.tasks[e.task].state # None =>
       b.tasks[e.task] = NoRecord /\ b.changes[e.task] = Removal
  /\ e.new.state >= Assigned =>
       /\ b.tasks[e.task] = e.new
       /\ NoNews(a, e.task, e.new) => b.changes[e.task] = a.changes[e.task]
       /\ ~NoNews(a, e.task, e.new) => b.changes[e.task] = Update(e.new)

(* What it does to a dependency.                                            *)
DependencyEffect(a, e, b, r) ==
  /\ r \notin Deps[e.task] \/ ~(Adds(a, e) \/ Releases(a, e)) =>
       b.using[r] = a.using[r] /\ b.changes[r] = a.changes[r]
  /\ r \in Deps[e.task] /\ Adds(a, e) =>
       /\ b.using[r] = a.using[r] \cup {e.task}
       /\ b.changes[r] = IF MustSend(a, r, e.task) THEN Update(NoRecord) ELSE a.changes[r]
  /\ r \in Deps[e.task] /\ Releases(a, e) =>
       /\ b.using[r] = a.using[r] \ {e.task}
       /\ b.changes[r] = IF Unused(a, r, e.task) THEN Removal ELSE a.changes[r]

LEMMA ApplyEffect ==
  ASSUME NEW a \in ASet, NEW e \in Event
  PROVE  /\ Apply(a, e) \in ASet
         /\ TaskEffect(a, e, Apply(a, e))
         /\ \A r \in Resources : DependencyEffect(a, e, Apply(a, e), r)
<1> DEFINE b == Apply(a, e)
<1>0. PICK t \in Tasks, task \in Record :
        /\ t = e.task /\ task = e.new /\ task.state \in None..Final
        /\ a.tasks[t].state \in None..Final
  BY DEF Event, ASet, Record
<1>1. /\ t \in Keys /\ t \notin Deps[t] /\ Deps[t] \subseteq Resources
      /\ \A u \in Tasks : u \in Keys /\ u \notin Deps[t]
      /\ \A r \in Resources : r \in Keys /\ r \notin Tasks /\ r # t
      /\ NoRecord.state = None
  BY KeyTypes DEF NoRecord
<1>c. /\ NoRecord \in Record /\ Removal \in ChangeOf /\ Update(task) \in ChangeOf
      /\ Removal.action # "update" /\ Update(task).task = task
  BY ConstantTypes DEF Removal, Update
<1> USE DEF None, Pending, Assigned, Active, Final
<1>2. CASE task.state = None /\ a.tasks[t].state = None
  <2>1. b = a
    BY <1>0, <1>2 DEF Apply, removeTask
  <2>2. ~Adds(a, e) /\ ~Releases(a, e)
    BY <1>0, <1>2 DEF Adds, Releases
  <2> HIDE DEF b
  <2>3. TaskEffect(a, e, b)
    BY <1>0, <1>2, <2>1 DEF TaskEffect
  <2>4. \A r \in Resources : DependencyEffect(a, e, b, r)
    BY <2>1, <2>2 DEF DependencyEffect
  <2> QED BY <2>1, <2>3, <2>4 DEF b
<1>3. CASE task.state = None /\ a.tasks[t].state # None
  <2> DEFINE c == SetChange(a, t, Removal)
             d == SetTask(c, t, NoRecord)
  <2>1. b = ReleaseDependencies(d, t)
    BY <1>0, <1>3 DEF Apply, removeTask, SetTask, SetChange
  <2>2. /\ c \in ASet /\ c.tasks = a.tasks /\ c.using = a.using
        /\ \A k \in Keys : c.changes[k] = IF k = t THEN Removal ELSE a.changes[k]
    BY <1>0, <1>c, SetChangeEffect
  <2> HIDE DEF c, b
  <2>3. /\ d \in ASet /\ d.using = a.using
        /\ \A u \in Tasks : d.tasks[u] = IF u = t THEN NoRecord ELSE a.tasks[u]
        /\ \A k \in Keys : d.changes[k] = IF k = t THEN Removal ELSE a.changes[k]
    BY <1>0, <2>2, <1>c, SetTaskEffect, SMTT(20)
  <2> HIDE DEF d
  <2>4. /\ b \in ASet /\ b.tasks = d.tasks
        /\ \A r \in Resources : b.using[r] =
             IF r \in Deps[t] THEN d.using[r] \ {t} ELSE d.using[r]
        /\ \A k \in Keys : b.changes[k] =
             IF k \in Deps[t] /\ Unused(d, k, t) THEN Removal ELSE d.changes[k]
    BY <1>0, <2>1, <2>3, ReleaseEffect, ZenonT(40)
  <2> HIDE DEF b
  <2>5. ~Adds(a, e) /\ Releases(a, e)
    BY <1>0, <1>3 DEF Adds, Releases
  <2>6. \A r \in Resources : Unused(d, r, t) <=> Unused(a, r, t)
    BY <2>3 DEF Unused
  <2>7. TaskEffect(a, e, b)
    <3>1. \A u \in Tasks : /\ b.tasks[u] = IF u = t THEN NoRecord ELSE a.tasks[u]
                           /\ b.changes[u] = IF u = t THEN Removal ELSE a.changes[u]
      BY <1>1, <2>3, <2>4
    <3> QED BY <1>0, <1>3, <3>1 DEF TaskEffect
  <2>8. ASSUME NEW r \in Resources PROVE DependencyEffect(a, e, b, r)
    <3>1. d.changes[r] = a.changes[r] /\ r \in Keys
      BY <1>1, <2>3
    <3>2. /\ b.using[r] = IF r \in Deps[t] THEN a.using[r] \ {t} ELSE a.using[r]
          /\ b.changes[r] = IF r \in Deps[t] /\ Unused(a, r, t) THEN Removal ELSE a.changes[r]
      BY <2>3, <2>4, <2>6, <3>1
    <3> QED BY <1>0, <2>5, <3>2 DEF DependencyEffect
  <2> QED BY <2>4, <2>7, <2>8 DEF b
<1>4. CASE task.state = Pending
  <2>1. b = a
    <3>1. b = addOrUpdateTask(a, t, task)
      BY <1>0, <1>4 DEF Apply
    <3> QED BY <1>4, <3>1 DEF addOrUpdateTask, NoNews
  <2>2. ~Adds(a, e) /\ ~Releases(a, e)
    BY <1>0, <1>4 DEF Adds, Releases
  <2> HIDE DEF b
  <2>3. TaskEffect(a, e, b)
    BY <1>0, <1>4, <2>1 DEF TaskEffect
  <2>4. \A r \in Resources : DependencyEffect(a, e, b, r)
    BY <2>1, <2>2 DEF DependencyEffect
  <2> QED BY <2>1, <2>3, <2>4 DEF b
<1>5. CASE task.state >= Assigned
  <2> DEFINE known == SetTask(a, t, task)
  <2>0. b = addOrUpdateTask(a, t, task)
    BY <1>0, <1>5 DEF Apply
  <2>1. /\ known \in ASet /\ known.using = a.using /\ known.changes = a.changes
        /\ \A u \in Tasks : known.tasks[u] = IF u = t THEN task ELSE a.tasks[u]
    BY <1>0, SetTaskEffect
  <2>2. CASE NoNews(a, t, task) /\ task.state > Active
    <3>1. b = ReleaseDependencies(known, t)
      BY <1>0, <1>5, <2>0, <2>2 DEF addOrUpdateTask, SetTask
    <3> HIDE DEF known, b
    <3>2. /\ b \in ASet /\ b.tasks = known.tasks
          /\ \A r \in Resources : b.using[r] =
               IF r \in Deps[t] THEN known.using[r] \ {t} ELSE known.using[r]
          /\ \A k \in Keys : b.changes[k] =
               IF k \in Deps[t] /\ Unused(known, k, t) THEN Removal ELSE known.changes[k]
      BY <1>0, <2>1, <3>1, ReleaseEffect, SMTT(60)
    <3> HIDE DEF b
    <3>3. ~Adds(a, e) /\ Releases(a, e)
      BY <1>0, <2>2 DEF Adds, Releases
    <3>4. \A r \in Resources : Unused(known, r, t) <=> Unused(a, r, t)
      BY <2>1 DEF Unused
    <3>5. TaskEffect(a, e, b)
      <4>1. \A u \in Tasks : /\ b.tasks[u] = IF u = t THEN task ELSE a.tasks[u]
                             /\ b.changes[u] = a.changes[u]
        BY <1>1, <2>1, <3>2
      <4> QED BY <1>0, <1>5, <2>2, <4>1 DEF TaskEffect
    <3>6. ASSUME NEW r \in Resources PROVE DependencyEffect(a, e, b, r)
      <4>1. r \in Keys
        BY <1>1
      <4>2. /\ b.using[r] = IF r \in Deps[t] THEN a.using[r] \ {t} ELSE a.using[r]
            /\ b.changes[r] = IF r \in Deps[t] /\ Unused(a, r, t) THEN Removal ELSE a.changes[r]
        BY <2>1, <3>2, <3>4, <4>1
      <4> QED BY <1>0, <3>3, <4>2 DEF DependencyEffect
    <3> QED BY <3>2, <3>5, <3>6 DEF b
  <2>3. CASE NoNews(a, t, task) /\ task.state <= Active
    <3>1. b = known
      BY <1>0, <1>5, <2>0, <2>3 DEF addOrUpdateTask, SetTask
    <3> HIDE DEF known, b
    <3>2. ~Adds(a, e) /\ ~Releases(a, e)
      BY <1>0, <1>5, <2>3 DEF Adds, Releases, NoNews
    <3>3. TaskEffect(a, e, b)
      BY <1>0, <1>5, <2>1, <2>3, <3>1 DEF TaskEffect
    <3>4. \A r \in Resources : DependencyEffect(a, e, b, r)
      BY <2>1, <3>1, <3>2 DEF DependencyEffect
    <3> QED BY <2>1, <3>1, <3>3, <3>4 DEF b
  <2>4. CASE ~NoNews(a, t, task)
    <3> DEFINE c == IF a.tasks[t].state = None /\ task.state <= Active
                    THEN AddDependencies(known, t) ELSE known
    <3>1. b = SetChange(c, t, Update(task))
      BY <1>0, <1>5, <2>0, <2>4 DEF addOrUpdateTask, SetTask, SetChange
    <3>2. Adds(a, e) <=> a.tasks[t].state = None /\ task.state <= Active
      BY <1>0, <1>5 DEF Adds
    <3>3. ~Releases(a, e)
      BY <1>0, <1>5, <2>4 DEF Releases
    <3> HIDE DEF known, b
    <3>4. \A r \in Resources : MustSend(known, r, t) <=> MustSend(a, r, t)
      BY <2>1 DEF MustSend
    <3>5. CASE Adds(a, e)
      <4>1. c = AddDependencies(known, t)
        BY <3>2, <3>5
      <4> HIDE DEF c
      <4>2. /\ c \in ASet /\ c.tasks = known.tasks
            /\ \A r \in Resources : c.using[r] =
                 IF r \in Deps[t] THEN known.using[r] \cup {t} ELSE known.using[r]
            /\ \A k \in Keys : c.changes[k] =
                 IF k \in Deps[t] /\ MustSend(known, k, t)
                 THEN Update(NoRecord) ELSE known.changes[k]
        BY <1>0, <2>1, <4>1, AddEffect, ZenonT(40)
      <4>3. /\ b \in ASet /\ b.tasks = c.tasks /\ b.using = c.using
            /\ \A k \in Keys : b.changes[k] = IF k = t THEN Update(task) ELSE c.changes[k]
        BY <1>0, <1>5, <3>1, <4>2, <1>c, SetChangeEffect
      <4>4. TaskEffect(a, e, b)
        <5>1. \A u \in Tasks : /\ b.tasks[u] = IF u = t THEN task ELSE a.tasks[u]
                               /\ b.changes[u] = IF u = t THEN Update(task) ELSE a.changes[u]
          BY <1>1, <2>1, <4>2, <4>3
        <5> QED BY <1>0, <1>5, <2>4, <5>1 DEF TaskEffect
      <4>5. ASSUME NEW r \in Resources PROVE DependencyEffect(a, e, b, r)
        <5>1. r \in Keys /\ r # t
          BY <1>1
        <5>2. /\ b.using[r] = IF r \in Deps[t] THEN a.using[r] \cup {t} ELSE a.using[r]
              /\ b.changes[r] = IF r \in Deps[t] /\ MustSend(a, r, t)
                                THEN Update(NoRecord) ELSE a.changes[r]
          BY <2>1, <3>4, <4>2, <4>3, <5>1
        <5> QED BY <1>0, <3>3, <3>5, <5>2 DEF DependencyEffect
      <4> QED BY <4>3, <4>4, <4>5 DEF b
    <3>6. CASE ~Adds(a, e)
      <4>1. c = known
        BY <3>2, <3>6
      <4> HIDE DEF c
      <4>2. /\ b \in ASet /\ b.tasks = c.tasks /\ b.using = c.using
            /\ \A k \in Keys : b.changes[k] = IF k = t THEN Update(task) ELSE c.changes[k]
        BY <1>0, <1>5, <2>1, <3>1, <4>1, <1>c, SetChangeEffect
      <4>3. TaskEffect(a, e, b)
        <5>1. \A u \in Tasks : /\ b.tasks[u] = IF u = t THEN task ELSE a.tasks[u]
                               /\ b.changes[u] = IF u = t THEN Update(task) ELSE a.changes[u]
          BY <1>1, <2>1, <4>1, <4>2
        <5> QED BY <1>0, <1>5, <2>4, <5>1 DEF TaskEffect
      <4>4. ASSUME NEW r \in Resources PROVE DependencyEffect(a, e, b, r)
        <5>1. r \in Keys /\ r # t
          BY <1>1
        <5>2. b.using[r] = a.using[r] /\ b.changes[r] = a.changes[r]
          BY <2>1, <4>1, <4>2, <5>1
        <5> QED BY <3>3, <3>6, <5>2 DEF DependencyEffect
      <4> QED BY <4>2, <4>3, <4>4 DEF b
    <3> QED BY <3>5, <3>6
  <2> QED BY <1>0, <2>2, <2>3, <2>4
<1> QED BY <1>0, <1>2, <1>3, <1>4, <1>5

(* A set whose changes have been sent.                                      *)
Cleared(a) == [a EXCEPT !.changes = NoChanges]

LEMMA ClearedEffect ==
  ASSUME NEW a \in ASet
  PROVE  /\ Cleared(a) \in ASet /\ Cleared(a).changes = NoChanges
         /\ Cleared(a).tasks = a.tasks /\ Cleared(a).using = a.using
<1>1. Cleared(a) = [tasks |-> a.tasks, using |-> a.using, changes |-> NoChanges]
  BY DEF ASet, Cleared
<1>2. NoChanges \in Changes
  BY ConstantTypes
<1> QED BY <1>1, <1>2 DEF ASet

(* A batch leaves the set well-formed.                                      *)
LEMMA BatchType ==
  ASSUME NEW a \in ASet, NEW queue \in Seq(Event), NEW k \in 1..Len(queue)
  PROVE  Batch(a, queue, k) \in ASet
<1> DEFINE S == [i \in 0..k |-> ASet]
<1>1. k \in Nat /\ a \in S[0] /\ \A i \in 1..k : queue[i] \in Event /\ i - 1 \in 0..k /\ i \in 0..k
  OBVIOUS
<1>2. \A i \in 1..k : \A b \in S[i - 1] : Apply(b, queue[i]) \in S[i]
  <2>1. \A i \in 1..k : S[i - 1] = ASet /\ S[i] = ASet
    BY <1>1
  <2> QED BY <1>1, <2>1, ApplyEffect
<1>3. S[k] = ASet
  BY <1>1
<1> HIDE DEF S
<1>4. Batch(a, queue, k) \in S[k]
  BY <1>1, <1>2, BatchInduction
<1> QED BY <1>3, <1>4

(* The set of a new stream.                                                 *)
LEMMA SnapshotEffect ==
  ASSUME store \in [Tasks -> Record]
  PROVE  /\ SnapshotSet \in ASet
         /\ \A t \in Tasks : SnapshotSet.tasks[t] =
              IF store[t].state >= Assigned THEN store[t] ELSE NoRecord
         /\ \A r \in Resources : SnapshotSet.using[r] =
              {t \in Tasks : store[t].state \in Assigned..Active /\ r \in Deps[t]}
         /\ \A t \in Tasks : SnapshotSet.changes[t] =
              IF store[t].state >= Assigned THEN Update(store[t]) ELSE NoChange
         /\ \A r \in Resources : SnapshotSet.changes[r] =
              IF SnapshotSet.using[r] # {} /\ r \notin Missing
              THEN Update(NoRecord) ELSE NoChange
<1> DEFINE seen == {t \in Tasks : store[t].state >= Assigned}
           live == {t \in seen : store[t].state <= Active}
           all == UNION {Deps[t] : t \in live}
           needed == all \ Missing
           ts == [t \in Tasks |-> IF t \in seen THEN store[t] ELSE NoRecord]
           us == [r \in Resources |-> {t \in live : r \in Deps[t]}]
           cs == [k \in Tasks \cup Resources |->
                    CASE k \in seen -> Update(store[k])
                      [] k \in needed -> Update(NoRecord)
                      [] OTHER -> NoChange]
<1>1. SnapshotSet = [tasks |-> ts, using |-> us, changes |-> cs]
  BY DEF SnapshotSet
<1>2. \A t \in Tasks : t \notin needed
  BY KeyTypes
<1>3. \A r \in Resources : r \notin seen
  BY KeyTypes
<1>4. \A r \in Resources : r \in needed <=> us[r] # {} /\ r \notin Missing
  <2>1. \A r \in Resources : r \in all <=> us[r] # {}
    OBVIOUS
  <2> HIDE DEF all, us
  <2> QED BY <2>1
<1>5. /\ \A t \in Tasks : cs[t] =
           IF store[t].state >= Assigned THEN Update(store[t]) ELSE NoChange
      /\ \A r \in Resources : cs[r] = IF us[r] # {} /\ r \notin Missing
                                      THEN Update(NoRecord) ELSE NoChange
  <2> HIDE DEF needed, all, us
  <2> QED BY <1>2, <1>3, <1>4
<1>6. ts \in [Tasks -> Record] /\ us \in [Resources -> SUBSET Tasks]
  BY ConstantTypes
<1>7. cs \in Changes
  <2> HIDE DEF seen, needed, all
  <2>1. \A t \in Tasks : Update(store[t]) \in ChangeOf
    BY ConstantTypes
  <2>2. ASSUME NEW k \in Keys PROVE cs[k] \in ChangeOf
    BY <2>1, <1>3, ConstantTypes DEF Keys, seen
  <2>3. \A t \in Tasks : cs[t].action = "update" => cs[t].task.state >= Assigned
    <3> HIDE DEF cs
    <3>1. NoChange.action # "update" /\ \A t \in Tasks : Update(store[t]).task = store[t]
      BY DEF Update, NoChange
    <3> QED BY <1>5, <3>1, Zenon
  <2> QED BY <2>2, <2>3 DEF Changes, Keys
<1>8. \A r \in Resources : us[r] =
        {t \in Tasks : store[t].state \in Assigned..Active /\ r \in Deps[t]}
  BY DEF Record, Assigned, Active, None, Final
<1> HIDE DEF us, cs
<1>9. \A t \in Tasks : ts[t] = IF store[t].state >= Assigned THEN store[t] ELSE NoRecord
  OBVIOUS
<1> HIDE DEF ts
<1> QED BY <1>1, <1>5, <1>6, <1>7, <1>8, <1>9 DEF ASet

-----------------------------------------------------------------------------
(* Type correctness, action by action.                                      *)

LEMMA TypeInit == Init => TypeInv
<1> SUFFICES ASSUME Init PROVE TypeInv
  OBVIOUS
<1>1. LeaderTypes
  <2>1. \A t \in Tasks : [state |-> Pending, desired |-> Run] \in Record
    BY DEF Record, Pending, None, Final, Run, Shut
  <2> QED BY <2>1, ConstantTypes DEF Init, LeaderTypes
<1>2. WorkerTypes
  BY ConstantTypes DEF Init, WorkerTypes
<1>3. ReporterTypes
  <2>1. None \in None..Final
    BY DEF None, Final
  <2> QED BY <2>1, ConstantTypes DEF Init, ReporterTypes
<1>4. FlagTypes /\ UsedTypes
  BY DEF Init, FlagTypes, UsedTypes, Kinds
<1>5. Alive
  BY DEF Init, Alive
<1> QED BY <1>1, <1>2, <1>3, <1>4, <1>5 DEF TypeInv

(* A write of the leader's store.                                           *)
LEMMA WriteTypes ==
  ASSUME LeaderTypes, NEW t \in Tasks, NEW task \in Record, Write(t, task)
  PROVE  store' \in [Tasks -> Record] /\ events' \in Seq(Event)
<1>1. [task |-> t, new |-> task] \in Event
  BY DEF Event
<1> QED BY <1>1 DEF LeaderTypes, Write, Publish

LEMMA PublishAlive ==
  ASSUME Alive, NEW t, NEW task, events' = Publish(t, task) \/ events' = events,
         UNCHANGED <<stream, aset, pipe, up, session, synced, tx, mgr>>
  PROVE  Alive'
BY DEF Alive, Publish

LEMMA SpentTypes ==
  ASSUME UsedTypes
  PROVE  /\ Change => UsedTypes'
         /\ \A kind \in Kinds : \A n \in Nat : Spend(kind, n) => UsedTypes'
<1>1. Change => UsedTypes'
  BY DEF UsedTypes, Change, Spend, Kinds
<1>2. ASSUME NEW kind \in Kinds, NEW n \in Nat, Spend(kind, n) PROVE UsedTypes'
  BY <1>2 DEF UsedTypes, Spend
<1> QED BY <1>1, <1>2

(* The leader's writes.                                                     *)
LEMMA LeaderTypeStep ==
  ASSUME TypeInv, NEW t \in Tasks, Schedule(t) \/ SetShutdown(t) \/ DeleteTask(t)
  PROVE  TypeInv'
<1>1. PICK task \in Record : Write(t, task)
  <2>1. CASE Schedule(t)
    <3>1. [store[t] EXCEPT !.state = Assigned] \in Record
      BY DEF TypeInv, LeaderTypes, Record, None, Assigned, Final
    <3> QED BY <2>1, <3>1 DEF Schedule
  <2>2. CASE SetShutdown(t)
    <3>1. [store[t] EXCEPT !.desired = Shut] \in Record
      BY DEF TypeInv, LeaderTypes, Record
    <3> QED BY <2>2, <3>1 DEF SetShutdown
  <2>3. CASE DeleteTask(t)
    BY <2>3, ConstantTypes DEF DeleteTask
  <2> QED BY <2>1, <2>2, <2>3
<1>2. /\ UNCHANGED <<stream, aset, pipe, up, session, synced, workerVars, reporterVars>>
      /\ Change \/ used' = used
  BY DEF Schedule, SetShutdown, DeleteTask
<1>3. LeaderTypes'
  BY <1>1, <1>2, WriteTypes DEF TypeInv, LeaderTypes
<1>4. WorkerTypes' /\ ReporterTypes' /\ FlagTypes'
  BY <1>2 DEF TypeInv, WorkerTypes, ReporterTypes, FlagTypes, workerVars, reporterVars
<1>5. UsedTypes'
  BY <1>2, SpentTypes DEF TypeInv, UsedTypes
<1>6. Alive'
  <2>1. events' = Publish(t, task)
    BY <1>1 DEF Write
  <2> QED BY <1>2, <2>1, PublishAlive DEF TypeInv, workerVars
<1> QED BY <1>3, <1>4, <1>5, <1>6 DEF TypeInv

(* The stream.                                                              *)
LEMMA StreamTypeStep ==
  ASSUME TypeInv, StreamStep
  PROVE  TypeInv'
<1>1. UNCHANGED <<store, up, session, synced, workerVars, reporterVars, used>>
  BY DEF StreamStep, OpenAssignments, SendBatch
<1>2. WorkerTypes' /\ ReporterTypes' /\ UsedTypes'
  BY <1>1 DEF TypeInv, WorkerTypes, ReporterTypes, UsedTypes, workerVars, reporterVars
<1>3. CASE OpenAssignments
  <2>1. /\ stream' = TRUE /\ session /\ up /\ events' = <<>>
        /\ aset' = Cleared(SnapshotSet)
        /\ pipe' = <<[complete |-> TRUE, changes |-> SnapshotSet.changes]>>
    BY <1>3 DEF OpenAssignments, CanOpen, Cleared
  <2>2. LeaderTypes'
    <3>1. SnapshotSet \in ASet
      BY SnapshotEffect DEF TypeInv, LeaderTypes
    <3>2. aset' \in ASet /\ aset'.changes = NoChanges
      BY <2>1, <3>1, ClearedEffect
    <3>3. [complete |-> TRUE, changes |-> SnapshotSet.changes] \in Msg
      BY <3>1 DEF Msg, ASet
    <3> QED BY <1>1, <2>1, <3>2, <3>3 DEF TypeInv, LeaderTypes
  <2>3. FlagTypes'
    BY <1>1, <2>1, Zenon DEF TypeInv, FlagTypes, reporterVars
  <2>4. Alive'
    BY <1>1, <2>1, Zenon DEF TypeInv, Alive, workerVars
  <2> QED BY <1>2, <2>2, <2>3, <2>4 DEF TypeInv
<1>4. CASE SendBatch
  <2>1. PICK k \in 1..Len(events) :
          /\ aset' = Cleared(Batch(aset, events, k))
          /\ events' = SubSeq(events, k + 1, Len(events))
          /\ pipe' = IF Batch(aset, events, k).changes = NoChanges THEN pipe
                     ELSE Append(pipe, [complete |-> FALSE,
                                        changes |-> Batch(aset, events, k).changes])
    BY <1>4 DEF SendBatch, Cleared
  <2>2. Batch(aset, events, k) \in ASet
    BY BatchType DEF TypeInv, LeaderTypes
  <2>3. LeaderTypes'
    <3>1. aset' \in ASet /\ aset'.changes = NoChanges
      BY <2>1, <2>2, ClearedEffect
    <3>2. [complete |-> FALSE, changes |-> Batch(aset, events, k).changes] \in Msg
      BY <2>2 DEF Msg, ASet
    <3>3. events' \in Seq(Event) /\ pipe' \in Seq(Msg)
      BY <2>1, <3>2 DEF TypeInv, LeaderTypes
    <3> QED BY <1>1, <3>1, <3>3 DEF TypeInv, LeaderTypes
  <2>4. stream' = stream /\ stream
    BY <1>4 DEF SendBatch
  <2>5. FlagTypes'
    BY <1>1, <2>4, Zenon DEF TypeInv, FlagTypes, reporterVars
  <2>6. Alive'
    BY <1>1, <2>4, Zenon DEF TypeInv, Alive, workerVars
  <2> QED BY <1>2, <2>3, <2>5, <2>6 DEF TypeInv
<1> QED BY <1>3, <1>4 DEF StreamStep

(* The status that is written for a task that starts.                       *)
LEMMA ResolvedEffect ==
  ASSUME NEW s \in None..Final, NEW ok \in BOOLEAN
  PROVE  /\ Resolved(s, ok) \in {Active, Final} /\ Resolved(s, ok) >= s
         /\ ~ok => Resolved(s, ok) = Final
BY DEF Resolved, Greater, None, Active, Final

(* What a message does to task t: c is its entry for t, gone says that t is *)
(* removed, ok that its controller can be resolved.                         *)
StartStatus(t, c, ok) == Resolved(Stored(t, c.task.state), ok)

TaskReconciled(t, c, gone, ok) ==
  /\ c.action = "update" /\ mgr[t] = NoMgr =>
       /\ tx'[t] = [state |-> StartStatus(t, c, ok), desired |-> c.task.desired]
       /\ mgr'[t] = IF ok THEN [state |-> Stored(t, c.task.state), desired |-> c.task.desired]
                    ELSE NoMgr
       /\ rq'[t] = Enqueue(rq, t, StartStatus(t, c, ok))
  /\ c.action = "update" /\ mgr[t] # NoMgr =>
       /\ ok /\ rq'[t] = rq[t]
       /\ tx'[t] = [db[t] EXCEPT !.desired = c.task.desired]
       /\ mgr'[t] = [mgr[t] EXCEPT !.desired = Greater(@, c.task.desired)]
  /\ c.action # "update" =>
       /\ ok /\ rq'[t] = rq[t]
       /\ tx'[t] = IF gone THEN NoRecord ELSE db[t]
       /\ mgr'[t] = IF gone THEN NoMgr ELSE mgr[t]

Gone(t, msg) ==
  IF msg.complete THEN mgr[t] # NoMgr /\ msg.changes[t].action # "update"
  ELSE msg.changes[t].action = "remove"

LEMMA ReconcileEffect ==
  ASSUME TypeInv, NEW msg \in Msg, NEW bad \in SUBSET Tasks, Reconcile(msg, bad)
  PROVE  /\ \A t \in Tasks : TaskReconciled(t, msg.changes[t], Gone(t, msg), t \notin bad)
         /\ tx' \in [Tasks -> Record] /\ mgr' \in [Tasks -> Record]
         /\ rq' \in [Tasks -> None..Final] /\ held' \subseteq Resources
         /\ \A r \in Resources : r \in held' <=>
              \/ msg.changes[r].action = "update"
              \/ ~msg.complete /\ msg.changes[r].action # "remove" /\ r \in held
         /\ UNCHANGED <<db, pending, reporting, sending>>
<1> DEFINE c(t) == msg.changes[t]
           upd == Listed(msg.changes, "update") \cap Tasks
           rem == IF msg.complete THEN Unlisted(msg.changes)
                  ELSE Listed(msg.changes, "remove") \cap Tasks
           started == {t \in upd : mgr[t] = NoMgr}
<1>1. /\ DOMAIN msg.changes = Keys /\ \A k \in Keys : msg.changes[k] \in ChangeOf
      /\ \A t \in Tasks : t \in Keys
      /\ msg.complete \in BOOLEAN
  BY KeyTypes DEF Msg, Changes
<1>2. /\ \A t \in Tasks : t \in upd <=> c(t).action = "update"
      /\ \A t \in Tasks : t \in started <=> c(t).action = "update" /\ mgr[t] = NoMgr
      /\ \A t \in Tasks : c(t).action # "update" => (t \in rem <=> Gone(t, msg))
      /\ upd \subseteq Tasks /\ started \subseteq Tasks /\ rem \subseteq Tasks
  BY <1>1 DEF Listed, Unlisted, Gone
<1>3. /\ bad \subseteq started
      /\ held' = Reconciled(msg)
      /\ tx' = [t \in Tasks |->
                  CASE t \in started -> [state |-> StartStatus(t, c(t), t \notin bad),
                                         desired |-> c(t).task.desired]
                    [] t \in upd \ started -> [db[t] EXCEPT !.desired = c(t).task.desired]
                    [] t \in rem -> NoRecord
                    [] OTHER -> db[t]]
      /\ mgr' = [t \in Tasks |->
                   CASE t \in started -> IF t \in bad THEN NoMgr
                                         ELSE [state |-> Stored(t, c(t).task.state),
                                               desired |-> c(t).task.desired]
                     [] t \in upd \ started -> [mgr[t] EXCEPT !.desired =
                                                  Greater(@, c(t).task.desired)]
                     [] t \in rem -> NoMgr
                     [] OTHER -> mgr[t]]
      /\ rq' = [t \in Tasks |-> IF t \in started
                                THEN Enqueue(rq, t, StartStatus(t, c(t), t \notin bad))
                                ELSE rq[t]]
      /\ UNCHANGED <<db, pending, reporting, sending>>
  BY DEF Reconcile, StartStatus
<1> HIDE DEF upd, rem, started
<1>4. \A t \in upd : t \notin rem
  BY <1>1, <1>2 DEF rem, upd, Unlisted, Listed
<1>5. ASSUME NEW t \in Tasks
      PROVE  TaskReconciled(t, msg.changes[t], Gone(t, msg), t \notin bad)
  <2>1. CASE t \in started
    <3>1. /\ tx'[t] = [state |-> StartStatus(t, c(t), t \notin bad),
                       desired |-> c(t).task.desired]
          /\ mgr'[t] = IF t \in bad THEN NoMgr
                       ELSE [state |-> Stored(t, c(t).task.state),
                             desired |-> c(t).task.desired]
          /\ rq'[t] = Enqueue(rq, t, StartStatus(t, c(t), t \notin bad))
      BY <1>2, <1>3, <1>4, <2>1
    <3>2. c(t).action = "update" /\ mgr[t] = NoMgr
      BY <1>2, <2>1
    <3> QED BY <3>1, <3>2 DEF TaskReconciled
  <2>2. CASE t \in upd \ started
    <3>1. /\ tx'[t] = [db[t] EXCEPT !.desired = c(t).task.desired]
          /\ mgr'[t] = [mgr[t] EXCEPT !.desired = Greater(@, c(t).task.desired)]
          /\ rq'[t] = rq[t] /\ t \notin bad
      BY <1>3, <1>4, <2>2
    <3>2. c(t).action = "update" /\ mgr[t] # NoMgr
      BY <1>2, <2>2
    <3> QED BY <3>1, <3>2 DEF TaskReconciled
  <2>3. CASE t \notin upd
    <3>1. t \notin started
      BY <1>2, <2>3
    <3>2. /\ tx'[t] = IF t \in rem THEN NoRecord ELSE db[t]
          /\ mgr'[t] = IF t \in rem THEN NoMgr ELSE mgr[t]
          /\ rq'[t] = rq[t] /\ t \notin bad
      BY <1>3, <2>3, <3>1
    <3>3. c(t).action # "update" /\ (t \in rem <=> Gone(t, msg))
      BY <1>2, <2>3
    <3> QED BY <3>2, <3>3 DEF TaskReconciled
  <2> QED BY <1>2, <2>1, <2>2, <2>3
<1>6. ASSUME NEW t \in Tasks
      PROVE  tx'[t] \in Record /\ mgr'[t] \in Record /\ rq'[t] \in None..Final
  <2>1. /\ c(t) \in ChangeOf /\ c(t).task \in Record /\ db[t] \in Record /\ mgr[t] \in Record
        /\ rq[t] \in None..Final /\ NoRecord \in Record /\ NoMgr \in Record
    BY <1>1, ConstantTypes DEF ChangeOf, TypeInv, WorkerTypes, ReporterTypes
  <2>2. StartStatus(t, c(t), t \notin bad) \in {Active, Final}
    <3>1. Stored(t, c(t).task.state) \in None..Final
      BY <2>1 DEF Stored, Record
    <3> QED BY <3>1, ResolvedEffect DEF StartStatus
  <2>3. StartStatus(t, c(t), t \notin bad) \in None..Final
    BY <2>2 DEF None, Active, Final
  <2>4. Enqueue(rq, t, StartStatus(t, c(t), t \notin bad)) \in None..Final
    BY <2>1, <2>3 DEF Enqueue, Greater
  <2>5. Greater(mgr[t].desired, c(t).task.desired) \in {Run, Shut}
    BY <2>1 DEF Greater, Record
  <2> DEFINE s == StartStatus(t, c(t), t \notin bad)
             q == Enqueue(rq, t, s)
             d == Stored(t, c(t).task.state)
             g == Greater(mgr[t].desired, c(t).task.desired)
  <2>6. /\ [state |-> s, desired |-> c(t).task.desired] \in Record
        /\ [state |-> d, desired |-> c(t).task.desired] \in Record
        /\ [db[t] EXCEPT !.desired = c(t).task.desired] \in Record
        /\ [mgr[t] EXCEPT !.desired = g] \in Record
    <3>1. d \in None..Final
      BY <2>1 DEF Stored, Record
    <3> HIDE DEF s, g, d
    <3> QED BY <2>1, <2>3, <2>5, <3>1 DEF Record, s, g
  <2> HIDE DEF s, q, g, d
  <2>7. mgr'[t] \in Record
    BY <1>5, <2>1, <2>6 DEF TaskReconciled, d, g
  <2>8. tx'[t] \in Record
    BY <1>5, <2>1, <2>6 DEF TaskReconciled, s
  <2>9. rq'[t] \in None..Final
    BY <1>5, <2>1, <2>4 DEF TaskReconciled
  <2> QED BY <2>7, <2>8, <2>9
<1>7. /\ tx' \in [Tasks -> Record] /\ mgr' \in [Tasks -> Record]
      /\ rq' \in [Tasks -> None..Final]
  <2>1. /\ tx' = [t \in Tasks |-> tx'[t]] /\ mgr' = [t \in Tasks |-> mgr'[t]]
        /\ rq' = [t \in Tasks |-> rq'[t]]
    BY <1>3
  <2> QED BY <1>6, <2>1
<1>8. held' \subseteq Resources
  BY <1>3 DEF Reconciled, TypeInv, WorkerTypes
<1>9. \A r \in Resources : r \in held' <=>
              \/ msg.changes[r].action = "update"
              \/ ~msg.complete /\ msg.changes[r].action # "remove" /\ r \in held
  BY <1>1, <1>3, KeyTypes DEF Reconciled, Listed
<1> QED BY <1>3, <1>5, <1>7, <1>8, <1>9

(* The first message is taken out of the pipe.                              *)
LEMMA PipeTail ==
  ASSUME NEW p \in Seq(Msg), p # <<>>
  PROVE  /\ Head(p) = p[1] /\ p[1] \in Msg /\ Tail(p) \in Seq(Msg)
         /\ Len(p) \in Nat /\ Len(p) >= 1 /\ Len(Tail(p)) = Len(p) - 1
         /\ \A i \in 1..Len(Tail(p)) : i + 1 \in 1..Len(p) /\ Tail(p)[i] = p[i + 1]
OBVIOUS

(* The controllers that could not be resolved are counted.                  *)
LEMMA RejectsCounted ==
  ASSUME UsedTypes, NEW bad \in SUBSET Tasks, Spend("rejects", Cardinality(bad))
  PROVE  /\ UsedTypes' /\ used'["crashes"] = used["crashes"]
         /\ used'["rejects"] >= used["rejects"]
         /\ \A t \in bad : used'["rejects"] > 0
<1>1. IsFiniteSet(bad)
  BY AssignmentsAssumption, FS_Subset
<1>2. Cardinality(bad) \in Nat /\ (bad # {} => Cardinality(bad) # 0)
  BY <1>1, FS_CardinalityType, FS_EmptySet
<1> DEFINE n == Cardinality(bad)
<1> HIDE DEF n
<1>3. /\ n \in Nat /\ used \in [Kinds -> Nat] /\ used' = [used EXCEPT !["rejects"] = @ + n]
  BY <1>2 DEF UsedTypes, Spend, n
<1>4. /\ used'["rejects"] = used["rejects"] + n /\ used["rejects"] \in Nat
      /\ used'["crashes"] = used["crashes"] /\ used' \in [Kinds -> Nat]
  BY <1>3 DEF Kinds
<1>5. \A t \in bad : n # 0
  BY <1>2 DEF n
<1> QED BY <1>3, <1>4, <1>5 DEF UsedTypes

LEMMA ReceiveTypeStep ==
  ASSUME TypeInv, ReceiveAssignments
  PROVE  TypeInv'
<1>1. PICK bad \in SUBSET Tasks :
        Reconcile(Head(pipe), bad) /\ Spend("rejects", Cardinality(bad))
  BY DEF ReceiveAssignments
<1>2. /\ up /\ session /\ pipe # <<>> /\ tx = NoTx /\ pipe' = Tail(pipe)
      /\ synced' = (synced \/ Head(pipe).complete)
      /\ UNCHANGED <<store, stream, events, aset, up, session>>
  BY DEF ReceiveAssignments
<1>3. Head(pipe) \in Msg /\ pipe' \in Seq(Msg)
  BY <1>2, PipeTail DEF TypeInv, LeaderTypes
<1>4. /\ tx' \in [Tasks -> Record] /\ mgr' \in [Tasks -> Record]
      /\ rq' \in [Tasks -> None..Final] /\ held' \subseteq Resources
      /\ UNCHANGED <<db, pending, reporting, sending>>
  BY <1>1, <1>3, ReconcileEffect
<1>5. LeaderTypes'
  BY <1>2, <1>3 DEF TypeInv, LeaderTypes
<1>6. WorkerTypes' /\ ReporterTypes'
  BY <1>4 DEF TypeInv, WorkerTypes, ReporterTypes
<1>7. FlagTypes'
  BY <1>2, <1>4, Zenon DEF TypeInv, FlagTypes
<1>8. UsedTypes'
  BY <1>1, RejectsCounted DEF TypeInv
<1>9. Alive'
  <2>1. stream
    BY <1>2 DEF TypeInv, Alive
  <2> QED BY <1>2, <2>1 DEF TypeInv, Alive
<1> QED BY <1>5, <1>6, <1>7, <1>8, <1>9 DEF TypeInv

(* An operation of a manager ends.                                          *)
LEMMA OperateEffect ==
  ASSUME TypeInv, NEW t \in Tasks, Operate(t)
  PROVE  \E s \in {Assigned, Active, Final} :
           /\ up /\ mgr[t] # NoMgr /\ pending[t] = None
           /\ mgr[t].state = Assigned \/ s = Final
           /\ mgr' = [mgr EXCEPT ![t].state = s] /\ pending' = [pending EXCEPT ![t] = s]
           /\ UNCHANGED <<db, tx, rq, sending>>
<1>1. PICK s \in Do(mgr[t]) :
        mgr' = [mgr EXCEPT ![t].state = s] /\ pending' = [pending EXCEPT ![t] = s]
  BY DEF Operate
<1>2. s \in {Assigned, Active, Final} /\ (mgr[t].state = Assigned \/ s = Final)
  BY DEF Do
<1>3. up /\ mgr[t] # NoMgr /\ pending[t] = None /\ UNCHANGED <<db, tx, rq, sending>>
  BY DEF Operate, reporterVars
<1> QED BY <1>1, <1>2, <1>3

(* The task managers and the database.                                      *)
LEMMA WorkerTypeStep ==
  ASSUME TypeInv, Commit \/ \E t \in Tasks : TaskStep(t)
  PROVE  TypeInv'
<1>1. UNCHANGED <<store, streamVars, up, session, synced, held, reporting, sending, used>>
  BY DEF Commit, TaskStep, Operate, ReportStatus, reporterVars
<1>2. LeaderTypes' /\ UsedTypes'
  BY <1>1 DEF TypeInv, LeaderTypes, UsedTypes, streamVars
<1>3. FlagTypes'
  BY <1>1, Zenon DEF TypeInv, FlagTypes, streamVars
<1>4. WorkerTypes' /\ rq' \in [Tasks -> None..Final] /\ Alive'
  <2>1. CASE Commit
    <3>1. tx # NoTx /\ db' = tx /\ tx' = NoTx /\ UNCHANGED <<mgr, pending, rq>>
      BY <2>1 DEF Commit, reporterVars
    <3>2. WorkerTypes' /\ rq' \in [Tasks -> None..Final]
      BY <1>1, <3>1 DEF TypeInv, WorkerTypes, ReporterTypes
    <3>3. Alive'
      BY <1>1, <3>1 DEF TypeInv, Alive, streamVars
    <3> QED BY <3>2, <3>3
  <2>2. ASSUME NEW t \in Tasks, Operate(t) PROVE WorkerTypes' /\ rq' \in [Tasks -> None..Final] /\ Alive'
    <3>1. PICK s \in {Assigned, Active, Final} :
            /\ up /\ mgr' = [mgr EXCEPT ![t].state = s] /\ pending' = [pending EXCEPT ![t] = s]
            /\ UNCHANGED <<db, tx, rq>>
      BY <2>2, OperateEffect
    <3>2. mgr' \in [Tasks -> Record]
      <4>1. [mgr[t] EXCEPT !.state = s] \in Record
        BY DEF TypeInv, WorkerTypes, Record, None, Assigned, Active, Final
      <4> QED BY <3>1, <4>1 DEF TypeInv, WorkerTypes
    <3>3. WorkerTypes' /\ rq' \in [Tasks -> None..Final]
      BY <1>1, <3>1, <3>2 DEF TypeInv, WorkerTypes, ReporterTypes
    <3>4. Alive'
      BY <1>1, <3>1 DEF TypeInv, Alive, streamVars
    <3> QED BY <3>3, <3>4
  <2>3. ASSUME NEW t \in Tasks, ReportStatus(t) PROVE WorkerTypes' /\ rq' \in [Tasks -> None..Final] /\ Alive'
    <3>1. /\ up /\ pending' = [pending EXCEPT ![t] = None]
          /\ \/ /\ tx' = [db EXCEPT ![t].state = pending[t]]
                /\ rq' = [rq EXCEPT ![t] = Enqueue(rq, t, pending[t])]
             \/ UNCHANGED <<tx, rq>>
          /\ UNCHANGED <<db, mgr>>
      BY <2>3 DEF ReportStatus, PutTaskStatus
    <3>2. pending[t] \in None..Final /\ rq[t] \in None..Final
      BY DEF TypeInv, WorkerTypes, ReporterTypes, None, Assigned, Active, Final
    <3>3. [db EXCEPT ![t].state = pending[t]] \in [Tasks -> Record]
      <4>1. [db[t] EXCEPT !.state = pending[t]] \in Record
        BY <3>2 DEF TypeInv, WorkerTypes, Record
      <4> QED BY <4>1 DEF TypeInv, WorkerTypes
    <3>4. Enqueue(rq, t, pending[t]) \in None..Final
      BY <3>2 DEF Enqueue, Greater
    <3>5. WorkerTypes' /\ rq' \in [Tasks -> None..Final]
      BY <1>1, <3>1, <3>3, <3>4 DEF TypeInv, WorkerTypes, ReporterTypes
    <3>6. Alive'
      BY <1>1, <3>1 DEF TypeInv, Alive, streamVars
    <3> QED BY <3>5, <3>6
  <2> QED BY <2>1, <2>2, <2>3 DEF TaskStep
<1>5. ReporterTypes'
  BY <1>1, <1>4 DEF TypeInv, ReporterTypes
<1> QED BY <1>2, <1>3, <1>4, <1>5 DEF TypeInv

LEMMA UpdatedType ==
  ASSUME TypeInv, sending # NoSend
  PROVE  /\ sending.task \in Tasks /\ sending.state \in None..Final
         /\ Updated(sending.task, sending.state) \in Record
<1>1. sending.task \in Tasks /\ sending.state \in None..Final
  BY DEF TypeInv, ReporterTypes
<1>2. store[sending.task] \in Record
  BY <1>1 DEF TypeInv, LeaderTypes
<1>3. [store[sending.task] EXCEPT !.state = sending.state] \in Record
  BY <1>1, <1>2 DEF Record
<1> QED BY <1>1, <1>2, <1>3 DEF Updated

(* The status reporter.                                                     *)
LEMMA ReporterTypeStep ==
  ASSUME TypeInv, ReporterStep
  PROVE  TypeInv'
<1>1. CASE \E t \in Tasks : TakeStatus(t)
  <2>1. PICK t \in Tasks : TakeStatus(t)
    BY <1>1
  <2>2. /\ sending' = [task |-> t, state |-> rq[t]] /\ rq' = [rq EXCEPT ![t] = None]
        /\ UNCHANGED <<store, streamVars, up, session, synced, workerVars, reporting, used>>
    BY <2>1 DEF TakeStatus
  <2>3. LeaderTypes' /\ WorkerTypes' /\ UsedTypes'
    BY <2>2 DEF TypeInv, LeaderTypes, WorkerTypes, UsedTypes, streamVars, workerVars
  <2>4. FlagTypes' /\ Alive'
    BY <2>2 DEF TypeInv, FlagTypes, Alive, streamVars, workerVars
  <2>5. ReporterTypes'
    <3>1. rq[t] \in None..Final /\ None \in None..Final
      BY DEF TypeInv, ReporterTypes, None, Final
    <3> QED BY <2>2, <3>1 DEF TypeInv, ReporterTypes
  <2> QED BY <2>3, <2>4, <2>5 DEF TypeInv
<1>2. CASE SendStatus
  <2> DEFINE t == sending.task
             new == Updated(t, sending.state)
  <2>1. /\ up /\ session /\ sending # NoSend
        /\ store' = [store EXCEPT ![t] = new]
        /\ events' = IF new = store[t] THEN events ELSE Publish(t, new)
        /\ sending' = NoSend
        /\ UNCHANGED <<stream, aset, pipe, up, session, synced, workerVars, rq, reporting, used>>
    BY <1>2 DEF SendStatus
  <2>2. t \in Tasks /\ new \in Record
    BY <2>1, UpdatedType
  <2> HIDE DEF t, new
  <2>3. LeaderTypes'
    <3>1. [task |-> t, new |-> new] \in Event
      BY <2>2 DEF Event
    <3> QED BY <2>1, <2>2, <3>1 DEF TypeInv, LeaderTypes, Publish
  <2>4. WorkerTypes' /\ UsedTypes' /\ ReporterTypes'
    BY <2>1, ConstantTypes DEF TypeInv, WorkerTypes, UsedTypes, ReporterTypes, workerVars
  <2>5. FlagTypes'
    BY <2>1, Zenon DEF TypeInv, FlagTypes
  <2>6. Alive'
    <3>1. events' = Publish(t, new) \/ events' = events
      BY <2>1
    <3> QED BY <2>1, <3>1, PublishAlive DEF TypeInv, workerVars
  <2> QED BY <2>3, <2>4, <2>5, <2>6 DEF TypeInv
<1> QED BY <1>1, <1>2 DEF ReporterStep

(* Sessions.                                                                *)
LEMMA SessionTypeStep ==
  ASSUME TypeInv, Connect \/ Report \/ Break \/ SendFails
  PROVE  TypeInv'
<1>1. UNCHANGED <<up, synced, workerVars>>
  BY DEF Connect, Report, Break, SendFails
<1>2. WorkerTypes'
  BY <1>1 DEF TypeInv, WorkerTypes, workerVars
<1>3. CASE Connect \/ Report
  <2>1. UNCHANGED <<store, streamVars, sending, used>>
    BY <1>3 DEF Connect, Report
  <2>2. LeaderTypes' /\ UsedTypes'
    BY <2>1 DEF TypeInv, LeaderTypes, UsedTypes, streamVars
  <2>3. ReporterTypes' /\ FlagTypes' /\ Alive'
    <3>1. CASE Connect
      <4>1. up /\ session' = TRUE /\ reporting' = TRUE /\ rq' = rq
        BY <3>1 DEF Connect
      <4>2. ReporterTypes' /\ FlagTypes'
        BY <1>1, <2>1, <4>1 DEF TypeInv, FlagTypes, ReporterTypes, streamVars
      <4>3. Alive'
        BY <1>1, <2>1, <4>1, Zenon DEF TypeInv, Alive, streamVars, workerVars
      <4> QED BY <4>2, <4>3
    <3>2. CASE Report
      <4>1. session' = session /\ reporting' = FALSE /\ rq' = ReportAll
        BY <3>2 DEF Report
      <4>2. ReportAll \in [Tasks -> None..Final]
        <5>1. \A t \in Tasks : rq[t] \in None..Final /\ db[t].state \in None..Final
          BY DEF TypeInv, WorkerTypes, ReporterTypes, Record
        <5>2. \A t \in Tasks : Enqueue(rq, t, db[t].state) \in None..Final
          BY <5>1 DEF Enqueue, Greater
        <5> QED BY <5>1, <5>2 DEF ReportAll
      <4>3. ReporterTypes' /\ FlagTypes'
        BY <1>1, <2>1, <4>1, <4>2 DEF TypeInv, FlagTypes, ReporterTypes, streamVars
      <4>4. Alive'
        BY <1>1, <2>1, <4>1, Zenon DEF TypeInv, Alive, streamVars, workerVars
      <4> QED BY <4>3, <4>4
    <3> QED BY <1>3, <3>1, <3>2
  <2> QED BY <1>2, <2>2, <2>3 DEF TypeInv
<1>4. CASE Break \/ SendFails
  <2>1. /\ session' = FALSE /\ stream' = FALSE /\ events' = <<>> /\ pipe' = <<>>
        /\ aset' = EmptySet /\ reporting' = reporting /\ Spend("breaks", 1)
    BY <1>4 DEF Break, SendFails, DropSession, reporterVars
  <2>2. FlagTypes'
    BY <1>1, <2>1, Zenon DEF TypeInv, FlagTypes
  <2>3. Alive'
    BY <1>1, <2>1, Zenon DEF TypeInv, Alive, workerVars
  <2>4. UsedTypes'
    <3>1. "breaks" \in Kinds /\ 1 \in Nat
      BY DEF Kinds
    <3> QED BY <2>1, <3>1, SpentTypes DEF TypeInv
  <2>5. store' \in [Tasks -> Record] /\ ReporterTypes'
    <3>1. CASE Break
      BY <3>1 DEF Break, TypeInv, LeaderTypes, ReporterTypes, reporterVars
    <3>2. CASE SendFails
      <4> DEFINE t == sending.task
                 new == Updated(t, sending.state)
                 back == IF rq[t] = None THEN sending.state ELSE rq[t]
      <4>1. /\ sending # NoSend /\ sending' = NoSend
            /\ store' = store \/ store' = [store EXCEPT ![t] = new]
            /\ rq' = [rq EXCEPT ![t] = back]
        BY <3>2 DEF SendFails, PutBack
      <4>2. t \in Tasks /\ new \in Record /\ sending.state \in None..Final
        BY <4>1, UpdatedType
      <4>3. back \in None..Final
        BY <4>2 DEF TypeInv, ReporterTypes
      <4> HIDE DEF t, new, back
      <4>4. store' \in [Tasks -> Record]
        BY <4>1, <4>2 DEF TypeInv, LeaderTypes
      <4>5. ReporterTypes'
        BY <4>1, <4>3, ConstantTypes DEF TypeInv, ReporterTypes
      <4> QED BY <4>4, <4>5
    <3> QED BY <1>4, <3>1, <3>2
  <2>6. LeaderTypes'
    BY <2>1, <2>5, ConstantTypes DEF LeaderTypes
  <2> QED BY <1>2, <2>2, <2>3, <2>4, <2>5, <2>6 DEF TypeInv
<1> QED BY <1>3, <1>4

(* The database after a restart.                                            *)
Restarted(t, bad) ==
  IF db[t].state = None THEN NoRecord
  ELSE [db[t] EXCEPT !.state = Resolved(@, t \notin bad)]

LEMMA RestartedEffect ==
  ASSUME TypeInv, NEW t \in Tasks, NEW bad
  PROVE  /\ Restarted(t, bad) \in Record
         /\ db[t].state = None => Restarted(t, bad) = NoRecord
         /\ db[t].state # None =>
              /\ Restarted(t, bad).state \in {Active, Final}
              /\ Restarted(t, bad).state >= db[t].state
              /\ Restarted(t, bad).desired = db[t].desired
              /\ t \in bad => Restarted(t, bad).state = Final
<1> DEFINE s == Resolved(db[t].state, t \notin bad)
<1>1. db[t] \in Record /\ db[t].state \in None..Final /\ NoRecord \in Record
  BY ConstantTypes DEF TypeInv, WorkerTypes, Record
<1>2. s \in {Active, Final} /\ s >= db[t].state /\ (t \in bad => s = Final)
  BY <1>1, ResolvedEffect
<1>3. Restarted(t, bad) = IF db[t].state = None THEN NoRecord ELSE [db[t] EXCEPT !.state = s]
  BY DEF Restarted
<1>4. s \in None..Final
  BY <1>2 DEF None, Active, Final
<1> HIDE DEF s
<1>5. /\ [db[t] EXCEPT !.state = s] \in Record /\ [db[t] EXCEPT !.state = s].state = s
      /\ [db[t] EXCEPT !.state = s].desired = db[t].desired
  BY <1>1, <1>4 DEF Record
<1> QED BY <1>1, <1>2, <1>3, <1>5

(* Crashes and restarts.                                                    *)
LEMMA CrashTypeStep ==
  ASSUME TypeInv, Crash
  PROVE  TypeInv'
<1>1. /\ up' = FALSE /\ synced' = FALSE /\ session' = FALSE /\ stream' = FALSE
      /\ events' = <<>> /\ pipe' = <<>> /\ aset' = EmptySet
      /\ mgr' = [t \in Tasks |-> NoMgr] /\ pending' = [t \in Tasks |-> None]
      /\ held' = {} /\ tx' = NoTx
      /\ rq' = [t \in Tasks |-> None] /\ reporting' = FALSE /\ sending' = NoSend
      /\ store' = store /\ db' = db /\ Spend("crashes", 1)
  BY DEF Crash, DropSession
<1>2. LeaderTypes'
  BY <1>1, ConstantTypes DEF TypeInv, LeaderTypes
<1>3. WorkerTypes'
  BY <1>1, ConstantTypes DEF TypeInv, WorkerTypes
<1>4. ReporterTypes'
  <2>1. None \in None..Final
    BY DEF None, Final
  <2> QED BY <1>1, <2>1, ConstantTypes DEF ReporterTypes
<1>5. FlagTypes' /\ Alive'
  BY <1>1 DEF FlagTypes, Alive
<1>6. UsedTypes'
  <2>1. "crashes" \in Kinds /\ 1 \in Nat
    BY DEF Kinds
  <2> QED BY <1>1, <2>1, SpentTypes DEF TypeInv
<1> QED BY <1>2, <1>3, <1>4, <1>5, <1>6 DEF TypeInv

LEMMA RestartEffect ==
  ASSUME TypeInv, Restart
  PROVE  /\ ~up /\ up' = TRUE
         /\ UNCHANGED <<store, streamVars, session, synced, tx, pending, held, reporting, sending>>
         /\ \E bad \in SUBSET Tasks :
              /\ Spend("rejects", Cardinality(bad))
              /\ db' = [t \in Tasks |-> Restarted(t, bad)]
              /\ mgr' = [t \in Tasks |-> IF t \in bad THEN NoMgr ELSE db[t]]
              /\ rq' = [t \in Tasks |-> Restarted(t, bad).state]
              /\ \A t \in bad : db[t].state # None
<1> DEFINE started(bad) == [t \in Tasks |->
                              IF db[t].state = None THEN NoRecord
                              ELSE [db[t] EXCEPT !.state = Resolved(@, t \notin bad)]]
<1>1. \A bad : started(bad) = [t \in Tasks |-> Restarted(t, bad)]
  BY DEF Restarted
<1>2. PICK bad \in SUBSET {t \in Tasks : db[t].state # None} :
        /\ Spend("rejects", Cardinality(bad))
        /\ db' = started(bad)
        /\ mgr' = [t \in Tasks |-> IF t \in bad THEN NoMgr ELSE db[t]]
        /\ rq' = [t \in Tasks |-> started(bad)[t].state]
  BY DEF Restart
<1> HIDE DEF started
<1>3. \A t \in Tasks : started(bad)[t] = Restarted(t, bad)
  BY <1>1
<1>4. /\ rq' = [t \in Tasks |-> Restarted(t, bad).state]
  BY <1>2, <1>3
<1>5. bad \in SUBSET Tasks /\ \A t \in bad : db[t].state # None
  BY <1>2
<1> QED BY <1>1, <1>2, <1>4, <1>5 DEF Restart

LEMMA RestartTypeStep ==
  ASSUME TypeInv, Restart
  PROVE  TypeInv'
<1>1. /\ ~up /\ up' = TRUE
      /\ UNCHANGED <<store, streamVars, session, synced, tx, pending, held, reporting, sending>>
  BY RestartEffect
<1>2. PICK bad \in SUBSET Tasks :
        /\ Spend("rejects", Cardinality(bad))
        /\ db' = [t \in Tasks |-> Restarted(t, bad)]
        /\ mgr' = [t \in Tasks |-> IF t \in bad THEN NoMgr ELSE db[t]]
        /\ rq' = [t \in Tasks |-> Restarted(t, bad).state]
  BY RestartEffect
<1>3. /\ \A t \in Tasks : Restarted(t, bad) \in Record /\ Restarted(t, bad).state \in None..Final
      /\ NoMgr \in Record
  <2>1. \A t \in Tasks : Restarted(t, bad) \in Record
    BY RestartedEffect
  <2> QED BY <2>1, ConstantTypes DEF Record
<1>4. LeaderTypes'
  BY <1>1 DEF TypeInv, LeaderTypes, streamVars
<1>5. WorkerTypes'
  BY <1>1, <1>2, <1>3 DEF TypeInv, WorkerTypes
<1>6. ReporterTypes'
  BY <1>1, <1>2, <1>3 DEF TypeInv, ReporterTypes
<1>7. FlagTypes'
  BY <1>1, Zenon DEF TypeInv, FlagTypes, streamVars
<1>8. Alive'
  BY <1>1 DEF TypeInv, Alive, streamVars
<1>9. UsedTypes'
  BY <1>2, RejectsCounted DEF TypeInv
<1> QED BY <1>4, <1>5, <1>6, <1>7, <1>8, <1>9 DEF TypeInv

LEMMA TypeStep == TypeInv /\ [Next]_vars => TypeInv'
<1> SUFFICES ASSUME TypeInv, [Next]_vars PROVE TypeInv'
  OBVIOUS
<1>1. CASE Next
  BY <1>1, LeaderTypeStep, StreamTypeStep, ReceiveTypeStep, WorkerTypeStep, ReporterTypeStep,
     SessionTypeStep, CrashTypeStep, RestartTypeStep DEF Next
<1>2. CASE UNCHANGED vars
  <2>1. LeaderTypes' /\ WorkerTypes' /\ ReporterTypes' /\ UsedTypes'
    BY <1>2 DEF TypeInv, LeaderTypes, WorkerTypes, ReporterTypes, UsedTypes, vars
  <2>2. FlagTypes' /\ Alive'
    BY <1>2, Zenon DEF TypeInv, FlagTypes, Alive, vars
  <2> QED BY <2>1, <2>2 DEF TypeInv
<1> QED BY <1>1, <1>2

(* The inductive form of TypeOK: the types of the messages, events and      *)
(* transactions as well, and that a stream that has ended, or an agent that *)
(* is down, leaves nothing behind in the queue, on the wire or in memory.   *)
THEOREM TypeInvariant == Spec => []TypeInv
BY TypeInit, TypeStep, PTL DEF Spec

(* Every variable of the agent, the dispatcher's stream and the reporter    *)
(* keeps its type, and a stream belongs to a live session of a running      *)
(* agent.                                                                   *)
THEOREM TypeCorrect == Spec => []TypeOK
<1>1. TypeInv => TypeOK
  <2> SUFFICES ASSUME TypeInv PROVE TypeOK
    OBVIOUS
  <2>1. /\ store \in [Tasks -> Record] /\ db \in [Tasks -> Record] /\ mgr \in [Tasks -> Record]
        /\ aset.tasks \in [Tasks -> Record] /\ aset.using \in [Resources -> SUBSET Tasks]
        /\ held \subseteq Resources
    BY DEF TypeInv, LeaderTypes, WorkerTypes, ASet
  <2>2. {stream, up, session, synced, reporting} \subseteq BOOLEAN
    BY Zenon DEF TypeInv, FlagTypes
  <2>3. pending \in [Tasks -> None..Final] /\ rq \in [Tasks -> None..Final]
    BY DEF TypeInv, WorkerTypes, ReporterTypes, None, Assigned, Active, Final
  <2>4. sending \in [task : Tasks \cup {NoTask}, state : None..Final]
    BY DEF TypeInv, ReporterTypes
  <2>5. stream => session /\ up
    BY DEF TypeInv, Alive
  <2> QED BY <2>1, <2>2, <2>3, <2>4, <2>5 DEF TypeOK
<1> QED BY <1>1, TypeInvariant, PTL

-----------------------------------------------------------------------------
(* The node: what is on disk, or about to be, and the task managers.        *)

(* Managers exist for tasks that are written, and are to do at least what   *)
(* is written; a written task without one is one whose controller could not *)
(* be resolved.                                                             *)
Managed(t) ==
  /\ db[t].state \in {None, Assigned, Active, Final}
  /\ Written[t].state \in {None, Assigned, Active, Final}
  /\ db[t].state = None => db[t] = NoRecord
  /\ Written[t].state = None => Written[t] = NoRecord
  /\ up /\ mgr[t] = NoMgr /\ Written[t].state # None => used["rejects"] > 0
  /\ mgr[t] # NoMgr =>
       /\ mgr[t].state \in {Assigned, Active, Final}
       /\ Written[t].state # None /\ mgr[t].desired >= Written[t].desired

NodeInv == \A t \in Tasks : Managed(t)

LEMMA WrittenTx ==
  ASSUME NEW t \in Tasks
  PROVE  /\ tx \in [Tasks -> Record] => tx # NoTx /\ Written[t] = tx[t]
         /\ tx = NoTx => Written[t] = db[t]
         /\ tx' \in [Tasks -> Record] => tx' # NoTx /\ Written'[t] = tx'[t]
         /\ tx' = NoTx => Written'[t] = db'[t]
<1>1. \A f : f \in [Tasks -> Record] => f # NoTx
  BY DEF NoTx
<1> QED BY <1>1 DEF Written

(* Types of one task.                                                       *)
LEMMA TaskTypes ==
  ASSUME TypeInv, NEW t \in Tasks
  PROVE  /\ store[t] \in Record /\ db[t] \in Record /\ mgr[t] \in Record /\ Written[t] \in Record
         /\ store[t].state \in 0..4 /\ db[t].state \in 0..4 /\ mgr[t].state \in 0..4
         /\ Written[t].state \in 0..4
         /\ store[t].desired \in {1, 2} /\ db[t].desired \in {1, 2}
         /\ mgr[t].desired \in {1, 2} /\ Written[t].desired \in {1, 2}
         /\ pending[t] \in {0, 2, 3, 4} /\ rq[t] \in 0..4
<1>1. store[t] \in Record /\ db[t] \in Record /\ mgr[t] \in Record /\ Written[t] \in Record
  BY DEF TypeInv, LeaderTypes, WorkerTypes, Written
<1>2. \A r \in Record : r.state \in 0..4 /\ r.desired \in {1, 2}
  BY DEF Record, None, Final, Run, Shut
<1> QED BY <1>1, <1>2 DEF TypeInv, WorkerTypes, ReporterTypes, None, Assigned, Active, Final

(* The steps that leave the node alone.                                     *)
NodeSame == UNCHANGED <<up, db, tx, mgr, pending>>

LEMMA NodeFrame ==
  ASSUME [Next]_vars
  PROVE  \/ NodeSame
         \/ ReceiveAssignments \/ Commit \/ Crash \/ Restart
         \/ \E t \in Tasks : Operate(t) \/ ReportStatus(t)
<1>1. CASE UNCHANGED vars
  BY <1>1 DEF vars, NodeSame
<1>2. ASSUME NEW t \in Tasks, Schedule(t) \/ SetShutdown(t) \/ DeleteTask(t) \/ TakeStatus(t)
      PROVE  NodeSame
  BY <1>2 DEF Schedule, SetShutdown, DeleteTask, TakeStatus, workerVars, NodeSame
<1>3. CASE StreamStep
  BY <1>3 DEF StreamStep, OpenAssignments, SendBatch, workerVars, NodeSame
<1>4. CASE SendStatus
  BY <1>4 DEF SendStatus, workerVars, NodeSame
<1>5. CASE Connect \/ Report \/ Break \/ SendFails
  BY <1>5 DEF Connect, Report, Break, SendFails, workerVars, NodeSame
<1> QED BY <1>1, <1>2, <1>3, <1>4, <1>5 DEF Next, TaskStep, ReporterStep

(* What is spent is spent, and crashes are counted.                         *)
LEMMA BudgetStep ==
  ASSUME TypeInv, [Next]_vars
  PROVE  /\ used["rejects"] \in Nat /\ used'["rejects"] \in Nat
         /\ used'["rejects"] >= used["rejects"]
         /\ used'["crashes"] = 0 => used["crashes"] = 0 /\ ~Crash
<1>1. used \in [Kinds -> Nat] /\ used' \in [Kinds -> Nat]
  BY TypeStep DEF TypeInv, UsedTypes
<1>2. {"changes", "crashes", "breaks", "rejects"} = Kinds
  BY DEF Kinds
<1>3. CASE Crash
  BY <1>1, <1>2, <1>3 DEF Crash, Spend
<1>4. CASE used' = used /\ ~Crash
  BY <1>1, <1>2, <1>4
<1>5. CASE Change /\ ~Crash
  BY <1>1, <1>2, <1>5 DEF Change, Spend
<1>6. CASE Spend("breaks", 1) /\ ~Crash
  BY <1>1, <1>2, <1>6 DEF Spend
<1>7. CASE (\E bad \in SUBSET Tasks : Spend("rejects", Cardinality(bad))) /\ ~Crash
  BY <1>1, <1>2, <1>7, RejectsCounted DEF TypeInv
<1>8. \/ Crash \/ used' = used \/ Change \/ Spend("breaks", 1)
      \/ \E bad \in SUBSET Tasks : Spend("rejects", Cardinality(bad))
  <2>1. CASE UNCHANGED vars
    BY <2>1 DEF vars
  <2>2. ASSUME NEW t \in Tasks, Schedule(t) \/ SetShutdown(t) \/ DeleteTask(t) \/ TaskStep(t)
        PROVE  used' = used \/ Change
    BY <2>2 DEF Schedule, SetShutdown, DeleteTask, TaskStep, Operate, ReportStatus
  <2>3. CASE StreamStep \/ Commit \/ ReporterStep \/ Connect \/ Report
    BY <2>3 DEF StreamStep, OpenAssignments, SendBatch, Commit, ReporterStep, TakeStatus,
                SendStatus, Connect, Report
  <2>4. CASE Break \/ SendFails
    BY <2>4 DEF Break, SendFails
  <2>5. CASE ReceiveAssignments
    BY <2>5 DEF ReceiveAssignments
  <2>6. CASE Restart
    BY <2>6, RestartEffect
  <2> QED BY <2>1, <2>2, <2>3, <2>4, <2>5, <2>6 DEF Next
<1> QED BY <1>3, <1>4, <1>5, <1>6, <1>7, <1>8

LEMMA NodeInit == Init => NodeInv
<1> SUFFICES ASSUME Init, NEW t \in Tasks PROVE Managed(t)
  BY DEF NodeInv
<1>1. db[t] = NoRecord /\ db[t].state = None /\ tx = NoTx /\ mgr[t] = NoMgr
  BY DEF Init, NoRecord
<1>2. Written[t] = db[t]
  BY <1>1, WrittenTx
<1> QED BY <1>1, <1>2 DEF Managed

(* The status a manager starts with and the one that is written for it.     *)
LEMMA StartEffect ==
  ASSUME TypeInv, NodeInv, NEW msg \in Msg, NEW t \in Tasks, NEW ok \in BOOLEAN,
         msg.changes[t].action = "update"
  PROVE  LET c == msg.changes[t]
             d == Stored(t, c.task.state)
             s == StartStatus(t, c, ok)
         IN /\ d \in {Assigned, Active, Final} /\ d >= db[t].state
            /\ db[t].state # None => d = db[t].state
            /\ s \in {Active, Final} /\ s >= d
            /\ ok => s = d \/ (s = Active /\ d = Assigned)
            /\ ~ok => s = Final
<1> DEFINE c == msg.changes[t]
           d == Stored(t, c.task.state)
<1>1. c \in ChangeOf /\ c.task.state \in None..Final /\ c.task.state >= Assigned
  BY KeyTypes DEF Msg, Changes, ChangeOf, Record
<1>2. db[t].state \in {None, Assigned, Active, Final}
  BY DEF NodeInv, Managed
<1>3. d = IF db[t].state # None THEN db[t].state ELSE c.task.state
  BY DEF Stored
<1> HIDE DEF c, d
<1>4. /\ d \in {Assigned, Active, Final} /\ d >= db[t].state
      /\ db[t].state # None => d = db[t].state
  BY <1>1, <1>2, <1>3 DEF None, Assigned, Active, Final
<1>5. LET s == Resolved(d, ok)
      IN /\ s \in {Active, Final} /\ s >= d
         /\ ok => s = d \/ (s = Active /\ d = Assigned)
         /\ ~ok => s = Final
  BY <1>4 DEF Resolved, Greater, None, Assigned, Active, Final
<1> QED BY <1>4, <1>5 DEF StartStatus, c, d

(* A message and a task.                                                    *)
LEMMA ReceiveNodeStep ==
  ASSUME TypeInv, NodeInv, ReceiveAssignments, NEW t \in Tasks
  PROVE  Managed(t)'
<1>1. PICK bad \in SUBSET Tasks :
        Reconcile(Head(pipe), bad) /\ Spend("rejects", Cardinality(bad))
  BY DEF ReceiveAssignments
<1>2. Head(pipe) \in Msg /\ tx = NoTx /\ up /\ up' = up
  BY PipeTail DEF ReceiveAssignments, TypeInv, LeaderTypes
<1> DEFINE c == Head(pipe).changes[t]
           ok == t \notin bad
           d == Stored(t, c.task.state)
           s == StartStatus(t, c, ok)
<1>3. /\ TaskReconciled(t, c, Gone(t, Head(pipe)), ok)
      /\ tx' \in [Tasks -> Record] /\ mgr' \in [Tasks -> Record]
      /\ db' = db /\ pending' = pending
  BY <1>1, <1>2, ReconcileEffect
<1>4. /\ Written[t] = db[t] /\ Written'[t] = tx'[t] /\ tx' # NoTx
  BY <1>2, <1>3, WrittenTx
<1>5. /\ c \in ChangeOf /\ c.task \in Record /\ c.task.state \in None..Final
      /\ c.task.desired \in {1, 2}
  BY <1>2, KeyTypes DEF Msg, Changes, ChangeOf, Record, Run, Shut
<1>6. c.action = "update" => d \in {Assigned, Active, Final} /\ s \in {Active, Final}
  BY <1>2, StartEffect
<1>7. /\ used["rejects"] \in Nat /\ used'["rejects"] \in Nat
      /\ used'["rejects"] >= used["rejects"]
      /\ ~ok => used'["rejects"] > 0
  BY <1>1, RejectsCounted DEF TypeInv, UsedTypes, Kinds
<1>8. /\ Managed(t) /\ db[t] \in Record /\ mgr[t] \in Record
      /\ mgr[t].desired \in {1, 2} /\ db[t].state \in 0..4
  BY TaskTypes DEF NodeInv
<1>9. NoMgr.state = None /\ NoRecord.state = None
  BY DEF NoMgr, NoRecord
<1> HIDE DEF c, ok, s, d
<1>10. CASE c.action = "update" /\ mgr[t] = NoMgr
  <2>1. /\ tx'[t].state = s /\ tx'[t].desired = c.task.desired
        /\ ok => mgr'[t].state = d /\ mgr'[t].desired = c.task.desired
        /\ ~ok => mgr'[t] = NoMgr
    BY <1>3, <1>10 DEF TaskReconciled, s, d
  <2>2. ok => mgr'[t] # NoMgr
    BY <1>6, <1>9, <1>10, <2>1 DEF None, Assigned, Active, Final
  <2> QED BY <1>2, <1>3, <1>4, <1>5, <1>6, <1>7, <1>8, <1>9, <1>10, <2>1, <2>2
         DEF Managed, None, Assigned, Active, Final
<1>11. CASE c.action = "update" /\ mgr[t] # NoMgr
  <2>1. /\ tx'[t].state = db[t].state /\ tx'[t].desired = c.task.desired
        /\ mgr'[t].state = mgr[t].state
        /\ mgr'[t].desired = Greater(mgr[t].desired, c.task.desired)
    BY <1>3, <1>8, <1>11 DEF TaskReconciled, Record
  <2>2. mgr'[t].desired >= c.task.desired
    BY <1>5, <1>8, <2>1 DEF Greater
  <2> QED BY <1>2, <1>3, <1>4, <1>7, <1>8, <1>9, <1>11, <2>1, <2>2
         DEF Managed, None, Assigned, Active, Final
<1>12. CASE c.action # "update" /\ Gone(t, Head(pipe))
  <2>1. tx'[t] = NoRecord /\ mgr'[t] = NoMgr
    BY <1>3, <1>12 DEF TaskReconciled
  <2> QED BY <1>3, <1>4, <1>8, <1>9, <2>1 DEF Managed
<1>13. CASE c.action # "update" /\ ~Gone(t, Head(pipe))
  <2>1. tx'[t] = db[t] /\ mgr'[t] = mgr[t]
    BY <1>3, <1>13 DEF TaskReconciled
  <2> QED BY <1>2, <1>3, <1>4, <1>7, <1>8, <2>1 DEF Managed
<1> QED BY <1>10, <1>11, <1>12, <1>13

LEMMA NodeStep == TypeInv /\ NodeInv /\ [Next]_vars => NodeInv'
<1> SUFFICES ASSUME TypeInv, NodeInv, [Next]_vars, NEW t \in Tasks
             PROVE  Managed(t)'
  BY DEF NodeInv
<1>1. Managed(t)
  BY DEF NodeInv
<1>2. /\ used["rejects"] \in Nat /\ used'["rejects"] \in Nat
      /\ used'["rejects"] >= used["rejects"]
  BY BudgetStep
<1>3. CASE NodeSame
  <2>1. Written' = Written /\ UNCHANGED <<up, db, tx, mgr, pending>>
    BY <1>3 DEF NodeSame, Written
  <2> QED BY <1>1, <1>2, <2>1 DEF Managed
<1>4. CASE ReceiveAssignments
  BY <1>4, ReceiveNodeStep
<1>5. CASE Commit
  <2>1. tx # NoTx /\ db' = tx /\ tx' = NoTx /\ UNCHANGED <<up, mgr, pending>>
    BY <1>5 DEF Commit
  <2>2. tx \in [Tasks -> Record]
    BY <2>1 DEF TypeInv, WorkerTypes
  <2>3. Written[t] = tx[t] /\ Written'[t] = tx[t]
    BY <2>1, <2>2, WrittenTx
  <2> QED BY <1>1, <1>2, <2>1, <2>3 DEF Managed
<1>6. CASE Crash
  <2>1. mgr'[t] = NoMgr /\ tx' = NoTx /\ db' = db /\ up' = FALSE
    BY <1>6 DEF Crash
  <2>2. Written'[t] = db[t]
    BY <2>1, WrittenTx
  <2> QED BY <1>1, <2>1, <2>2 DEF Managed
<1>7. CASE Restart
  <2>1. ~up /\ tx' = tx /\ pending' = pending
    BY <1>7, RestartEffect
  <2>2. tx = NoTx
    BY <2>1 DEF TypeInv, Alive
  <2>3. PICK bad \in SUBSET Tasks :
          /\ Spend("rejects", Cardinality(bad))
          /\ db' = [u \in Tasks |-> Restarted(u, bad)]
          /\ mgr' = [u \in Tasks |-> IF u \in bad THEN NoMgr ELSE db[u]]
          /\ \A u \in bad : db[u].state # None
    BY <1>7, RestartEffect
  <2>4. t \in bad => used'["rejects"] > 0
    BY <2>3, RejectsCounted DEF TypeInv
  <2>5. /\ db'[t] = Restarted(t, bad) /\ Written'[t] = Restarted(t, bad)
        /\ mgr'[t] = IF t \in bad THEN NoMgr ELSE db[t]
    BY <2>1, <2>2, <2>3, WrittenTx
  <2>6. /\ db[t].state = None => Restarted(t, bad) = NoRecord
        /\ db[t].state # None => /\ Restarted(t, bad).state \in {Active, Final}
                                 /\ Restarted(t, bad).desired = db[t].desired
    BY RestartedEffect
  <2>7. NoMgr.state = None /\ NoMgr = NoRecord /\ db[t].desired \in {1, 2}
    BY TaskTypes DEF NoMgr, NoRecord
  <2>8. CASE db[t].state = None
    <3>1. mgr'[t] = NoMgr
      BY <1>1, <2>5, <2>7, <2>8 DEF Managed
    <3> QED BY <1>2, <2>5, <2>6, <2>7, <2>8, <3>1 DEF Managed
  <2>9. CASE db[t].state # None
    <3>1. db[t] # NoMgr
      BY <2>7, <2>9
    <3> QED BY <1>1, <1>2, <2>4, <2>5, <2>6, <2>7, <2>9, <3>1
           DEF Managed, None, Active, Final
  <2> QED BY <2>8, <2>9
<1>8. ASSUME NEW u \in Tasks, Operate(u) PROVE Managed(t)'
  <2>1. PICK s \in {Assigned, Active, Final} :
          /\ mgr[u] # NoMgr /\ mgr' = [mgr EXCEPT ![u].state = s]
          /\ UNCHANGED <<db, tx>>
    BY <1>8, OperateEffect
  <2>2. Written' = Written /\ up' = up
    BY <1>8, <2>1 DEF Written, Operate
  <2>3. mgr \in [Tasks -> Record]
    BY DEF TypeInv, WorkerTypes
  <2>4. CASE t = u
    <3>1. mgr'[t].state = s /\ mgr'[t].desired = mgr[t].desired
      BY <2>1, <2>3, <2>4 DEF Record
    <3>2. NoMgr.state = None
      BY DEF NoMgr, NoRecord
    <3>3. s # None
      BY DEF None, Assigned, Active, Final
    <3>4. mgr'[t] # NoMgr /\ mgr'[t].state \in {Assigned, Active, Final}
      BY <3>1, <3>2, <3>3
    <3> QED BY <1>1, <2>1, <2>2, <2>4, <3>1, <3>4 DEF Managed
  <2>5. CASE t # u
    <3>1. mgr'[t] = mgr[t]
      BY <2>1, <2>3, <2>5
    <3> QED BY <1>1, <1>2, <2>1, <2>2, <3>1 DEF Managed
  <2> QED BY <2>4, <2>5
<1>9. ASSUME NEW u \in Tasks, ReportStatus(u) PROVE Managed(t)'
  <2>1. /\ tx = NoTx /\ pending[u] # None
        /\ IF db[u].state # None THEN tx' = PutTaskStatus(u, pending[u]) ELSE tx' = tx
        /\ UNCHANGED <<up, db, mgr>>
    BY <1>9 DEF ReportStatus
  <2>2. pending[u] \in {Assigned, Active, Final} /\ Written[t] = db[t] /\ db \in [Tasks -> Record]
    BY <2>1, WrittenTx DEF TypeInv, WorkerTypes
  <2>3. CASE db[u].state = None
    <3>1. tx' = NoTx /\ Written'[t] = db[t]
      BY <2>1, <2>3, WrittenTx
    <3> QED BY <1>1, <1>2, <2>1, <2>2, <3>1 DEF Managed
  <2>4. CASE db[u].state # None
    <3>1. tx' = [db EXCEPT ![u].state = pending[u]]
      BY <2>1, <2>4 DEF PutTaskStatus
    <3>2. tx' \in [Tasks -> Record]
      BY <2>2, <3>1 DEF Record, None, Assigned, Active, Final
    <3>3. tx' # NoTx /\ Written'[t] = tx'[t]
      BY <3>2, WrittenTx
    <3>4. CASE t = u
      <4>1. tx'[t].state = pending[u] /\ tx'[t].desired = db[t].desired
        BY <2>2, <3>1, <3>4 DEF Record
      <4> QED BY <1>1, <1>2, <2>1, <2>2, <2>4, <3>3, <3>4, <4>1
             DEF Managed, None, Assigned, Active, Final
    <3>5. CASE t # u
      <4>1. tx'[t] = db[t]
        BY <2>2, <3>1, <3>5
      <4> QED BY <1>1, <1>2, <2>1, <2>2, <3>3, <4>1 DEF Managed
    <3> QED BY <3>4, <3>5
  <2> QED BY <2>3, <2>4
<1> QED BY <1>3, <1>4, <1>5, <1>6, <1>7, <1>8, <1>9, NodeFrame

-----------------------------------------------------------------------------
(* The leader: how the record of a task changes in the store.               *)

Assigns(t, new) ==
  store[t].state = Pending /\ new = [store[t] EXCEPT !.state = Assigned]
Shuts(t, new) ==
  store[t].state \in Assigned..Final /\ new = [store[t] EXCEPT !.desired = Shut]
Deletes(t, new) == store[t].state = Final /\ new = NoRecord
Progresses(t, new) ==
  /\ sending # NoSend /\ sending.task = t
  /\ store[t].state # None /\ sending.state > store[t].state
  /\ new = [store[t] EXCEPT !.state = sending.state]

Ordered(t, new) == Assigns(t, new) \/ Shuts(t, new) \/ Deletes(t, new)

StoreMove(t, new) == Ordered(t, new) \/ Progresses(t, new)

(* The leader writes a record, and a stream hears of it.                    *)
LeaderWrites(t, new) ==
  /\ store' = [store EXCEPT ![t] = new] /\ events' = Publish(t, new)
  /\ UNCHANGED <<stream, aset, pipe, up, session, synced, db, tx, mgr, pending, held, rq,
                 reporting>>
  /\ \/ Ordered(t, new) /\ sending' = sending
     \/ Progresses(t, new) /\ sending' = NoSend

(* The session ends; a report may have reached the leader before.           *)
SessionDrops ==
  /\ stream' = FALSE /\ session' = FALSE
  /\ events' = <<>> /\ pipe' = <<>> /\ aset' = EmptySet
  /\ \/ store' = store
     \/ \E t \in Tasks : \E new \in Record :
          Progresses(t, new) /\ store' = [store EXCEPT ![t] = new]

LEMMA MoveEffect ==
  ASSUME TypeInv, NEW t \in Tasks, NEW new \in Record, StoreMove(t, new)
  PROVE  /\ store[t].state # None
         /\ new.state \in 0..4 /\ new.desired \in {1, 2}
         /\ new.state >= store[t].state \/ new = NoRecord
         /\ new.state # Pending
         /\ new.state # None =>
              new.state = store[t].state \/ new.desired = store[t].desired
         /\ Assigns(t, new) => new.state = Assigned /\ new.desired = store[t].desired
         /\ Shuts(t, new) => new.state = store[t].state /\ new.desired = Shut
         /\ Deletes(t, new) => new.state = None
         /\ Progresses(t, new) => new.state = sending.state /\ new.desired = store[t].desired
         /\ store[t].state # Pending \/ Assigns(t, new) \/ Progresses(t, new)
<1>1. store[t] \in Record /\ store[t].state \in 0..4 /\ NoRecord.state = 0
  BY TaskTypes DEF NoRecord, None
<1>2. new.state \in 0..4 /\ new.desired \in {1, 2}
  BY DEF Record, None, Final, Run, Shut
<1>3. /\ Assigns(t, new) => new.state = Assigned /\ new.desired = store[t].desired
      /\ Shuts(t, new) => new.state = store[t].state /\ new.desired = Shut
      /\ Deletes(t, new) => new.state = None
      /\ Progresses(t, new) => new.state = sending.state /\ new.desired = store[t].desired
  BY <1>1 DEF Assigns, Shuts, Deletes, Progresses, Record, None
<1>4. /\ Assigns(t, new) => store[t].state = 1
      /\ Shuts(t, new) => store[t].state \in 2..4
      /\ Deletes(t, new) => store[t].state = 4 /\ new = NoRecord
      /\ Progresses(t, new) => store[t].state # 0 /\ sending.state > store[t].state
  BY DEF Assigns, Shuts, Deletes, Progresses, None, Pending, Assigned, Final
<1> USE DEF None, Pending, Assigned
<1>5. CASE Assigns(t, new)
  BY <1>1, <1>2, <1>3, <1>4, <1>5
<1>6. CASE Shuts(t, new)
  BY <1>1, <1>2, <1>3, <1>4, <1>6
<1>7. CASE Deletes(t, new)
  BY <1>1, <1>2, <1>3, <1>4, <1>7
<1>8. CASE Progresses(t, new)
  BY <1>1, <1>2, <1>3, <1>4, <1>8
<1> QED BY <1>5, <1>6, <1>7, <1>8 DEF StoreMove, Ordered

(* A status report either changes nothing or moves the task it is about.    *)
LEMMA UpdatedMove ==
  ASSUME TypeInv, sending # NoSend
  PROVE  LET t == sending.task
             new == Updated(t, sending.state)
         IN new = store[t] \/ Progresses(t, new)
<1>1. sending.task \in Tasks
  BY UpdatedType
<1> QED BY <1>1 DEF Updated, Progresses

(* The steps of the leader and of the stream.                               *)
LEMMA LeaderFrame ==
  ASSUME TypeInv, [Next]_vars
  PROVE  \/ /\ UNCHANGED <<store, stream, events, aset>>
            /\ pipe' = pipe \/ ReceiveAssignments
         \/ \E t \in Tasks : \E new \in Record : LeaderWrites(t, new)
         \/ SessionDrops
         \/ OpenAssignments \/ SendBatch
<1>1. CASE UNCHANGED vars
  BY <1>1 DEF vars
<1>2. ASSUME NEW t \in Tasks, Schedule(t) \/ SetShutdown(t) \/ DeleteTask(t)
      PROVE  \E new \in Record : LeaderWrites(t, new)
  <2>1. PICK new : Ordered(t, new) /\ Write(t, new)
    <3>1. CASE Schedule(t)
      BY <3>1 DEF Schedule, Assigns, Ordered
    <3>2. CASE SetShutdown(t)
      BY <3>2 DEF SetShutdown, Shuts, Ordered
    <3>3. CASE DeleteTask(t)
      BY <3>3 DEF DeleteTask, Deletes, Ordered
    <3> QED BY <1>2, <3>1, <3>2, <3>3
  <2>2. store[t] \in Record
    BY TaskTypes
  <2>3. new \in Record
    <3>1. /\ [store[t] EXCEPT !.state = Assigned] \in Record
          /\ [store[t] EXCEPT !.desired = Shut] \in Record /\ NoRecord \in Record
      BY <2>2, ConstantTypes DEF Record, None, Assigned, Final
    <3> QED BY <2>1, <3>1 DEF Assigns, Shuts, Deletes, Ordered
  <2>4. UNCHANGED <<stream, aset, pipe, up, session, synced, workerVars, reporterVars>>
    BY <1>2 DEF Schedule, SetShutdown, DeleteTask
  <2> QED BY <2>1, <2>3, <2>4 DEF LeaderWrites, Write, workerVars, reporterVars
<1>3. CASE SendStatus
  <2> DEFINE t == sending.task
             new == Updated(t, sending.state)
  <2>1. /\ sending # NoSend
        /\ store' = [store EXCEPT ![t] = new]
        /\ events' = IF new = store[t] THEN events ELSE Publish(t, new)
        /\ sending' = NoSend
        /\ UNCHANGED <<stream, aset, pipe, up, session, synced, workerVars, rq, reporting>>
    BY <1>3 DEF SendStatus
  <2>2. t \in Tasks /\ new \in Record /\ (new = store[t] \/ Progresses(t, new))
    BY <2>1, UpdatedType, UpdatedMove
  <2> HIDE DEF t, new
  <2>3. CASE new = store[t]
    BY <2>1, <2>2, <2>3 DEF TypeInv, LeaderTypes
  <2>4. CASE new # store[t]
    BY <2>1, <2>2, <2>4 DEF LeaderWrites, workerVars
  <2> QED BY <2>3, <2>4
<1>4. CASE Break \/ Crash
  BY <1>4 DEF Break, Crash, DropSession, SessionDrops
<1>5. CASE SendFails
  <2> DEFINE t == sending.task
             new == Updated(t, sending.state)
  <2>1. /\ sending # NoSend /\ DropSession
        /\ store' = store \/ store' = [store EXCEPT ![t] = new]
    BY <1>5 DEF SendFails
  <2>2. t \in Tasks /\ new \in Record /\ (new = store[t] \/ Progresses(t, new))
    BY <2>1, UpdatedType, UpdatedMove
  <2> HIDE DEF t, new
  <2>3. new = store[t] => [store EXCEPT ![t] = new] = store
    BY <2>2 DEF TypeInv, LeaderTypes
  <2> QED BY <2>1, <2>2, <2>3 DEF DropSession, SessionDrops
<1>6. CASE ReceiveAssignments
  BY <1>6 DEF ReceiveAssignments
<1>7. ASSUME NEW t \in Tasks, TaskStep(t) \/ TakeStatus(t)
      PROVE  UNCHANGED <<store, stream, events, aset, pipe>>
  BY <1>7 DEF TaskStep, Operate, ReportStatus, TakeStatus, streamVars
<1>8. CASE Commit \/ Connect \/ Report \/ Restart
  BY <1>8 DEF Commit, Connect, Report, Restart, streamVars
<1> QED BY <1>1, <1>2, <1>3, <1>4, <1>5, <1>6, <1>7, <1>8 DEF Next, StreamStep, ReporterStep

=============================================================================
