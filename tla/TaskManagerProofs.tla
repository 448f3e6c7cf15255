------------------------- MODULE TaskManagerProofs -------------------------
(* Proofs about the task manager, for any number of updates, temporary      *)
(* errors and operations: its variables keep their types whatever happens,  *)
(* and until an update arrives while a retry timer runs, it keeps disk and  *)
(* controller up to date and implements the task lifecycle.  After such an  *)
(* update it does not (run task_retry).                                     *)
EXTENDS TaskManager, TLAPS

----------------------------------------------------------------------------
(* The inductive invariant                                                  *)

Active(i) == ops[i].pc # "idle"

(* A move of a task in state s that its lifecycle allows for desired state  *)
(* d, or none.                                                              *)
Moves(s, d, n) ==
  \/ n = s
  \/ /\ s < Lifecycle!Complete
     /\ \/ /\ n = s + 1
           /\ s < d \/ (s = d /\ s \in Lifecycle!Operating)
        \/ /\ n = IF s < Lifecycle!Starting THEN Lifecycle!Rejected ELSE Lifecycle!Failed
           /\ s \in Lifecycle!Operating \/ d >= Lifecycle!Shutdown
        \/ n = Lifecycle!Shutdown /\ d >= Lifecycle!Shutdown

(* A closed manager waits for nothing, and the loop is not left before.     *)
ClosedIdle == (Selecting /\ closed => cancel = 0) /\ (~Selecting => closed)

(* No operation works on a task the loop does not know yet.                 *)
SpecsKnown == \A i \in OpIds : ops[i].spec <= spec

(* What holds of all behaviours.                                            *)
Sane == TypeOK /\ ClosedIdle /\ SpecsKnown

(* There is one operation at a time, and while the loop runs, cancel is its *)
(* cancellation.                                                            *)
OneOp ==
  /\ \A i, j \in OpIds : Active(i) /\ Active(j) => i = j
  /\ Selecting => \A i \in OpIds : Active(i) => cancel = i

(* A retry timer, an operation and a run request exclude each other.        *)
OneReason ==
  Selecting => /\ timers <= 1
               /\ cancel # 0 => ~run /\ timers = 0
               /\ run => timers = 0

(* What the operation works on is the task of the loop, but for updates; a  *)
(* status that is not placed back is ahead of it.                           *)
OpView ==
  \A i \in OpIds : Active(i) =>
    /\ ops[i].desired <= desired
    /\ ops[i].pc \in {"update", "do"} => ops[i].state = state
    /\ ops[i].pc = "send" => Moves(state, ops[i].desired, ops[i].state)
    /\ ops[i].pc = "report" => /\ ops[i].state >= state
                               /\ ~ctxDone => ops[i].state = state

(* The disk lags only while a status is being reported.                     *)
Disk ==
  (\A i \in OpIds : ops[i].pc # "report") =>
    /\ Resolve(stored) >= Resolve(state)
    /\ ~ctxDone => Resolve(stored) = Resolve(state)

(* The controller lags only if it is about to be told, or has refused.      *)
Controller ==
  /\ ControllerUpToDate
  /\ ~updated =>
       /\ \A i \in OpIds : Active(i) => ops[i].spec = spec
       /\ (\A i \in OpIds : ops[i].pc # "update") => spec \in {ctlr, refused}

(* What holds until an update arrives while a retry timer runs.             *)
IInv == Sane /\ OneOp /\ OneReason /\ OpView /\ Disk /\ Controller /\ ClosedIsQuiet

----------------------------------------------------------------------------
(* exec.Do                                                                  *)

LifeStates ==
  /\ Lifecycle!Assigned = 2 /\ Lifecycle!Accepted = 3 /\ Lifecycle!Ready = 5
  /\ Lifecycle!Starting = 6
  /\ Lifecycle!Running = 7 /\ Lifecycle!Complete = 8 /\ Lifecycle!Shutdown = 9
  /\ Lifecycle!Failed = 10 /\ Lifecycle!Rejected = 11
  /\ Lifecycle!Operating = {4, 6, 7}
  /\ Lifecycle!AgentStates = 2..11 /\ Lifecycle!DesiredStates = {5, 7, 8, 9, 12}

(* The states as the numbers they stand for.                                *)
LEMMA States == LifeStates
  BY DEF LifeStates, Lifecycle!Assigned, Lifecycle!Accepted, Lifecycle!Preparing,
    Lifecycle!Ready, Lifecycle!Starting, Lifecycle!Running, Lifecycle!Complete,
    Lifecycle!Shutdown, Lifecycle!Failed, Lifecycle!Rejected, Lifecycle!Remove,
    Lifecycle!Operating, Lifecycle!AgentStates, Lifecycle!DesiredStates

(* Whatever the controller answers, Do makes a move of the lifecycle.       *)
LEMMA DoMoves ==
  ASSUME NEW s \in Lifecycle!AgentStates, NEW d \in Lifecycle!DesiredStates,
         NEW out \in Outcomes
  PROVE  /\ Do(s, d, out).state \in Lifecycle!AgentStates
         /\ Do(s, d, out).err \in Errors
         /\ Moves(s, d, Do(s, d, out).state)
  BY States DEF LifeStates, Do, Operation, Operates, Outcomes, Errors, Moves

(* A greater desired state allows no less.                                  *)
LEMMA MovesGrow ==
  ASSUME NEW s \in Lifecycle!AgentStates, NEW d \in Lifecycle!DesiredStates,
         NEW e \in Lifecycle!DesiredStates, NEW n \in Lifecycle!AgentStates,
         d <= e, Moves(s, d, n)
  PROVE  Moves(s, e, n)
  BY States DEF LifeStates, Moves

(* A move never goes back.                                                  *)
LEMMA MovesAhead ==
  ASSUME NEW s \in Lifecycle!AgentStates, NEW d \in Lifecycle!DesiredStates,
         NEW n \in Lifecycle!AgentStates, Moves(s, d, n)
  PROVE  n >= s
  BY States DEF LifeStates, Moves

(* Changing a field of an operation keeps its type.                         *)
LEMMA RecTypes ==
  ASSUME NEW r \in OpRecs
  PROVE  /\ r.state \in Lifecycle!AgentStates /\ r.desired \in Lifecycle!DesiredStates
         /\ r.spec \in 0..MaxUpdates /\ r.err \in Errors /\ r.pc \in OpPCs
         /\ [r EXCEPT !.cancelled = TRUE] \in OpRecs
         /\ \A p \in OpPCs : [r EXCEPT !.pc = p] \in OpRecs
         /\ \A p \in OpPCs, e \in Errors : [r EXCEPT !.pc = p, !.err = e] \in OpRecs
         /\ \A p \in OpPCs, s \in Lifecycle!AgentStates, e \in Errors :
              [r EXCEPT !.pc = p, !.state = s, !.err = e] \in OpRecs
         /\ IdleOp \in OpRecs
<1>1. \A p \in OpPCs : [r EXCEPT !.pc = p] \in OpRecs
  BY DEF OpRecs
<1>2. \A p \in OpPCs, e \in Errors : [r EXCEPT !.pc = p, !.err = e] \in OpRecs
  BY DEF OpRecs
<1>3. \A p \in OpPCs, s \in Lifecycle!AgentStates, e \in Errors :
        [r EXCEPT !.pc = p, !.state = s, !.err = e] \in OpRecs
  BY DEF OpRecs
<1>4. [r EXCEPT !.cancelled = TRUE] \in OpRecs
  BY DEF OpRecs
<1>5. IdleOp \in OpRecs
  BY States, TaskManagerAssumption DEF LifeStates, OpRecs, IdleOp, OpPCs, Errors
<1>6. QED
  BY <1>1, <1>2, <1>3, <1>4, <1>5 DEF OpRecs

(* The numbers of the task and of the operations.                           *)
LEMMA OpNumbers ==
  ASSUME TypeOK
  PROVE  /\ spec \in Nat /\ desired \in Nat
         /\ \A j \in OpIds : ops[j].spec \in Nat /\ ops[j].desired \in Nat
<1>1. updates \in 0..MaxUpdates /\ spec \in 0..updates
  BY DEF TypeOK
<1>2. spec \in Nat
  BY <1>1, TaskManagerAssumption
<1>3. desired \in Nat
  BY States DEF TypeOK, LifeStates
<1>4. ASSUME NEW j \in OpIds
      PROVE  ops[j].spec \in Nat /\ ops[j].desired \in Nat
  <2>1. ops[j] \in OpRecs
    BY DEF TypeOK
  <2>2. ops[j].spec \in 0..MaxUpdates /\ ops[j].desired \in Lifecycle!DesiredStates
    BY <2>1 DEF OpRecs
  <2>3. QED
    BY <2>2, States, TaskManagerAssumption DEF LifeStates
<1>5. QED
  BY <1>2, <1>3, <1>4

(* Cancelling an operation changes nothing else of it.                      *)
LEMMA Cancelling ==
  ASSUME TypeOK, NEW k \in OpIds
  PROVE  LET o == [ops EXCEPT ![k].cancelled = TRUE] IN
           /\ o \in [OpIds -> OpRecs]
           /\ \A j \in OpIds : /\ o[j].pc = ops[j].pc /\ o[j].state = ops[j].state
                               /\ o[j].desired = ops[j].desired /\ o[j].spec = ops[j].spec
<1> DEFINE r == [ops[k] EXCEPT !.cancelled = TRUE]
<1>1. ops[k] \in OpRecs /\ ops \in [OpIds -> OpRecs]
  BY DEF TypeOK
<1>2. r \in OpRecs
  BY <1>1, RecTypes
<1>3. [ops EXCEPT ![k].cancelled = TRUE] = [ops EXCEPT ![k] = r]
  BY <1>1
<1>4. /\ r.pc = ops[k].pc /\ r.state = ops[k].state
      /\ r.desired = ops[k].desired /\ r.spec = ops[k].spec
  BY <1>1 DEF OpRecs
<1>5. QED
  <2> HIDE DEF r
  <2>1. QED
    BY <1>1, <1>2, <1>3, <1>4

----------------------------------------------------------------------------
(* What holds of all behaviours                                             *)

(* What Sane says of the operations; the rest is about single variables.    *)
OpsSane ==
  /\ ops \in [OpIds -> OpRecs] /\ SpecsKnown
  /\ Selecting /\ ~ctxDone /\ cancel # 0 => cancel \in Busy

(* A step of operation i, which it survives unless the manager is closed or *)
(* the agent stops.                                                         *)
LEMMA OneOpChanges ==
  ASSUME Sane, NEW i \in OpIds, NEW r \in OpRecs, ops' = [ops EXCEPT ![i] = r],
         r.spec <= spec, r.pc # "idle" \/ closed \/ ctxDone,
         UNCHANGED <<spec, cancel, loop, closed, ctxDone>>
  PROVE  OpsSane'
<1> USE DEF Sane, TypeOK
<1>1. ops' \in [OpIds -> OpRecs]
  OBVIOUS
<1>2. SpecsKnown'
  BY DEF SpecsKnown
<1>3. ASSUME Selecting, ~ctxDone, cancel # 0
      PROVE  cancel \in Busy'
  BY <1>3 DEF ClosedIdle, Busy
<1>4. QED
  BY <1>1, <1>2, <1>3 DEF OpsSane, Selecting

(* Operations that change in nothing but the cancellation.                  *)
LEMMA OpsCancelled ==
  ASSUME Sane, ops' \in [OpIds -> OpRecs], spec <= spec', spec' \in Nat,
         \A j \in OpIds : ops'[j].pc = ops[j].pc /\ ops'[j].spec = ops[j].spec,
         UNCHANGED <<cancel, ctxDone>>, loop' = "select" => loop = "select"
  PROVE  OpsSane'
<1>1. \A j \in OpIds : ops[j].spec \in Nat /\ spec \in Nat
  BY OpNumbers DEF Sane
<1>2. SpecsKnown'
  BY <1>1 DEF Sane, SpecsKnown
<1>3. Busy' = Busy
  BY DEF Busy
<1>4. QED
  BY <1>2, <1>3 DEF OpsSane, Sane, TypeOK, Selecting

(* A step of an operation other than handing over its error.                *)
LEMMA SaneOp ==
  ASSUME Sane, NEW i \in OpIds,
         \/ OpUpdate(i) \/ \E out \in Outcomes : OpDo(i, out)
         \/ OpStatus(i) \/ OpAbandoned(i) \/ OpReport(i) \/ OpDropped(i)
  PROVE  Sane'
<1> USE DEF ctlrVars, counts, taskVars, loopVars, chanVars
<1>1. /\ ops \in [OpIds -> OpRecs] /\ ops[i] \in OpRecs /\ ops[i].spec <= spec
      /\ ops[i].spec \in Nat /\ spec \in Nat /\ TypeOK /\ ClosedIdle
  BY OpNumbers DEF Sane, TypeOK, SpecsKnown
<1>2. OpsSane'
  <2>1. CASE OpUpdate(i)
    <3>1. PICK r \in OpRecs : /\ ops' = [ops EXCEPT ![i] = r] /\ r.spec = ops[i].spec
                              /\ r.pc # "idle"
      <4>1. CASE ops' = [ops EXCEPT ![i].pc = "do"]
        <5>1. ops' = [ops EXCEPT ![i] = [ops[i] EXCEPT !.pc = "do"]]
          BY <1>1, <4>1
        <5>2. [ops[i] EXCEPT !.pc = "do"] \in OpRecs
          BY <1>1, RecTypes DEF OpPCs
        <5>3. QED
          BY <1>1, <5>1, <5>2 DEF OpRecs
      <4>2. CASE ops' = [ops EXCEPT ![i].pc = "done", ![i].err = "nil"]
        <5>1. ops' = [ops EXCEPT ![i] = [ops[i] EXCEPT !.pc = "done", !.err = "nil"]]
          BY <1>1, <4>2
        <5>2. [ops[i] EXCEPT !.pc = "done", !.err = "nil"] \in OpRecs
          BY <1>1, RecTypes DEF OpPCs, Errors
        <5>3. QED
          BY <1>1, <5>1, <5>2 DEF OpRecs
      <4>3. QED
        BY <2>1, <4>1, <4>2 DEF OpUpdate
    <3>2. QED
      BY <1>1, <2>1, <3>1, OneOpChanges DEF OpUpdate
  <2>2. ASSUME NEW out \in Outcomes, OpDo(i, out)
        PROVE  OpsSane'
    <3> DEFINE d == Do(ops[i].state, ops[i].desired, out)
               r == [ops[i] EXCEPT !.pc = "send", !.state = d.state, !.err = d.err]
    <3>1. d.state \in Lifecycle!AgentStates /\ d.err \in Errors
      BY <1>1, DoMoves, RecTypes
    <3>2. ops' = [ops EXCEPT ![i] = r]
      BY <1>1, <2>2 DEF OpDo
    <3>3. r \in OpRecs /\ r.pc = "send" /\ r.spec = ops[i].spec
      <4> HIDE DEF d
      <4>1. r \in OpRecs
        BY <1>1, <3>1, RecTypes, Zenon DEF OpPCs
      <4>2. QED
        BY <1>1, <4>1 DEF OpRecs
    <3>4. QED
      <4> HIDE DEF r
      <4>1. QED
        BY <1>1, <2>2, <3>2, <3>3, OneOpChanges DEF OpDo
  <2>3. CASE OpStatus(i) \/ OpAbandoned(i) \/ OpReport(i)
    <3>1. PICK p \in {"report", "done"} : ops' = [ops EXCEPT ![i].pc = p]
      BY <2>3 DEF OpStatus, OpAbandoned, OpReport
    <3>2. /\ [ops[i] EXCEPT !.pc = p] \in OpRecs
          /\ [ops[i] EXCEPT !.pc = p].spec = ops[i].spec
          /\ [ops[i] EXCEPT !.pc = p].pc # "idle"
      <4>1. p \in OpPCs /\ p # "idle"
        BY DEF OpPCs
      <4>2. [ops[i] EXCEPT !.pc = p] \in OpRecs
        BY <1>1, <4>1, RecTypes, Zenon
      <4>3. QED
        BY <1>1, <4>1, <4>2 DEF OpRecs
    <3>3. ops' = [ops EXCEPT ![i] = [ops[i] EXCEPT !.pc = p]]
      BY <1>1, <3>1
    <3>4. UNCHANGED <<spec, cancel, loop, closed, ctxDone>>
      BY <2>3 DEF OpStatus, OpAbandoned, OpReport
    <3>5. QED
      BY <1>1, <3>2, <3>3, <3>4, OneOpChanges
  <2>4. CASE OpDropped(i)
    <3>1. IdleOp \in OpRecs /\ IdleOp.spec <= spec
      <4>1. IdleOp.spec = 0
        BY DEF IdleOp
      <4>2. IdleOp \in OpRecs
        BY <1>1, RecTypes, Zenon
      <4>3. QED
        BY <1>1, <4>1, <4>2
    <3>2. QED
      BY <1>1, <2>4, <3>1, OneOpChanges DEF OpDropped
  <2>5. QED
    BY <2>1, <2>2, <2>3, <2>4
<1>3. /\ UNCHANGED <<desired, spec, loopVars, chanVars, timers, updates, races>>
      /\ state' = state \/ state' = ops[i].state
      /\ stored' = stored \/ stored' = ops[i].state
      /\ ctlr' = ctlr \/ ctlr' = ops[i].spec
      /\ refused' = refused \/ refused' = ops[i].spec
  BY DEF OpUpdate, OpDo, OpStatus, OpAbandoned, OpReport, OpDropped, Reported
<1>4. temporary' \in 0..MaxTemporary
  <2>1. \/ temporary' = temporary
        \/ temporary' = temporary + 1 /\ temporary < MaxTemporary
    BY DEF OpUpdate, OpDo, OpStatus, OpAbandoned, OpReport, OpDropped
  <2>2. temporary \in 0..MaxTemporary
    BY <1>1 DEF TypeOK
  <2>3. QED
    BY <2>1, <2>2, TaskManagerAssumption
<1>5. /\ state' \in Lifecycle!AgentStates /\ stored' \in Lifecycle!AgentStates
      /\ ctlr' \in 0..spec' /\ refused' \in 0..spec'
  <2>1. /\ state \in Lifecycle!AgentStates /\ stored \in Lifecycle!AgentStates
        /\ ctlr \in 0..spec /\ refused \in 0..spec
    BY <1>1 DEF TypeOK
  <2>2. ops[i].state \in Lifecycle!AgentStates /\ ops[i].spec \in 0..spec
    <3>1. ops[i].state \in Lifecycle!AgentStates
      BY <1>1, RecTypes, Zenon
    <3>2. QED
      BY <1>1, <3>1
  <2>3. QED
    BY <1>3, <2>1, <2>2
<1>6. TypeOK'
  BY <1>1, <1>2, <1>3, <1>4, <1>5, Zenon DEF TypeOK, OpsSane, Selecting, Busy
<1>7. ClosedIdle'
  BY <1>1, <1>3 DEF ClosedIdle, Selecting
<1>8. QED
  BY <1>2, <1>6, <1>7 DEF Sane, OpsSane

(* An operation or a timer hands an error to the loop.                      *)
LEMMA SaneErrs ==
  ASSUME Sane, RetryTimer \/ \E i \in OpIds : OpReturns(i)
  PROVE  Sane'
<1> USE DEF ctlrVars, counts, taskVars, loopVars, chanVars
<1>1. ops \in [OpIds -> OpRecs] /\ TypeOK /\ ClosedIdle /\ spec \in Nat
  BY OpNumbers DEF Sane, TypeOK
<1>2. /\ UNCHANGED <<taskVars, chanVars, updated, piped, loop, ctlrVars, stored, counts>>
      /\ cancel' = 0 /\ loop = "select"
  BY DEF RetryTimer, OpReturns, Errs, NoOp, Selecting
<1>3. ops' = ops \/ \E i \in OpIds : ops' = [ops EXCEPT ![i] = IdleOp]
  BY DEF RetryTimer, OpReturns
<1>4. IdleOp \in OpRecs /\ IdleOp.spec = 0
  BY States, TaskManagerAssumption DEF LifeStates, OpRecs, IdleOp, OpPCs, Errors
<1>5. ops' \in [OpIds -> OpRecs] /\ SpecsKnown'
  BY <1>1, <1>2, <1>3, <1>4 DEF Sane, SpecsKnown
<1>6. run' \in BOOLEAN /\ shutdownOn' \in BOOLEAN
  BY <1>1 DEF TypeOK, RetryTimer, OpReturns, Errs, Redispatch, Reenabled
<1>7. timers' \in Nat
  BY <1>1 DEF TypeOK, RetryTimer, OpReturns
<1>8. TypeOK'
  BY <1>1, <1>2, <1>5, <1>6, <1>7, Zenon DEF TypeOK, Selecting
<1>9. QED
  BY <1>1, <1>2, <1>5, <1>8 DEF Sane, ClosedIdle, Selecting

(* case <-run.                                                              *)
LEMMA SaneDispatch ==
  ASSUME Sane, Dispatch
  PROVE  Sane'
<1> USE DEF ctlrVars, counts, taskVars, loopVars, chanVars
<1>1. ops \in [OpIds -> OpRecs] /\ TypeOK /\ ClosedIdle /\ spec \in Nat
  BY OpNumbers DEF Sane, TypeOK
<1>2. /\ UNCHANGED <<taskVars, chanVars, piped, loop, timers, ctlrVars, stored, counts>>
      /\ run' = FALSE /\ shutdownOn' \in BOOLEAN
  BY <1>1 DEF Dispatch, TypeOK
<1>3. CASE UNCHANGED <<cancel, updated, ops>>
  <2>1. OpsSane'
    BY <1>1, <1>2, <1>3 DEF Sane, TypeOK, OpsSane, SpecsKnown, Selecting, Busy
  <2>2. TypeOK'
    BY <1>1, <1>2, <1>3, <2>1, Zenon DEF TypeOK, OpsSane, Selecting, Busy
  <2>3. QED
    BY <1>1, <1>2, <1>3, <2>1, <2>2 DEF Sane, OpsSane, ClosedIdle, Selecting
<1>4. ASSUME ~closed, updated' = FALSE, NEW i \in OpIds,
             ops' = [ops EXCEPT ![i] = StartedOp(i)], cancel' = i
      PROVE  Sane'
  <2>1. /\ StartedOp(i) \in OpRecs /\ StartedOp(i).spec = spec
        /\ StartedOp(i).pc # "idle"
    BY <1>1, TaskManagerAssumption DEF TypeOK, StartedOp, OpRecs, OpPCs, Errors
  <2>2. ops' \in [OpIds -> OpRecs] /\ i \in Busy'
    BY <1>1, <1>4, <2>1 DEF Busy
  <2>3. SpecsKnown'
    BY <1>1, <1>2, <1>4, <2>1 DEF Sane, SpecsKnown
  <2>4. TypeOK'
    BY <1>1, <1>2, <1>4, <2>2, Zenon DEF TypeOK, Selecting
  <2>5. QED
    BY <1>1, <1>2, <1>4, <2>3, <2>4 DEF Sane, ClosedIdle, Selecting
<1>5. QED
  BY <1>3, <1>4 DEF Dispatch

(* case task := <-tm.updateq.                                               *)
LEMMA SaneUpdate ==
  ASSUME Sane, NEW d \in Lifecycle!DesiredStates, NEW v \in {spec, spec + 1}, Update(d, v)
  PROVE  Sane'
<1> USE DEF ctlrVars, counts, taskVars, loopVars, chanVars
<1>1. TypeOK /\ ClosedIdle /\ spec \in Nat
  BY OpNumbers DEF Sane
<1>2. /\ UNCHANGED <<state, cancel, shutdownOn, piped, loop, chanVars, timers, ctlrVars,
                     stored, temporary>>
      /\ desired' = d /\ updated' = TRUE /\ run' \in BOOLEAN
  BY <1>1 DEF Update, TypeOK
<1>3. /\ updates' \in 0..MaxUpdates /\ spec' \in 0..updates' /\ spec' \in Nat
      /\ ctlr' \in 0..spec' /\ refused' \in 0..spec' /\ spec <= spec'
  BY <1>1, TaskManagerAssumption DEF Update, TypeOK
<1>4. races' \in 0..MaxRaces
  BY <1>1, TaskManagerAssumption DEF Update, TypeOK
<1>5. /\ ops' \in [OpIds -> OpRecs]
      /\ \A j \in OpIds : ops'[j].pc = ops[j].pc /\ ops'[j].spec = ops[j].spec
  <2>1. CASE cancel \in Busy
    <3>1. cancel \in OpIds /\ ops' = [ops EXCEPT ![cancel].cancelled = TRUE]
      BY <2>1 DEF Busy, Update, CancelOp
    <3>2. QED
      BY <1>1, <3>1, Cancelling
  <2>2. CASE cancel \notin Busy
    BY <1>1, <2>2 DEF Update, CancelOp, TypeOK
  <2>3. QED
    BY <2>1, <2>2
<1>6. OpsSane'
  BY <1>2, <1>3, <1>5, OpsCancelled
<1>7. TypeOK'
  BY <1>1, <1>2, <1>3, <1>4, <1>6, Zenon DEF TypeOK, OpsSane, Selecting, Busy
<1>8. QED
  BY <1>1, <1>2, <1>6, <1>7 DEF Sane, OpsSane, ClosedIdle, Selecting

(* case <-shutdown, and the end of the loop.                                *)
LEMMA SaneLeaves ==
  ASSUME Sane, ShutdownBranch \/ LoopExits
  PROVE  Sane'
<1> USE DEF ctlrVars, counts, taskVars, loopVars, chanVars
<1>1. TypeOK /\ ClosedIdle /\ spec \in Nat /\ spec <= spec
  BY OpNumbers DEF Sane
<1>2. /\ UNCHANGED <<taskVars, run, cancel, updated, shutdown, ctxDone, timers, ctlrVars,
                     stored, counts>>
      /\ shutdownOn' \in BOOLEAN /\ piped' \in BOOLEAN /\ closed' \in BOOLEAN
      /\ loop' \in {"select", "exited"} /\ (loop' = "select" => loop = "select")
  BY <1>1 DEF ShutdownBranch, LoopExits, TypeOK, Selecting
<1>3. /\ ops' \in [OpIds -> OpRecs]
      /\ \A j \in OpIds : ops'[j].pc = ops[j].pc /\ ops'[j].spec = ops[j].spec
  <2>1. CASE ShutdownBranch /\ cancel \in Busy
    <3>1. ops' = ops \/ (cancel \in OpIds /\ ops' = [ops EXCEPT ![cancel].cancelled = TRUE])
      BY <2>1 DEF Busy, ShutdownBranch, CancelOp
    <3>2. CASE ops' = ops
      BY <1>1, <3>2 DEF TypeOK
    <3>3. CASE cancel \in OpIds /\ ops' = [ops EXCEPT ![cancel].cancelled = TRUE]
      BY <1>1, <3>3, Cancelling
    <3>4. QED
      BY <3>1, <3>2, <3>3
  <2>2. CASE ShutdownBranch /\ cancel \notin Busy
    BY <1>1, <2>2 DEF ShutdownBranch, CancelOp, TypeOK
  <2>3. CASE LoopExits
    <3>1. ops' \in [OpIds -> OpRecs]
      BY <1>1, <2>3, RecTypes DEF TypeOK, LoopExits
    <3>2. QED
      BY <1>1, <2>3, <3>1 DEF TypeOK, OpRecs, LoopExits
  <2>4. QED
    BY <2>1, <2>2, <2>3
<1>4. OpsSane'
  BY <1>1, <1>2, <1>3, OpsCancelled
<1>5. TypeOK'
  BY <1>1, <1>2, <1>4, Zenon DEF TypeOK, OpsSane, Selecting, Busy
<1>6. ClosedIdle'
  BY <1>1, <1>2 DEF ClosedIdle, Selecting, ShutdownBranch, ShutdownReady, LoopExits
<1>7. QED
  BY <1>4, <1>5, <1>6 DEF Sane, OpsSane

(* Close, the end of the agent, and nothing at all.                         *)
LEMMA SaneEnd ==
  ASSUME Sane, Close \/ CtxDone \/ UNCHANGED vars
  PROVE  Sane'
<1> USE DEF ctlrVars, counts, taskVars, loopVars, chanVars
<1>1. TypeOK /\ ClosedIdle /\ SpecsKnown
  BY DEF Sane
<1>2. /\ UNCHANGED <<taskVars, loopVars, closed, ops, timers, ctlrVars, stored, counts>>
      /\ shutdown' \in BOOLEAN /\ ctxDone' \in BOOLEAN /\ (~ctxDone' => ~ctxDone)
  BY <1>1 DEF Close, CtxDone, vars, TypeOK
<1>3. TypeOK'
  BY <1>1, <1>2, Zenon DEF TypeOK, Selecting, Busy
<1>4. QED
  BY <1>1, <1>2, <1>3 DEF Sane, ClosedIdle, SpecsKnown, Selecting

(* Every step keeps the types.                                              *)
LEMMA SaneNext ==
  ASSUME Sane, [Next]_vars
  PROVE  Sane'
<1>1. CASE LoopStep
  BY <1>1, SaneDispatch, SaneErrs, SaneLeaves DEF LoopStep
<1>2. CASE \E i \in OpIds : OpStep(i)
  BY <1>2, SaneOp, SaneErrs DEF OpStep
<1>3. CASE \E d \in Lifecycle!DesiredStates, v \in {spec, spec + 1} : Update(d, v)
  BY <1>3, SaneUpdate
<1>4. CASE Close \/ CtxDone \/ UNCHANGED vars
  BY <1>4, SaneEnd
<1>5. QED
  BY <1>1, <1>2, <1>3, <1>4 DEF Next

----------------------------------------------------------------------------
(* Every step keeps the invariant                                           *)

(* tm.ctlr.Update.                                                          *)
LEMMA KeepsOpUpdate ==
  ASSUME IInv, Sane', races = 0, races' = 0, NEW i \in OpIds, OpUpdate(i)
  PROVE  IInv'
<1> USE TaskManagerAssumption DEF IInv, Sane, Selecting, OpIds, ctlrVars, counts
<1>1. UNCHANGED <<taskVars, loopVars, chanVars, timers, stored, counts>>
  BY DEF OpUpdate
<1>2. ops[i] \in OpRecs
  BY <1>1 DEF TypeOK
<1>3. \/ ops' = [ops EXCEPT ![i] = [ops[i] EXCEPT !.pc = "do"]]
      \/ ops' = [ops EXCEPT ![i] = [ops[i] EXCEPT !.pc = "done", !.err = "nil"]]
  BY <1>1, <1>2 DEF TypeOK, OpUpdate
<1>4. ops' \in [OpIds -> OpRecs]
  BY RecTypes, <1>1, <1>2, <1>3 DEF TypeOK, OpPCs, Errors
<1>5. /\ ops[i].pc = "update" /\ ops'[i].pc \in {"do", "done"}
      /\ ops'[i].state = ops[i].state /\ ops'[i].desired = ops[i].desired
      /\ ops'[i].spec = ops[i].spec /\ ops'[i].cancelled = ops[i].cancelled
      /\ \A j \in OpIds : j # i => ops'[j] = ops[j]
  BY <1>1, <1>2, <1>3, <1>4, SMTT(30) DEF TypeOK, OpRecs, OpUpdate
<1>6. \/ ops'[i].pc = "do" /\ ctlr' = ops[i].spec /\ refused' = refused
      \/ ops'[i].pc = "done" /\ ctlr' = ctlr /\ refused' = ops[i].spec
  BY <1>1, <1>2, <1>3, <1>4, <1>5 DEF TypeOK, OpRecs, OpUpdate
<1>7. ops[i].spec \in 0..spec
  BY <1>2, <1>5, OpNumbers DEF SpecsKnown
<1>8. \A j \in OpIds : j # i => ~Active(j) /\ ~Active(j)'
  BY <1>5 DEF OneOp, Active
<1>9. OneOp'
  BY <1>1, <1>5, <1>6 DEF TypeOK, OneOp, OneReason, Active, Busy,
    taskVars, loopVars, chanVars
<1>10. OneReason'
  BY <1>1, <1>5, <1>6, <1>9 DEF TypeOK, OneOp, Active, Busy, OneReason,
    taskVars, loopVars, chanVars
<1>11. OpView'
  BY <1>1, <1>5, <1>6, <1>9 DEF TypeOK, OneOp, Active, Busy, OpView,
    taskVars, loopVars, chanVars
<1>12. Disk'
  BY <1>1, <1>5, <1>6, <1>9 DEF TypeOK, OneOp, Active, Busy, OpView, Disk,
    taskVars, loopVars, chanVars
<1>13. Controller'
  BY <1>1, <1>5, <1>6, <1>8 DEF Active, Controller, ControllerUpToDate,
    taskVars, loopVars, chanVars
<1>14. ClosedIsQuiet'
  BY <1>1, <1>5, <1>6, <1>9 DEF TypeOK, OneOp, Active, Busy,
    ClosedIsQuiet, taskVars, loopVars, chanVars
<1>15. QED
  BY <1>9, <1>10, <1>11, <1>12, <1>13, <1>14

(* exec.Do.                                                                 *)
LEMMA KeepsOpDo ==
  ASSUME IInv, Sane', races = 0, races' = 0, NEW i \in OpIds, NEW out \in Outcomes,
         OpDo(i, out)
  PROVE  IInv'
<1> USE TaskManagerAssumption DEF IInv, Sane, Selecting, OpIds, ctlrVars, counts
<1>1. /\ UNCHANGED <<taskVars, loopVars, chanVars, timers, ctlrVars, stored, updates, races>>
      /\ temporary' \in 0..MaxTemporary
  BY DEF OpDo, TypeOK
<1>2. ops[i] \in OpRecs
  BY <1>1 DEF TypeOK
<1>3. LET r == Do(ops[i].state, ops[i].desired, out) IN
        /\ r.state \in Lifecycle!AgentStates /\ r.err \in Errors
        /\ Moves(ops[i].state, ops[i].desired, r.state)
  BY DoMoves, RecTypes, <1>1, <1>2 DEF TypeOK
<1>4. ops' \in [OpIds -> OpRecs]
  BY RecTypes, <1>1, <1>2, <1>3, ZenonT(40) DEF TypeOK, OpPCs, OpDo
<1>5. /\ ops[i].pc = "do" /\ ops'[i].pc = "send"
      /\ Moves(ops[i].state, ops[i].desired, ops'[i].state)
      /\ ops'[i].desired = ops[i].desired
      /\ ops'[i].spec = ops[i].spec /\ ops'[i].cancelled = ops[i].cancelled
      /\ \A j \in OpIds : j # i => ops'[j] = ops[j]
  BY <1>1, <1>2, <1>3, <1>4 DEF TypeOK, OpRecs, OpDo
<1>6. OneOp'
  BY <1>1, <1>5 DEF TypeOK, OneOp, OneReason, Active, Busy, taskVars,
    loopVars, chanVars
<1>7. OneReason'
  BY <1>1, <1>5, <1>6 DEF TypeOK, OneOp, Active, Busy, OneReason,
    taskVars, loopVars, chanVars
<1>8. OpView'
  BY <1>1, <1>5, <1>6 DEF TypeOK, OneOp, Active, Busy, OpView, taskVars,
    loopVars, chanVars
<1>9. Disk'
  BY <1>1, <1>5, <1>6 DEF TypeOK, OneOp, Active, Busy, OpView, Disk,
    taskVars, loopVars, chanVars
<1>10. Controller'
  BY <1>1, <1>5, <1>6 DEF TypeOK, OneOp, Active, Busy, Controller,
    ControllerUpToDate, taskVars, loopVars, chanVars
<1>11. ClosedIsQuiet'
  BY <1>1, <1>5, <1>6 DEF TypeOK, OneOp, Active, Busy, ClosedIsQuiet,
    taskVars, loopVars, chanVars
<1>12. QED
  BY <1>6, <1>7, <1>8, <1>9, <1>10, <1>11

(* case status := <-statusq.                                                *)
LEMMA KeepsOpStatus ==
  ASSUME IInv, Sane', races = 0, races' = 0, NEW i \in OpIds, OpStatus(i)
  PROVE  IInv'
<1> USE TaskManagerAssumption DEF IInv, Sane, Selecting, OpIds, ctlrVars, counts
<1>1. UNCHANGED <<desired, spec, loopVars, chanVars, timers, ctlrVars, stored, counts>>
  BY DEF OpStatus
<1>2. ops[i] \in OpRecs
  BY <1>1 DEF TypeOK
<1>3. state' = ops[i].state /\ state' \in Lifecycle!AgentStates
  BY RecTypes, <1>1, <1>2 DEF OpStatus
<1>4. ops' \in [OpIds -> OpRecs]
  BY RecTypes, <1>1, <1>2, <1>3 DEF TypeOK, OpPCs, OpStatus
<1>5. /\ ops[i].pc = "send" /\ ops'[i].pc = "report"
      /\ ops'[i].state = ops[i].state /\ ops'[i].desired = ops[i].desired
      /\ ops'[i].spec = ops[i].spec /\ ops'[i].cancelled = ops[i].cancelled
      /\ \A j \in OpIds : j # i => ops'[j] = ops[j]
  BY <1>1, <1>2, <1>3, <1>4 DEF TypeOK, OpRecs, OpStatus
<1>6. OneOp'
  BY <1>1, <1>3, <1>5 DEF TypeOK, OneOp, OneReason, Active, Busy,
    loopVars, chanVars
<1>7. OneReason'
  BY <1>1, <1>3, <1>5, <1>6 DEF TypeOK, OneOp, Active, Busy, OneReason,
    loopVars, chanVars
<1>8. OpView'
  <2>1. state' >= state'
    BY <1>3, States DEF LifeStates
  <2>2. QED
    BY <1>1, <1>3, <1>5, <1>6, <2>1 DEF OneOp, Active, OpView, loopVars, chanVars
<1>9. Disk'
  BY <1>1, <1>3, <1>5, <1>6 DEF TypeOK, OneOp, Active, Busy, OpView, Disk,
    loopVars, chanVars
<1>10. Controller'
  BY <1>1, <1>3, <1>5, <1>6 DEF TypeOK, OneOp, Active, Busy, Controller,
    ControllerUpToDate, loopVars, chanVars
<1>11. ClosedIsQuiet'
  BY <1>1, <1>3, <1>5, <1>6 DEF TypeOK, OneOp, Active, Busy,
    ClosedIsQuiet, loopVars, chanVars
<1>12. QED
  BY <1>6, <1>7, <1>8, <1>9, <1>10, <1>11

(* The context of the loop has ended: the status is only reported.          *)
LEMMA KeepsOpAbandoned ==
  ASSUME IInv, Sane', races = 0, races' = 0, NEW i \in OpIds, OpAbandoned(i)
  PROVE  IInv'
<1> USE TaskManagerAssumption DEF IInv, Sane, Selecting, OpIds, ctlrVars, counts
<1>1. /\ ctxDone
      /\ UNCHANGED <<taskVars, loopVars, chanVars, timers, ctlrVars, stored, counts>>
  BY DEF OpAbandoned, ClosedIdle, ClosedIsQuiet, Busy
<1>2. ops[i] \in OpRecs
  BY <1>1 DEF TypeOK
<1>3. ops' \in [OpIds -> OpRecs]
  BY RecTypes, <1>1, <1>2 DEF TypeOK, OpPCs, OpAbandoned
<1>4. /\ ops[i].pc = "send" /\ ops'[i].pc = "report"
      /\ ops'[i].state = ops[i].state /\ ops'[i].desired = ops[i].desired
      /\ ops'[i].spec = ops[i].spec /\ ops'[i].cancelled = ops[i].cancelled
      /\ \A j \in OpIds : j # i => ops'[j] = ops[j]
  BY <1>1, <1>2, <1>3 DEF TypeOK, OpRecs, OpAbandoned
<1>5. OneOp'
  BY <1>1, <1>4 DEF TypeOK, OneOp, OneReason, Active, Busy, taskVars,
    loopVars, chanVars
<1>6. OneReason'
  BY <1>1, <1>4, <1>5 DEF TypeOK, OneOp, Active, Busy, OneReason,
    taskVars, loopVars, chanVars
<1>7. OpView'
  <2>1. ops[i].state >= state
    BY <1>2, <1>4, RecTypes, MovesAhead DEF TypeOK, OpView, Active
  <2>2. QED
    BY <1>1, <1>4, <1>5, <2>1 DEF OneOp, Active, OpView, taskVars, loopVars, chanVars
<1>8. Disk'
  BY <1>1, <1>4, <1>5 DEF TypeOK, OneOp, Active, Busy, OpView, Disk,
    taskVars, loopVars, chanVars
<1>9. Controller'
  BY <1>1, <1>4, <1>5 DEF TypeOK, OneOp, Active, Busy, Controller,
    ControllerUpToDate, taskVars, loopVars, chanVars
<1>10. ClosedIsQuiet'
  BY <1>1, <1>4, <1>5 DEF TypeOK, OneOp, Active, Busy, ClosedIsQuiet,
    taskVars, loopVars, chanVars
<1>11. QED
  BY <1>5, <1>6, <1>7, <1>8, <1>9, <1>10

(* tm.reporter.UpdateTaskStatus.                                            *)
LEMMA KeepsOpReport ==
  ASSUME IInv, Sane', races = 0, races' = 0, NEW i \in OpIds, OpReport(i)
  PROVE  IInv'
<1> USE TaskManagerAssumption DEF IInv, Sane, Selecting, OpIds, ctlrVars, counts
<1>1. UNCHANGED <<taskVars, loopVars, chanVars, timers, ctlrVars, counts>>
  BY DEF OpReport
<1>2. ops[i] \in OpRecs
  BY <1>1 DEF TypeOK
<1>3. stored' = ops[i].state /\ stored' \in Lifecycle!AgentStates
  BY RecTypes, <1>1, <1>2 DEF OpReport, Reported
<1>4. ops' \in [OpIds -> OpRecs]
  BY RecTypes, <1>1, <1>2, <1>3 DEF TypeOK, OpPCs, OpReport
<1>5. /\ ops[i].pc = "report" /\ ops'[i].pc = "done"
      /\ ops'[i].state = ops[i].state /\ ops'[i].desired = ops[i].desired
      /\ ops'[i].spec = ops[i].spec /\ ops'[i].cancelled = ops[i].cancelled
      /\ \A j \in OpIds : j # i => ops'[j] = ops[j]
  BY <1>1, <1>2, <1>3, <1>4 DEF TypeOK, OpRecs, OpReport
<1>6. OneOp'
  BY <1>1, <1>3, <1>5 DEF TypeOK, OneOp, OneReason, Active, Busy,
    taskVars, loopVars, chanVars
<1>7. OneReason'
  BY <1>1, <1>3, <1>5, <1>6 DEF TypeOK, OneOp, Active, Busy, OneReason,
    taskVars, loopVars, chanVars
<1>8. OpView'
  BY <1>1, <1>3, <1>5, <1>6 DEF TypeOK, OneOp, Active, Busy, OpView,
    taskVars, loopVars, chanVars
<1>9. Disk'
  <2>1. ops[i].state >= state /\ (~ctxDone => ops[i].state = state)
    BY <1>5 DEF OpView, Active
  <2>2. Resolve(stored') >= Resolve(state)
    BY <1>3, <2>1, States DEF TypeOK, LifeStates, Resolve
  <2>3. QED
    BY <1>1, <1>3, <2>1, <2>2 DEF Resolve, Disk, taskVars, chanVars
<1>10. Controller'
  BY <1>1, <1>3, <1>5, <1>6 DEF TypeOK, OneOp, Active, Busy, Controller,
    ControllerUpToDate, taskVars, loopVars, chanVars
<1>11. ClosedIsQuiet'
  BY <1>1, <1>3, <1>5, <1>6 DEF TypeOK, OneOp, Active, Busy,
    ClosedIsQuiet, taskVars, loopVars, chanVars
<1>12. QED
  BY <1>6, <1>7, <1>8, <1>9, <1>10, <1>11

(* runctx gives up handing over the error.                                  *)
LEMMA KeepsOpDropped ==
  ASSUME IInv, Sane', races = 0, races' = 0, NEW i \in OpIds, OpDropped(i)
  PROVE  IInv'
<1> USE TaskManagerAssumption DEF IInv, Sane, Selecting, OpIds, ctlrVars, counts
<1>1. (closed \/ ctxDone) /\ UNCHANGED <<taskVars, loopVars, chanVars, timers, ctlrVars, stored, counts>>
  BY DEF OpDropped
<1>2. ops[i] \in OpRecs
  BY <1>1 DEF TypeOK
<1>3. ops' \in [OpIds -> OpRecs]
  BY RecTypes, <1>1, <1>2 DEF TypeOK, OpDropped
<1>4. /\ ops[i].pc = "done" /\ ops'[i].pc = "idle"
      /\ \A j \in OpIds : j # i => ops'[j] = ops[j]
  BY <1>1, <1>2, <1>3 DEF TypeOK, OpDropped, IdleOp
<1>5. OneOp'
  BY <1>1, <1>4 DEF TypeOK, OneOp, OneReason, Active, Busy, ClosedIdle,
    taskVars, loopVars, chanVars
<1>6. OneReason'
  BY <1>1, <1>4, <1>5 DEF TypeOK, OneOp, Active, Busy, OneReason,
    taskVars, loopVars, chanVars
<1>7. OpView'
  BY <1>1, <1>4, <1>5 DEF TypeOK, OneOp, Active, Busy, OpView, taskVars,
    loopVars, chanVars
<1>8. Disk'
  BY <1>1, <1>4, <1>5 DEF TypeOK, OneOp, Active, Busy, OpView, Disk,
    taskVars, loopVars, chanVars
<1>9. Controller'
  BY <1>1, <1>4, <1>5 DEF TypeOK, OneOp, Active, Busy, Controller,
    ControllerUpToDate, taskVars, loopVars, chanVars
<1>10. ClosedIsQuiet'
  BY <1>1, <1>4, <1>5 DEF TypeOK, OneOp, Active, Busy, ClosedIsQuiet,
    taskVars, loopVars, chanVars
<1>11. QED
  BY <1>5, <1>6, <1>7, <1>8, <1>9, <1>10

(* An operation hands its error to the loop.                                *)
LEMMA KeepsOpReturns ==
  ASSUME IInv, Sane', races = 0, races' = 0, NEW i \in OpIds, OpReturns(i)
  PROVE  IInv'
<1> USE TaskManagerAssumption DEF IInv, Sane, Selecting, OpIds, ctlrVars, counts
<1>1. /\ UNCHANGED <<taskVars, chanVars, updated, piped, loop, ctlrVars, stored, counts>>
      /\ cancel' = 0 /\ loop = "select"
  BY DEF OpReturns, Errs, NoOp
<1>2. ops[i] \in OpRecs
  BY <1>1 DEF TypeOK
<1>3. ops' \in [OpIds -> OpRecs]
  BY RecTypes, <1>1, <1>2 DEF TypeOK, OpReturns
<1>4. /\ ops[i].pc = "done" /\ ops'[i].pc = "idle"
      /\ \A j \in OpIds : j # i => ops'[j] = ops[j]
  BY <1>1, <1>2, <1>3 DEF TypeOK, OpReturns, IdleOp
<1>5. run' \in BOOLEAN
  BY <1>1, <1>2, <1>3, <1>4 DEF TypeOK, OpReturns, Errs, Redispatch
<1>6. shutdownOn' \in BOOLEAN
  BY <1>1, <1>2, <1>3, <1>4, <1>5 DEF TypeOK, OpReturns, Errs, Reenabled
<1>7. timers' \in Nat /\ timers' <= 1 /\ (run' => timers' = 0)
  BY <1>1, <1>2, <1>3, <1>4, <1>5, <1>6 DEF TypeOK, OneOp, OneReason,
    Active, OpReturns, Errs, Redispatch
<1>8. OneOp'
  BY <1>1, <1>4, SMTT(20) DEF TypeOK, OneOp, OneReason, Active, Busy, taskVars,
    chanVars
<1>9. OneReason'
  BY <1>1, <1>4, <1>7, <1>8 DEF TypeOK, OneOp, Active, Busy, OneReason,
    taskVars, chanVars
<1>10. OpView'
  BY <1>1, <1>4, <1>8 DEF TypeOK, OneOp, Active, Busy, OpView, taskVars,
    chanVars
<1>11. Disk'
  BY <1>1, <1>4, <1>8 DEF TypeOK, OneOp, Active, Busy, OpView, Disk,
    taskVars, chanVars
<1>12. Controller'
  BY <1>1, <1>4, <1>8 DEF TypeOK, OneOp, Active, Busy, Controller,
    ControllerUpToDate, taskVars, chanVars
<1>13. ClosedIsQuiet'
  BY <1>1, <1>4, <1>8 DEF TypeOK, OneOp, Active, Busy, ClosedIsQuiet,
    taskVars, chanVars
<1>14. QED
  BY <1>8, <1>9, <1>10, <1>11, <1>12, <1>13

(* The retry timer.                                                         *)
LEMMA KeepsRetryTimer ==
  ASSUME IInv, Sane', races = 0, races' = 0, RetryTimer
  PROVE  IInv'
<1> USE TaskManagerAssumption DEF IInv, Sane, Selecting, OpIds, ctlrVars, counts
<1>1. /\ UNCHANGED <<taskVars, chanVars, updated, piped, loop, ops, ctlrVars, stored, counts>>
      /\ cancel' = 0 /\ loop = "select"
  BY DEF RetryTimer, Errs, NoOp
<1>2. cancel = 0 /\ timers' = 0
  BY <1>1 DEF TypeOK, OneReason, RetryTimer
<1>3. run' \in BOOLEAN
  BY <1>1, <1>2 DEF TypeOK, RetryTimer, Errs, Redispatch
<1>4. shutdownOn' \in BOOLEAN
  BY <1>1, <1>2, <1>3 DEF TypeOK, RetryTimer, Errs, Reenabled
<1>5. OneOp'
  BY <1>1, <1>2 DEF TypeOK, OneOp, OneReason, Active, Busy, taskVars,
    chanVars
<1>6. OneReason'
  BY <1>1, <1>2, <1>5 DEF TypeOK, OneOp, Active, Busy, OneReason,
    taskVars, chanVars
<1>7. OpView'
  BY <1>1, <1>2, <1>5 DEF TypeOK, OneOp, Active, Busy, OpView, taskVars,
    chanVars
<1>8. Disk'
  BY <1>1, <1>2, <1>5 DEF TypeOK, OneOp, Active, Busy, OpView, Disk,
    taskVars, chanVars
<1>9. Controller'
  BY <1>1, <1>2, <1>5 DEF TypeOK, OneOp, Active, Busy, Controller,
    ControllerUpToDate, taskVars, chanVars
<1>10. ClosedIsQuiet'
  BY <1>1, <1>2, <1>5 DEF TypeOK, OneOp, Active, Busy, ClosedIsQuiet,
    taskVars, chanVars
<1>11. QED
  BY <1>5, <1>6, <1>7, <1>8, <1>9, <1>10

(* case <-run, when the manager is shutting down or closed.                 *)
LEMMA KeepsSkip ==
  ASSUME IInv, Sane', races = 0, races' = 0, Dispatch, UNCHANGED <<cancel, updated, ops>>
  PROVE  IInv'
<1> USE TaskManagerAssumption DEF IInv, Sane, Selecting, OpIds, ctlrVars, counts
<1>1. /\ UNCHANGED <<taskVars, chanVars, piped, loop, timers, ctlrVars, stored, counts>>
      /\ loop = "select" /\ run' = FALSE /\ shutdownOn' \in BOOLEAN
  BY DEF TypeOK, Dispatch
<1>2. OneOp'
  BY <1>1 DEF TypeOK, OneOp, OneReason, Active, Busy, taskVars, chanVars
<1>3. OneReason'
  BY <1>1, <1>2 DEF TypeOK, OneOp, Active, Busy, OneReason, taskVars,
    chanVars
<1>4. OpView'
  BY <1>1, <1>2 DEF TypeOK, OneOp, Active, Busy, OpView, taskVars,
    chanVars
<1>5. Disk'
  BY <1>1, <1>2 DEF TypeOK, OneOp, Active, Busy, OpView, Disk, taskVars,
    chanVars
<1>6. Controller'
  BY <1>1, <1>2 DEF TypeOK, OneOp, Active, Busy, Controller,
    ControllerUpToDate, taskVars, chanVars
<1>7. ClosedIsQuiet'
  BY <1>1, <1>2 DEF TypeOK, OneOp, Active, Busy, ClosedIsQuiet, taskVars,
    chanVars
<1>8. QED
  BY <1>2, <1>3, <1>4, <1>5, <1>6, <1>7

(* case <-run, when an operation is started.                                *)
LEMMA KeepsStart ==
  ASSUME IInv, Sane', races = 0, races' = 0, Dispatch, ~shutdown, ~closed, updated' = FALSE,
         NEW i \in OpIds, ops' = [ops EXCEPT ![i] = StartedOp(i)], cancel' = i
  PROVE  IInv'
<1> USE TaskManagerAssumption DEF IInv, Sane, Selecting, OpIds, ctlrVars, counts
<1>1. /\ UNCHANGED <<taskVars, chanVars, piped, loop, timers, ctlrVars, stored, counts>>
      /\ loop = "select" /\ run' = FALSE /\ shutdownOn' \in BOOLEAN
  BY DEF TypeOK, Dispatch
<1>2. cancel = 0 /\ timers = 0 /\ i # 0
  BY <1>1 DEF TypeOK, OneReason, Dispatch
<1>3. \A j \in OpIds : ~Active(j)
  BY <1>1, <1>2 DEF TypeOK, OneOp
<1>4. StartedOp(i) \in OpRecs
  BY DEF TypeOK, StartedOp, OpRecs, OpPCs, Errors
<1>5. ops' \in [OpIds -> OpRecs]
  BY <1>1, <1>2, <1>3, <1>4 DEF TypeOK
<1>6. /\ ops'[i].pc = IF updated THEN "update" ELSE "do"
      /\ ops'[i].state = state /\ ops'[i].desired = desired
      /\ ops'[i].spec = spec /\ ops'[i].cancelled = FALSE
  BY DEF TypeOK, StartedOp
<1>7. \A j \in OpIds : j # i => ops'[j].pc = "idle"
  BY <1>1, <1>2, <1>3, <1>4, <1>5, <1>6 DEF TypeOK, Active
<1>8. desired <= desired /\ spec <= spec
  BY States DEF TypeOK, LifeStates
<1>9. OneOp'
  BY <1>1, <1>2, <1>3, <1>6, <1>7, <1>8 DEF TypeOK, OneOp, OneReason,
    Active, Busy, taskVars, chanVars
<1>10. OneReason'
  BY <1>1, <1>2, <1>3, <1>6, <1>7, <1>8, <1>9 DEF TypeOK, OneOp, Active,
    Busy, OneReason, taskVars, chanVars
<1>11. OpView'
  BY <1>1, <1>2, <1>3, <1>6, <1>7, <1>8, <1>9 DEF TypeOK, OneOp, Active,
    Busy, OpView, taskVars, chanVars
<1>12. Disk'
  BY <1>1, <1>2, <1>3, <1>6, <1>7, <1>8, <1>9 DEF TypeOK, OneOp, Active,
    Busy, OpView, Disk, taskVars, chanVars
<1>13. Controller'
  BY <1>1, <1>2, <1>3, <1>6, <1>7, <1>8, <1>9 DEF TypeOK, OneOp, Active,
    Busy, Controller, ControllerUpToDate, taskVars, chanVars
<1>14. ClosedIsQuiet'
  BY <1>1, <1>2, <1>3, <1>6, <1>7, <1>8, <1>9 DEF TypeOK, OneOp, Active,
    Busy, ClosedIsQuiet, taskVars, chanVars
<1>15. QED
  BY <1>9, <1>10, <1>11, <1>12, <1>13, <1>14

(* case <-run.                                                              *)
LEMMA KeepsDispatch ==
  ASSUME IInv, Sane', races = 0, races' = 0, Dispatch
  PROVE  IInv'
<1>1. \/ UNCHANGED <<cancel, updated, ops>>
      \/ /\ ~shutdown /\ ~closed /\ updated' = FALSE
         /\ \E i \in OpIds : ops' = [ops EXCEPT ![i] = StartedOp(i)] /\ cancel' = i
  BY DEF Dispatch
<1>2. QED
  BY <1>1, KeepsSkip, KeepsStart

(* case task := <-tm.updateq.                                               *)
LEMMA KeepsUpdate ==
  ASSUME IInv, Sane', races = 0, races' = 0, NEW d \in Lifecycle!DesiredStates,
         NEW v \in {spec, spec + 1}, Update(d, v)
  PROVE  IInv'
<1> USE TaskManagerAssumption DEF IInv, Sane, Selecting, OpIds, ctlrVars, counts
<1>1. /\ UNCHANGED <<state, cancel, shutdownOn, piped, loop, chanVars, timers,
                     ctlrVars, stored, temporary>>
      /\ loop = "select" /\ timers = 0 /\ updated' = TRUE
  BY DEF TypeOK, Update
<1>2. /\ desired' \in Lifecycle!DesiredStates /\ desired <= desired'
      /\ updates' \in 0..MaxUpdates /\ spec' \in 0..updates'
      /\ spec <= spec' /\ ctlr \in 0..spec'
  BY States, <1>1 DEF LifeStates, TypeOK, Update, Accepts
<1>3. run' = (run \/ cancel = 0)
  BY <1>1, <1>2 DEF Update
<1>4. run' \in BOOLEAN
  BY <1>1, <1>2, <1>3 DEF TypeOK
<1>5. \/ ops' = ops
      \/ cancel \in OpIds /\ ops' = [ops EXCEPT ![cancel].cancelled = TRUE]
  BY <1>1, <1>2, <1>3, <1>4 DEF TypeOK, Update, CancelOp, Busy
<1>6. ops' \in [OpIds -> OpRecs]
  BY Cancelling, <1>5 DEF TypeOK
<1>7. \A j \in OpIds : /\ ops'[j].pc = ops[j].pc /\ ops'[j].state = ops[j].state
                       /\ ops'[j].desired = ops[j].desired /\ ops'[j].spec = ops[j].spec
  <2>1. CASE ops' = ops
    BY <2>1
  <2>2. CASE cancel \in OpIds /\ ops' = [ops EXCEPT ![cancel].cancelled = TRUE]
    BY <2>2, Cancelling
  <2>3. QED
    BY <1>5, <2>1, <2>2
<1>8. /\ spec \in Nat /\ desired \in Nat /\ spec' \in Nat /\ desired' \in Nat
      /\ \A j \in OpIds : ops[j].spec \in Nat /\ ops[j].desired \in Nat
  BY <1>2, OpNumbers, States DEF LifeStates
<1>9. \A j \in OpIds : ops[j].desired <= desired => ops[j].desired <= desired'
  BY <1>2, <1>8 DEF IInv
<1>10. \A j \in OpIds : ops[j].spec <= spec => ops[j].spec <= spec'
  BY <1>2, <1>8 DEF IInv
<1>11. OneOp'
  BY <1>1, <1>2, <1>3, <1>7 DEF TypeOK, OneOp, OneReason, Active, Busy,
    chanVars
<1>12. OneReason'
  BY <1>1, <1>2, <1>3, <1>7, <1>11 DEF TypeOK, OneOp, Active, Busy,
    OneReason, chanVars
<1>13. OpView'
  BY <1>1, <1>7, <1>9, <1>11 DEF TypeOK, OneOp, Active, Busy, OpView,
    chanVars
<1>14. Disk'
  BY <1>1, <1>2, <1>3, <1>7, <1>11 DEF TypeOK, OneOp, Active, Busy,
    OpView, Disk, chanVars
<1>15. Controller'
  BY <1>1, <1>7, <1>10, <1>11 DEF TypeOK, OneOp, Active, Busy, Controller,
    ControllerUpToDate, chanVars
<1>16. ClosedIsQuiet'
  BY <1>1, <1>2, <1>3, <1>7, <1>11 DEF TypeOK, OneOp, Active, Busy,
    ClosedIsQuiet, chanVars
<1>17. QED
  BY <1>11, <1>12, <1>13, <1>14, <1>15, <1>16

(* case <-shutdown.                                                         *)
LEMMA KeepsShutdown ==
  ASSUME IInv, Sane', races = 0, races' = 0, ShutdownBranch
  PROVE  IInv'
<1> USE TaskManagerAssumption DEF IInv, Sane, Selecting, OpIds, ctlrVars, counts
<1>1. /\ UNCHANGED <<taskVars, run, cancel, updated, loop, shutdown, ctxDone,
                     timers, ctlrVars, stored, counts>>
      /\ loop = "select" /\ shutdown /\ shutdownOn' = FALSE
  BY DEF ShutdownBranch
<1>2. (closed' => closed \/ cancel = 0) /\ closed' \in BOOLEAN
  BY <1>1 DEF TypeOK, ShutdownBranch, ShutdownReady
<1>3. piped' \in BOOLEAN
  BY <1>1, <1>2 DEF TypeOK, ShutdownBranch, ShutdownReady
<1>4. \/ ops' = ops
      \/ cancel \in OpIds /\ ops' = [ops EXCEPT ![cancel].cancelled = TRUE]
  BY <1>1, <1>2, <1>3 DEF TypeOK, ShutdownBranch, ShutdownReady, CancelOp, Busy
<1>5. ops' \in [OpIds -> OpRecs]
  BY Cancelling, <1>4 DEF TypeOK
<1>6. \A j \in OpIds : /\ ops'[j].pc = ops[j].pc /\ ops'[j].state = ops[j].state
                       /\ ops'[j].desired = ops[j].desired /\ ops'[j].spec = ops[j].spec
  <2>1. CASE ops' = ops
    BY <2>1
  <2>2. CASE cancel \in OpIds /\ ops' = [ops EXCEPT ![cancel].cancelled = TRUE]
    BY <2>2, Cancelling
  <2>3. QED
    BY <1>4, <2>1, <2>2
<1>7. cancel = 0 => \A j \in OpIds : ~Active(j)
  BY <1>1 DEF TypeOK, OneOp
<1>8. OneOp'
  BY <1>1, <1>2, <1>6, <1>7 DEF TypeOK, OneOp, OneReason, Active, Busy,
    taskVars
<1>9. OneReason'
  BY <1>1, <1>2, <1>6, <1>7, <1>8 DEF TypeOK, OneOp, Active, Busy,
    OneReason, taskVars
<1>10. OpView'
  BY <1>1, <1>2, <1>6, <1>7, <1>8 DEF TypeOK, OneOp, Active, Busy, OpView,
    taskVars
<1>11. Disk'
  BY <1>1, <1>2, <1>6, <1>7, <1>8 DEF TypeOK, OneOp, Active, Busy, OpView,
    Disk, taskVars
<1>12. Controller'
  BY <1>1, <1>2, <1>6, <1>7, <1>8 DEF TypeOK, OneOp, Active, Busy,
    Controller, ControllerUpToDate, taskVars
<1>13. ClosedIsQuiet'
  BY <1>1, <1>2, <1>6, <1>7, <1>8 DEF TypeOK, OneOp, Active, Busy,
    ClosedIsQuiet, taskVars
<1>14. QED
  BY <1>8, <1>9, <1>10, <1>11, <1>12, <1>13

(* The loop is left.                                                        *)
LEMMA KeepsExit ==
  ASSUME IInv, Sane', races = 0, races' = 0, LoopExits
  PROVE  IInv'
<1> USE TaskManagerAssumption DEF IInv, Sane, Selecting, OpIds, ctlrVars, counts
<1>1. /\ UNCHANGED <<taskVars, run, cancel, updated, shutdownOn, piped,
                     shutdown, ctxDone, timers, ctlrVars, stored, counts>>
      /\ loop = "select" /\ loop' = "exited" /\ closed' = TRUE /\ (closed \/ ctxDone)
  BY DEF LoopExits
<1>2. ops' \in [OpIds -> OpRecs]
  BY RecTypes, <1>1 DEF TypeOK, LoopExits
<1>3. \A j \in OpIds : /\ ops'[j].pc = ops[j].pc /\ ops'[j].state = ops[j].state
                       /\ ops'[j].desired = ops[j].desired /\ ops'[j].spec = ops[j].spec
  BY <1>1, <1>2 DEF TypeOK, OpRecs, LoopExits
<1>4. OneOp'
  BY <1>1, <1>3 DEF TypeOK, OneOp, OneReason, Active, Busy, taskVars
<1>5. OneReason'
  BY <1>1, <1>3, <1>4 DEF TypeOK, OneOp, Active, Busy, OneReason, taskVars
<1>6. OpView'
  BY <1>1, <1>3, <1>4 DEF TypeOK, OneOp, Active, Busy, OpView, taskVars
<1>7. Disk'
  BY <1>1, <1>3, <1>4 DEF TypeOK, OneOp, Active, Busy, OpView, Disk,
    taskVars
<1>8. Controller'
  BY <1>1, <1>3, <1>4 DEF TypeOK, OneOp, Active, Busy, Controller,
    ControllerUpToDate, taskVars
<1>9. ClosedIsQuiet'
  BY <1>1, <1>3, <1>4 DEF TypeOK, OneOp, Active, Busy, ClosedIsQuiet,
    taskVars
<1>10. QED
  BY <1>4, <1>5, <1>6, <1>7, <1>8, <1>9

(* Close, the end of the agent, and nothing at all.                         *)
LEMMA KeepsEnd ==
  ASSUME IInv, Sane', races = 0, races' = 0, Close \/ CtxDone \/ UNCHANGED vars
  PROVE  IInv'
<1> USE TaskManagerAssumption DEF IInv, Sane, Selecting, OpIds, ctlrVars, counts
<1>1. UNCHANGED <<taskVars, loopVars, closed, ops, timers, ctlrVars, stored, counts>>
  BY DEF Close, CtxDone, vars, taskVars, loopVars, chanVars
<1>2. /\ shutdown' \in BOOLEAN /\ ctxDone' \in BOOLEAN
      /\ shutdown => shutdown'
  BY <1>1 DEF TypeOK, Close, CtxDone, vars, chanVars
<1>3. ctxDone => ctxDone'
  BY <1>1, <1>2 DEF TypeOK, Close, CtxDone, vars, chanVars
<1>4. OneOp'
  BY <1>1, <1>2, <1>3 DEF TypeOK, OneOp, OneReason, Active, Busy,
    taskVars, loopVars, chanVars
<1>5. OneReason'
  BY <1>1, <1>2, <1>3, <1>4 DEF TypeOK, OneOp, Active, Busy, OneReason,
    taskVars, loopVars, chanVars
<1>6. OpView'
  BY <1>1, <1>2, <1>3, <1>4 DEF TypeOK, OneOp, Active, Busy, OpView,
    taskVars, loopVars, chanVars
<1>7. Disk'
  BY <1>1, <1>2, <1>3, <1>4 DEF TypeOK, OneOp, Active, Busy, OpView, Disk,
    taskVars, loopVars, chanVars
<1>8. Controller'
  BY <1>1, <1>2, <1>3, <1>4 DEF TypeOK, OneOp, Active, Busy, Controller,
    ControllerUpToDate, taskVars, loopVars, chanVars
<1>9. ClosedIsQuiet'
  BY <1>1, <1>2, <1>3, <1>4 DEF TypeOK, OneOp, Active, Busy,
    ClosedIsQuiet, taskVars, loopVars, chanVars
<1>10. QED
  BY <1>4, <1>5, <1>6, <1>7, <1>8, <1>9

(* The races are counted, never forgotten.                                  *)
LEMMA RacesGrow ==
  ASSUME Sane, [Next]_vars, races' = 0
  PROVE  races = 0
<1> USE DEF counts
<1>1. races \in Nat
  BY TaskManagerAssumption DEF Sane, TypeOK
<1>2. CASE LoopStep
  BY <1>2 DEF LoopStep, Dispatch, RetryTimer, Errs, ShutdownBranch, LoopExits
<1>3. CASE \E i \in OpIds : OpStep(i)
  BY <1>3 DEF OpStep, OpUpdate, OpDo, OpStatus, OpAbandoned, OpReport, OpReturns, Errs,
    OpDropped
<1>4. CASE \E d \in Lifecycle!DesiredStates, v \in {spec, spec + 1} : Update(d, v)
  BY <1>1, <1>4 DEF Update
<1>5. CASE Close \/ CtxDone \/ UNCHANGED vars
  BY <1>5 DEF Close, CtxDone, vars
<1>6. QED
  BY <1>2, <1>3, <1>4, <1>5 DEF Next

(* Every step that is not such a race keeps the invariant.                  *)
LEMMA NextInv ==
  ASSUME IInv, races = 0, races' = 0, [Next]_vars
  PROVE  IInv'
<1> USE SaneNext DEF IInv
<1>1. CASE LoopStep
  BY <1>1, KeepsDispatch, KeepsRetryTimer, KeepsShutdown, KeepsExit DEF LoopStep
<1>2. CASE \E i \in OpIds : OpStep(i)
  <2>1. PICK i \in OpIds : OpStep(i)
    BY <1>2
  <2>2. QED
    BY <2>1, KeepsOpUpdate, KeepsOpDo, KeepsOpStatus, KeepsOpAbandoned,
      KeepsOpReport, KeepsOpReturns, KeepsOpDropped DEF OpStep
<1>3. CASE \E d \in Lifecycle!DesiredStates, v \in {spec, spec + 1} : Update(d, v)
  BY <1>3, KeepsUpdate
<1>4. CASE Close \/ CtxDone \/ UNCHANGED vars
  BY <1>4, KeepsEnd
<1>5. QED
  BY <1>1, <1>2, <1>3, <1>4 DEF Next

(* The invariant holds when the task is given to the manager.               *)
LEMMA InitInv ==
  ASSUME Init
  PROVE  IInv
<1> USE TaskManagerAssumption DEF Init, Selecting
<1>1. \A i \in OpIds : ops[i].pc = "idle" /\ i # 0
  BY DEF IdleOp, OpIds
<1>2. ops \in [OpIds -> OpRecs]
  BY States DEF LifeStates, OpRecs, IdleOp, OpPCs, Errors
<1>3. stored \in Lifecycle!AgentStates /\ Resolve(stored) = Resolve(state)
  BY States DEF LifeStates, Resolve
<1>4. TypeOK
  <2>1. /\ updates \in 0..MaxUpdates /\ spec \in 0..updates /\ ctlr \in 0..spec
        /\ refused \in 0..spec /\ races \in 0..MaxRaces
        /\ timers \in Nat /\ temporary \in 0..MaxTemporary /\ cancel = 0
    OBVIOUS
  <2>2. QED
    BY <1>2, <1>3, <2>1, Zenon DEF TypeOK
<1>5. OneOp /\ OneReason /\ OpView /\ ClosedIsQuiet /\ ClosedIdle /\ SpecsKnown
  BY <1>1 DEF OneOp, OneReason, OpView, ClosedIsQuiet, ClosedIdle, SpecsKnown, IdleOp,
    Active, Busy
<1>6. Disk /\ Controller
  BY <1>1, <1>3, States DEF LifeStates, Resolve, Disk, Controller, ControllerUpToDate, Active
<1>7. QED
  BY <1>4, <1>5, <1>6 DEF IInv, Sane

----------------------------------------------------------------------------
(* What the task manager promises                                           *)

(* The invariant: the variables are sane, and until an update arrives while *)
(* a retry timer runs, at most one operation runs, and it works on the      *)
(* loop's task but for the updates that cancelled it.                       *)
THEOREM Invariant == Spec => [](Sane /\ (races = 0 => IInv))
<1>1. Init => Sane /\ (races = 0 => IInv)
  BY InitInv DEF IInv
<1>2. Sane /\ (races = 0 => IInv) /\ [Next]_vars => (Sane /\ (races = 0 => IInv))'
  BY SaneNext, RacesGrow, NextInv
<1>3. QED
  BY <1>1, <1>2, PTL DEF Spec

(* The variables of the loop and of its operations keep their types, and    *)
(* cancel is nil or cancels an operation that runs, in all behaviours.      *)
THEOREM TypeCorrect == Spec => []TypeOK
<1>1. Sane => TypeOK
  BY DEF Sane
<1>2. QED
  BY <1>1, Invariant, PTL

(* Until an update arrives while a retry timer runs: between operations the *)
(* disk holds the status of the task, or after the stop of the agent a      *)
(* later one.                                                               *)
THEOREM DiskAgrees == Spec => []StoredWhenIdle
<1>1. (races = 0 => IInv) => StoredWhenIdle
  BY DEF IInv, Disk, StoredWhenIdle, Busy
<1>2. QED
  BY <1>1, Invariant, PTL

(* Until an update arrives while a retry timer runs: exec.Do never runs on  *)
(* a controller that was not given the task before.                         *)
THEOREM ControllerSafe == Spec => []ControllerUpToDate
<1>1. (races = 0 => IInv) => ControllerUpToDate
  BY DEF IInv, Controller, ControllerUpToDate
<1>2. QED
  BY <1>1, Invariant, PTL

(* Until an update arrives while a retry timer runs: Close waits for the    *)
(* operation, so that a closed manager runs none, unless the whole agent    *)
(* stops.                                                                   *)
THEOREM CloseSafe == Spec => []ClosedIsQuiet
<1>1. (races = 0 => IInv) => ClosedIsQuiet
  BY DEF IInv, ClosedIsQuiet
<1>2. QED
  BY <1>1, Invariant, PTL

(* Only an update changes the desired state, and only a status the loop     *)
(* takes from an operation changes the state.                               *)
LEMMA OthersKeepTask ==
  ASSUME [Next]_vars,
         ~(\E i \in OpIds : OpStatus(i)),
         ~(\E d \in Lifecycle!DesiredStates, v \in {spec, spec + 1} : Update(d, v))
  PROVE  UNCHANGED <<state, desired>>
<1> USE DEF taskVars
<1>1. CASE LoopStep
  BY <1>1 DEF LoopStep, Dispatch, RetryTimer, Errs, ShutdownBranch, LoopExits
<1>2. CASE \E i \in OpIds : OpStep(i)
  BY <1>2 DEF OpStep, OpUpdate, OpDo, OpAbandoned, OpReport, OpReturns, Errs, OpDropped
<1>3. CASE Close \/ CtxDone \/ UNCHANGED vars
  BY <1>3 DEF Close, CtxDone, vars
<1>4. QED
  BY <1>1, <1>2, <1>3 DEF Next

(* A status taken by the loop is a move of the lifecycle.                   *)
LEMMA StatusRefines ==
  ASSUME IInv, NEW i \in OpIds, OpStatus(i)
  PROVE  [Lifecycle!Next]_Lifecycle!vars
<1>1. /\ Moves(state, ops[i].desired, ops[i].state) /\ ops[i].desired <= desired
      /\ state' = ops[i].state /\ desired' = desired
  BY DEF IInv, OpView, Active, Selecting, OpStatus
<1>2. ops[i] \in OpRecs
  BY DEF IInv, Sane, TypeOK
<1>3. Moves(state, desired, state')
  BY <1>1, <1>2, RecTypes, MovesGrow DEF IInv, Sane, TypeOK
<1>4. state' = state \/ Lifecycle!Advance \/ Lifecycle!Fail \/ Lifecycle!ShutDown
  BY <1>1, <1>3 DEF Moves, Lifecycle!Advance, Lifecycle!Fail, Lifecycle!ShutDown
<1>5. QED
  BY <1>1, <1>4 DEF Lifecycle!Next, Lifecycle!vars

(* An update raises the desired state or leaves it.                         *)
LEMMA UpdateRefines ==
  ASSUME IInv, NEW d \in Lifecycle!DesiredStates, NEW v, Update(d, v)
  PROVE  [Lifecycle!Next]_Lifecycle!vars
<1>1. desired' = d /\ d >= desired /\ state' = state
  BY DEF Update, Accepts
<1>2. desired \in Lifecycle!DesiredStates
  BY DEF IInv, Sane, TypeOK
<1>3. desired' = desired \/ desired' > desired
  BY <1>1, <1>2, States DEF LifeStates
<1>4. QED
  BY <1>1, <1>3 DEF Lifecycle!Next, Lifecycle!Desire, Lifecycle!vars

(* Without such updates every state is one of the invariant.                *)
LEMMA NoRaces ==
  ASSUME MaxRaces = 0
  PROVE  Spec => []IInv
<1>1. Sane => races = 0
  BY DEF Sane, TypeOK
<1>2. QED
  BY <1>1, Invariant, PTL

(* The task manager implements the task lifecycle: whatever the             *)
(* interleaving of operations, updates, retries and Close, the task moves   *)
(* one state at a time, only as far as desired, and never back, if no       *)
(* update arrives while a retry timer runs.                                 *)
THEOREM Refinement ==
  ASSUME MaxRaces = 0
  PROVE  Spec => ImplementsLifecycle
<1>1. Init => Lifecycle!Init
  BY DEF Init, Lifecycle!Init
<1>2. IInv /\ [Next]_vars => [Lifecycle!Next]_Lifecycle!vars
  BY StatusRefines, UpdateRefines, OthersKeepTask DEF Lifecycle!vars
<1>3. QED
  BY <1>1, <1>2, NoRaces, PTL DEF Spec, ImplementsLifecycle, Lifecycle!Spec

(* "The task state can never move backwards", if no update arrives while a  *)
(* retry timer runs.                                                        *)
THEOREM Monotonic ==
  ASSUME MaxRaces = 0
  PROVE  Spec => StateNeverBack
<1>1. IInv /\ [Lifecycle!Next]_Lifecycle!vars => [state' >= state]_state
  BY States DEF IInv, Sane, TypeOK, LifeStates, Lifecycle!Next, Lifecycle!Desire,
    Lifecycle!Advance, Lifecycle!Fail, Lifecycle!ShutDown, Lifecycle!vars
<1>2. QED
  BY <1>1, NoRaces, Refinement, PTL
    DEF ImplementsLifecycle, Lifecycle!Spec, StateNeverBack
=============================================================================
