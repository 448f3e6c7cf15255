---------------------------- MODULE TaskManager ----------------------------
(* The task manager of an agent (agent/task.go): the loop that owns one     *)
(* task, the goroutines it starts to run exec.Do on the task's controller,  *)
(* the updates of the worker, the retry timer, and Close.                   *)
(*                                                                          *)
(* The loop never blocks inside a branch of its select, so a branch is one  *)
(* step, taken together with the goroutine it exchanges a value with.  The  *)
(* controller is the environment: an operation may succeed, fail for good,  *)
(* fail temporarily, or return because its context was cancelled.           *)
EXTENDS Naturals, FiniteSets

CONSTANTS
  MaxUpdates,     \* bound on updates of the task
  MaxTemporary,   \* bound on temporary errors of the controller
  MaxOps,         \* bound on operations that run at the same time
  MaxRaces        \* bound on updates that arrive while a retry timer runs

ASSUME TaskManagerAssumption ==
  /\ MaxUpdates \in Nat /\ MaxTemporary \in Nat /\ MaxOps \in Nat \ {0}
  /\ MaxRaces \in Nat

VARIABLES
  state,      \* tm.task.Status.State
  desired,    \* tm.task.DesiredState
  spec,       \* the rest of tm.task, as the number of its last change
  run,        \* the run channel holds its one token
  cancel,     \* the operation that the variable cancel would cancel, 0 if nil
  updated,    \* the variable updated
  shutdownOn, \* the variable shutdown is not nil
  piped,      \* statusq and errs are not nil
  loop,       \* the loop: "select" or "exited"
  shutdown,   \* tm.shutdown is closed
  closed,     \* tm.closed is closed
  ctxDone,    \* the context of the agent is cancelled
  ops,        \* the goroutines that run an operation
  timers,     \* AfterFunc timers that will send nil to errs
  ctlr,       \* the spec the controller last took
  refused,    \* the spec its Update last returned an error for
  stored,     \* the state last given to the reporter, and so the one on disk
  updates,    \* updates so far
  races,      \* those that arrived while a retry timer ran
  temporary   \* temporary errors so far

loopVars == <<run, cancel, updated, shutdownOn, piped, loop>>
taskVars == <<state, desired, spec>>
chanVars == <<shutdown, closed, ctxDone>>
ctlrVars == <<ctlr, refused>>
counts == <<updates, races, temporary>>
vars == <<state, desired, spec, run, cancel, updated, shutdownOn, piped, loop,
          shutdown, closed, ctxDone, ops, timers, ctlr, refused, stored, updates, races,
          temporary>>

Lifecycle == INSTANCE TaskLifecycle WITH state <- state, desired <- desired

OpIds == 1..MaxOps
IdleOp == [pc |-> "idle", state |-> Lifecycle!Assigned, desired |-> Lifecycle!Ready,
           spec |-> 0, cancelled |-> FALSE, err |-> "nil"]

----------------------------------------------------------------------------
(* exec.Resolve and exec.Do                                                 *)

(* Resolve with a controller: at least accepted.                            *)
Resolve(s) == IF s < Lifecycle!Accepted THEN Lifecycle!Accepted ELSE s

(* How an operation of the controller may end.                              *)
Outcomes == {"ok", "temporary", "cancelled", "fatal"}

(* The controller operation out of state s: its error is retried when it is *)
(* temporary or a cancellation, and otherwise ends the task.                *)
Operation(s, out, next) ==
  CASE out = "ok" -> [state |-> next, err |-> "nil"]
    [] out \in {"temporary", "cancelled"} -> [state |-> s, err |-> "retry"]
    [] out = "fatal" -> [state |-> IF s < Lifecycle!Starting
                                   THEN Lifecycle!Rejected ELSE Lifecycle!Failed,
                         err |-> "nil"]

(* Do on a task in state s with desired state d reaches the controller.     *)
Operates(s, d) ==
  IF d >= Lifecycle!Shutdown THEN s < Lifecycle!Complete
  ELSE s <= d /\ s \in Lifecycle!Operating

(* Mutated form of Do: a pause state does not wait for the desired state.   *)
DoNoPause(s, d, out) ==
  CASE d >= Lifecycle!Shutdown /\ Operates(s, d) -> Operation(s, out, Lifecycle!Shutdown)
    [] d < Lifecycle!Shutdown /\ Operates(s, d) -> Operation(s, out, s + 1)
    [] ~Operates(s, d) /\ s < Lifecycle!Complete -> [state |-> s + 1, err |-> "nil"]
    [] OTHER -> [state |-> s, err |-> "noop"]

(* One call of Do, given how the controller answers.                        *)
Do(s, d, out) ==
  CASE d >= Lifecycle!Shutdown /\ Operates(s, d) -> Operation(s, out, Lifecycle!Shutdown)
    [] d < Lifecycle!Shutdown /\ Operates(s, d) -> Operation(s, out, s + 1)
    [] d < Lifecycle!Shutdown /\ ~Operates(s, d) /\ s < d /\ s < Lifecycle!Complete
         -> [state |-> s + 1, err |-> "nil"]
    [] OTHER -> [state |-> s, err |-> "noop"]

----------------------------------------------------------------------------
(* The branches of the select                                               *)

Selecting == loop = "select"

Busy == {i \in OpIds : ops[i].pc # "idle"}

(* Mutated form of StartedOp: the controller is not told of the update.     *)
StartedOpStale(i) ==
  [pc |-> "do", state |-> state, desired |-> desired, spec |-> spec,
   cancelled |-> FALSE, err |-> "nil"]

(* The goroutine works on a copy of the task.                               *)
StartedOp(i) ==
  [pc |-> IF updated THEN "update" ELSE "do", state |-> state,
   desired |-> desired, spec |-> spec, cancelled |-> FALSE, err |-> "nil"]

(* case <-run: unless the manager is shutting down, start an operation.     *)
Dispatch ==
  /\ Selecting /\ run
  /\ run' = FALSE
  /\ IF shutdown
     THEN shutdownOn' = TRUE /\ UNCHANGED <<cancel, updated, ops>>
     ELSE IF closed THEN UNCHANGED <<shutdownOn, cancel, updated, ops>>
     ELSE /\ \E i \in OpIds \ Busy :
               /\ \A j \in OpIds \ Busy : i <= j
               /\ ops' = [ops EXCEPT ![i] = StartedOp(i)]
               /\ cancel' = i
          /\ updated' = FALSE
          /\ UNCHANGED shutdownOn
  /\ UNCHANGED <<taskVars, chanVars, piped, loop, timers, ctlrVars, stored, counts>>

(* Mutated form of Redispatch: a noop is not repeated for an update.        *)
RedispatchNotNoop(err) == err = "nil"

(* Run again: always after progress, after a noop only for an update.  A    *)
(* retry waits for its timer.                                               *)
Redispatch(err) == err = "nil" \/ (err = "noop" /\ updated)

(* Mutated form of NoOp: cancel is not reset.                               *)
StillOp == cancel

(* The value of cancel when no operation is outstanding.                    *)
NoOp == 0

(* The shutdown branch is enabled again once the operation has ended.       *)
Reenabled == TRUE

(* case err := <-errs.                                                      *)
Errs(err) ==
  /\ Selecting /\ piped
  /\ cancel' = NoOp
  /\ IF shutdown
     THEN shutdownOn' = Reenabled /\ UNCHANGED run
     ELSE run' = (run \/ Redispatch(err)) /\ UNCHANGED shutdownOn
  /\ UNCHANGED <<taskVars, chanVars, updated, piped, loop, ctlrVars, stored, counts>>

(* An operation that has returned hands its error to the loop.              *)
OpReturns(i) ==
  /\ ops[i].pc = "done"
  /\ Errs(ops[i].err)
  /\ ops' = [ops EXCEPT ![i] = IdleOp]
  /\ timers' = IF ops[i].err = "retry" /\ ~shutdown THEN timers + 1 ELSE timers

(* A retry timer sends nil to errs; when errs is nil it blocks for ever.    *)
RetryTimer ==
  /\ timers > 0
  /\ Errs("nil")
  /\ timers' = timers - 1
  /\ UNCHANGED ops

(* case status := <-statusq.                                                *)
OpStatus(i) ==
  /\ ops[i].pc = "send"
  /\ Selecting /\ piped
  /\ state' = ops[i].state
  /\ ops' = [ops EXCEPT ![i].pc = "report"]
  /\ UNCHANGED <<desired, spec, loopVars, chanVars, timers, ctlrVars, stored, counts>>

(* The context of operation i ends; one that has ended already does not     *)
(* mind.                                                                    *)
CancelOp(i) == IF i \in Busy THEN [ops EXCEPT ![i].cancelled = TRUE] ELSE ops

(* A task update that says something new and does not lower the desired     *)
(* state.                                                                   *)
Accepts(d, v) == <<d, v>> # <<desired, spec>> /\ d >= desired

(* case task := <-tm.updateq: the status of the update is not used.         *)
Update(d, v) ==
  /\ Selecting /\ updates < MaxUpdates
  /\ timers > 0 => races < MaxRaces
  /\ Accepts(d, v)
  /\ desired' = d /\ spec' = v
  /\ updated' = TRUE
  /\ ops' = CancelOp(cancel)
  /\ run' = (run \/ cancel = 0)
  /\ updates' = updates + 1
  /\ races' = IF timers > 0 THEN races + 1 ELSE races
  /\ UNCHANGED <<state, cancel, shutdownOn, piped, loop, chanVars, timers, ctlrVars,
                 stored, temporary>>

(* Mutated form of ShutdownReady: the operation is not waited for.          *)
ShutdownNow == TRUE

(* No operation is outstanding.                                             *)
ShutdownReady == cancel = 0

(* case <-shutdown: cancel the operation and wait for it, then close.       *)
ShutdownBranch ==
  /\ Selecting /\ shutdown /\ shutdownOn
  /\ shutdownOn' = FALSE
  /\ IF ShutdownReady
     THEN piped' = FALSE /\ closed' = TRUE /\ UNCHANGED ops
     ELSE ops' = CancelOp(cancel) /\ UNCHANGED <<piped, closed>>
  /\ UNCHANGED <<taskVars, run, cancel, updated, loop, shutdown, ctxDone, timers,
                 ctlrVars, stored, counts>>

(* case <-tm.closed, case <-ctx.Done(): leave the loop; cancelAll ends the  *)
(* contexts of all operations.                                              *)
LoopExits ==
  /\ Selecting /\ (closed \/ ctxDone)
  /\ loop' = "exited" /\ closed' = TRUE
  /\ ops' = [i \in OpIds |-> IF i \in Busy THEN [ops[i] EXCEPT !.cancelled = TRUE]
                             ELSE ops[i]]
  /\ UNCHANGED <<taskVars, run, cancel, updated, shutdownOn, piped, shutdown, ctxDone,
                 timers, ctlrVars, stored, counts>>

----------------------------------------------------------------------------
(* An operation                                                             *)

(* The context of an operation is derived from the one of the loop.         *)
Cancelled(i) == ops[i].cancelled \/ ctxDone

(* tm.ctlr.Update takes the task or returns an error, which ends the        *)
(* operation. The loop then runs again, as after any such error, and does   *)
(* not come back to the update.                                             *)
OpUpdate(i) ==
  /\ ops[i].pc = "update"
  /\ \/ /\ ctlr' = ops[i].spec
        /\ ops' = [ops EXCEPT ![i].pc = "do"]
        /\ UNCHANGED refused
     \/ /\ refused' = ops[i].spec
        /\ ops' = [ops EXCEPT ![i].pc = "done", ![i].err = "nil"]
        /\ UNCHANGED ctlr
  /\ UNCHANGED <<taskVars, loopVars, chanVars, timers, stored, counts>>

(* exec.Do ends with the given outcome of the controller.                   *)
OpDo(i, out) ==
  /\ ops[i].pc = "do"
  /\ Operates(ops[i].state, ops[i].desired) \/ out = "ok"
  /\ out = "cancelled" => Cancelled(i)
  /\ out = "temporary" => temporary < MaxTemporary
  /\ temporary' = IF out = "temporary" THEN temporary + 1 ELSE temporary
  /\ LET r == Do(ops[i].state, ops[i].desired, out)
     IN ops' = [ops EXCEPT ![i].pc = "send", ![i].state = r.state, ![i].err = r.err]
  /\ UNCHANGED <<taskVars, loopVars, chanVars, timers, ctlrVars, stored, updates, races>>

(* The context of the loop has ended, with the agent's or as the loop left: *)
(* the status is reported, but not placed back.                             *)
OpAbandoned(i) ==
  /\ ops[i].pc = "send" /\ (ctxDone \/ loop = "exited")
  /\ ops' = [ops EXCEPT ![i].pc = "report"]
  /\ UNCHANGED <<taskVars, loopVars, chanVars, timers, ctlrVars, stored, counts>>

(* Mutated form of Reported: a cancelled operation reports nothing.         *)
ReportedUnlessCancelled(i) == IF ops[i].cancelled THEN stored ELSE ops[i].state

(* A status is reported whether or not the operation was cancelled.         *)
Reported(i) == ops[i].state

(* tm.reporter.UpdateTaskStatus.                                            *)
OpReport(i) ==
  /\ ops[i].pc = "report"
  /\ stored' = Reported(i)
  /\ ops' = [ops EXCEPT ![i].pc = "done"]
  /\ UNCHANGED <<taskVars, loopVars, chanVars, timers, ctlrVars, counts>>

(* runctx gives up handing over the error; the loop may still select.       *)
OpDropped(i) ==
  /\ ops[i].pc = "done" /\ (closed \/ ctxDone)
  /\ ops' = [ops EXCEPT ![i] = IdleOp]
  /\ UNCHANGED <<taskVars, loopVars, chanVars, timers, ctlrVars, stored, counts>>

----------------------------------------------------------------------------
(* The worker                                                               *)

(* Close.                                                                   *)
Close ==
  /\ ~shutdown
  /\ shutdown' = TRUE
  /\ UNCHANGED <<taskVars, loopVars, closed, ctxDone, ops, timers, ctlrVars, stored,
                 counts>>

(* The agent stops.                                                         *)
CtxDone ==
  /\ ~ctxDone
  /\ ctxDone' = TRUE
  /\ UNCHANGED <<taskVars, loopVars, shutdown, closed, ops, timers, ctlrVars, stored,
                 counts>>

(* A task is given to a manager as the worker first sees it, or as it was   *)
(* left on disk when the agent stopped.                                     *)
Init ==
  /\ state \in Lifecycle!AgentStates /\ desired \in Lifecycle!DesiredStates
  /\ spec = 0 /\ ctlr = 0 /\ refused = 0
  /\ run = TRUE /\ cancel = 0 /\ updated = FALSE /\ shutdownOn = TRUE
  /\ piped = TRUE /\ loop = "select"
  /\ shutdown = FALSE /\ closed = FALSE /\ ctxDone = FALSE
  /\ ops = [i \in OpIds |-> IdleOp]
  /\ timers = 0 /\ stored = Resolve(state)
  /\ updates = 0 /\ races = 0 /\ temporary = 0

OpStep(i) ==
  \/ OpUpdate(i) \/ \E out \in Outcomes : OpDo(i, out)
  \/ OpStatus(i) \/ OpAbandoned(i) \/ OpReport(i) \/ OpReturns(i) \/ OpDropped(i)

LoopStep == Dispatch \/ RetryTimer \/ ShutdownBranch \/ LoopExits

Next ==
  \/ LoopStep
  \/ \E i \in OpIds : OpStep(i)
  \/ \E d \in Lifecycle!DesiredStates, v \in {spec, spec + 1} : Update(d, v)
  \/ Close \/ CtxDone

(* Wait returns when the container exits, which it need not do, or when it  *)
(* is cancelled.                                                            *)
Waiting(i) ==
  /\ ops[i].pc = "do" /\ ~Cancelled(i)
  /\ ops[i].desired < Lifecycle!Shutdown /\ ops[i].state = Lifecycle!Running

(* Goroutines that can run do run, timers fire, and the operations of the   *)
(* controller return, Wait apart.                                           *)
Fairness ==
  /\ WF_vars(Dispatch) /\ WF_vars(RetryTimer) /\ WF_vars(ShutdownBranch)
  /\ WF_vars(LoopExits)
  /\ \A i \in OpIds : WF_vars(~Waiting(i) /\ OpStep(i))

Spec == Init /\ [][Next]_vars /\ Fairness

----------------------------------------------------------------------------
(* Properties                                                               *)

OpPCs == {"idle", "update", "do", "send", "report", "done"}
Errors == {"nil", "noop", "retry"}
OpRecs == [pc : OpPCs, state : Lifecycle!AgentStates, desired : Lifecycle!DesiredStates,
           spec : 0..MaxUpdates, cancelled : BOOLEAN, err : Errors]

TypeOK ==
  /\ state \in Lifecycle!AgentStates /\ desired \in Lifecycle!DesiredStates
  /\ stored \in Lifecycle!AgentStates
  /\ updates \in 0..MaxUpdates /\ spec \in 0..updates /\ ctlr \in 0..spec /\ refused \in 0..spec
  /\ cancel \in OpIds \cup {0}
  /\ Selecting /\ ~ctxDone /\ cancel # 0 => cancel \in Busy
  /\ loop \in {"select", "exited"}
  /\ run \in BOOLEAN /\ updated \in BOOLEAN /\ shutdownOn \in BOOLEAN
  /\ piped \in BOOLEAN /\ shutdown \in BOOLEAN /\ closed \in BOOLEAN
  /\ ctxDone \in BOOLEAN
  /\ ops \in [OpIds -> OpRecs]
  /\ timers \in Nat /\ races \in 0..MaxRaces /\ temporary \in 0..MaxTemporary

(* The task manager moves its task as design/task_model.md promises: one    *)
(* state at a time, no further than desired, never back, whatever the       *)
(* interleaving of operations, updates, retries and Close.                  *)
ImplementsLifecycle == Lifecycle!Spec

(* The properties below are kept until an update arrives while a retry      *)
(* timer runs: two operations may then run at once (run task_retry).        *)

(* When no operation runs, what the worker has on disk is the status of the *)
(* task: up to ACCEPTED, which Resolve reports but does not put in the task, *)
(* so that a failed operation can still report ASSIGNED after it.  Once the *)
(* agent stops, a status may be reported and not placed back in the task;   *)
(* then the disk, from which the next agent goes on, is the one ahead.      *)
StoredWhenIdle ==
  races = 0 /\ Busy = {} =>
    /\ Resolve(stored) >= Resolve(state)
    /\ ~ctxDone => Resolve(stored) = Resolve(state)

(* "always update the controller before running": Do works on a controller  *)
(* that has taken the task Do was given, or whose Update returned an error  *)
(* for this very task.                                                      *)
ControllerUpToDate ==
  races = 0 =>
    \A i \in OpIds : ops[i].pc = "do" => ops[i].spec \in {ctlr, refused}

(* "wait until operation actually exits": the manager is closed only when   *)
(* no operation is outstanding, unless the whole agent stops.               *)
ClosedIsQuiet == races = 0 /\ closed /\ ~ctxDone => Busy = {}

(* Close returns.                                                           *)
CloseCompletes == shutdown ~> closed

(* A task that is to be shut down ends, although an operation may be        *)
(* running, waiting for a retry, or be cancelled by yet another update.     *)
ShutdownHappens ==
  desired >= Lifecycle!Shutdown ~> state >= Lifecycle!Complete \/ closed

(* An accepted update is brought to the controller, which takes or refuses  *)
(* it.                                                                      *)
UpdateReachesController == ctlr # spec ~> spec \in {ctlr, refused} \/ closed

(* Whatever the loop is asked while an operation runs, fails or is retried  *)
(* is done in the end: it closes, it shuts the task down, it brings the new *)
(* specification to the controller.                                         *)
Responsive == CloseCompletes /\ ShutdownHappens /\ UpdateReachesController

(* "The task state can never move backwards - it only increases             *)
(* monotonically."                                                          *)
StateNeverBack == [][state' >= state]_state
=============================================================================
