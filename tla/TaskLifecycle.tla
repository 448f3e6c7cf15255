--------------------------- MODULE TaskLifecycle ---------------------------
(* What the agent promises about one task (design/task_model.md, "Task      *)
(* lifecycle"): from ASSIGNED on the agent moves the task one state at a    *)
(* time, only as far as the manager desires, and never back.  The states    *)
(* keep the order of the protobuf enum TaskState.                           *)
EXTENDS Naturals

VARIABLES
  state,    \* Status.State of the task
  desired   \* DesiredState

vars == <<state, desired>>

Assigned == 2
Accepted == 3
Preparing == 4
Ready == 5
Starting == 6
Running == 7
Complete == 8
Shutdown == 9
Failed == 10
Rejected == 11
Remove == 12

(* The states a controller's operation leads out of: they may pass the      *)
(* desired state, once reached.                                             *)
Operating == {Preparing, Starting, Running}

(* The states the agent sets.                                               *)
AgentStates == Assigned..Rejected

(* The states a manager asks for.                                           *)
DesiredStates == {Ready, Running, Complete, Shutdown, Remove}

Init == state \in AgentStates /\ desired \in DesiredStates

(* The manager asks for more.                                               *)
Desire ==
  /\ desired' \in DesiredStates /\ desired' > desired
  /\ UNCHANGED state

(* One state forward; a pause state is left only for a greater desired one. *)
Advance ==
  /\ state < Complete
  /\ state < desired \/ (state = desired /\ state \in Operating)
  /\ state' = state + 1
  /\ UNCHANGED desired

(* A fatal error of an operation: rejected before the task was started,     *)
(* failed afterwards.                                                       *)
Fail ==
  /\ state < Complete
  /\ state \in Operating \/ desired >= Shutdown
  /\ state' = IF state < Starting THEN Rejected ELSE Failed
  /\ UNCHANGED desired

(* The task is shut down on request.                                        *)
ShutDown ==
  /\ desired >= Shutdown /\ state < Complete
  /\ state' = Shutdown
  /\ UNCHANGED desired

Next == Desire \/ Advance \/ Fail \/ ShutDown

Spec == Init /\ [][Next]_vars
=============================================================================
