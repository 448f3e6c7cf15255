---------------------------- MODULE MCDispatcher ----------------------------
(* Dispatcher for TLC: one node with one task or none, and the scenarios of *)
(* each run.                                                                *)
EXTENDS Dispatcher, TLC

CONSTANTS n1, t1

StreamSymmetry == Permutations(Streams)
OneTask == (t1 :> n1)

Calm == [tasks |-> {}, busy |-> FALSE, regs |-> 2, breaks |-> 0, expiries |-> 0,
         crashes |-> 0, stops |-> 0, late |-> 0, exits |-> 0,
         removals |-> 0]

(* Sessions that break and end with the leadership; reports that come late  *)
(* while nodes and tasks are removed.                                       *)
SafetyBudgets ==
  {[Calm EXCEPT !.breaks = 1, !.expiries = 1, !.stops = 1],
   [Calm EXCEPT !.tasks = {t1}, !.expiries = 1, !.exits = 1, !.late = 1,
                 !.removals = 1]}

(* A dispatcher that stops and starts again among other traffic; an agent   *)
(* that dies.                                                               *)
LiveBudgets ==
  {[Calm EXCEPT !.tasks = {t1}, !.busy = TRUE, !.regs = 3, !.exits = 1,
                !.stops = 1],
   [Calm EXCEPT !.tasks = {t1}, !.crashes = 1]}

(* An agent that dies.                                                      *)
CrashBudget == {[Calm EXCEPT !.crashes = 1]}
=============================================================================
