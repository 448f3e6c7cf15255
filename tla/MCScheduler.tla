---------------------------- MODULE MCScheduler ----------------------------
(* Scheduler for TLC.                                                       *)
EXTENDS Scheduler

Plain == [need |-> 0, port |-> 0, max |-> 0, label |-> FALSE, volume |-> None]

MCSpecs ==
  [small |-> [Plain EXCEPT !.need = 1], big |-> [Plain EXCEPT !.need = 2],
   web |-> [Plain EXCEPT !.port = 80], single |-> [Plain EXCEPT !.max = 1],
   picky |-> [Plain EXCEPT !.need = 1, !.label = TRUE],
   disk |-> [Plain EXCEPT !.volume = "own"],
   shared |-> [Plain EXCEPT !.volume = "local"]]

MCVolumes == [own |-> "none", local |-> "node"]

Two(x, y) == [t1 |-> x, t2 |-> y]
Three(x, y, z) == [t1 |-> x, t2 |-> y, t3 |-> z]

(* Two small tasks and two nodes with room for one each; nothing happens.   *)
Calm ==
  [of |-> Two("small", "small"), pre |-> [i \in Tasks |-> None],
   room |-> [n1 |-> 1, n2 |-> 1], joins |-> 0, flips |-> 0, removals |-> 0,
   halts |-> 0, labels |-> 0, resizes |-> 0, stops |-> 0, exits |-> 0,
   deletes |-> 0, services |-> 0, pauses |-> 0, drops |-> 0, fails |-> 0,
   repeats |-> 0, leaders |-> 0, new |-> {}, prompt |-> TRUE, ghosts |-> FALSE,
   stale |-> FALSE]

(* One node, with room for one task.                                        *)
Tight == [Calm EXCEPT !.room = [n1 |-> 1]]

(* The first task is one of a global service, for the first node.           *)
Global == [Calm.pre EXCEPT !["t1"] = "n1"]

(* Tasks stop, end and are deleted while others wait for their place: the   *)
(* room they reserve, their host port or MaxReplicas.                       *)
Ends ==
  {[Tight EXCEPT !.exits = 1, !.stops = 1, !.deletes = 1, !.leaders = 1],
   [Tight EXCEPT !.of = Two("web", "web"), !.stops = 1, !.deletes = 1,
                 !.exits = 1],
   [Tight EXCEPT !.of = Two("single", "single"), !.stops = 1, !.deletes = 1,
                 !.exits = 1]}

(* Nodes join, come and go, are removed and report other resources.         *)
Cluster ==
  {[Tight EXCEPT !.stops = 1, !.deletes = 1, !.flips = 1],
   [Tight EXCEPT !.joins = 1, !.stops = 1, !.services = 1],
   [Tight EXCEPT !.joins = 1, !.services = 2],
   [Tight EXCEPT !.of = Two("big", "small"), !.room = [n1 |-> 2],
                 !.resizes = 1, !.exits = 1, !.stops = 1],
   [Calm EXCEPT !.flips = 2, !.removals = 1]}

(* Tasks whose node is given, beside tasks that are to be placed.           *)
Preassigned ==
  {[Tight EXCEPT !.pre = Global, !.exits = 1, !.flips = 1, !.stops = 1],
   [Calm EXCEPT !.pre = Global, !.flips = 1, !.removals = 1, !.stops = 1],
   [Calm EXCEPT !.pre = Global, !.deletes = 1, !.stops = 1],
   [Calm EXCEPT !.of = Three("small", "small", "small"), !.pre = Global,
                !.stops = 1]}

(* More tasks than there is room for.                                       *)
Groups ==
  {[Calm EXCEPT !.of = Three("small", "small", "small"), !.exits = 1],
   [Calm EXCEPT !.of = Three("big", "small", "small"),
                !.room = [n1 |-> 2, n2 |-> 1], !.stops = 1]}

(* Tasks that mount a volume which is for one of them, or for one node, and *)
(* is paused or drained while one waits for the other.                      *)
Mounts ==
  {[Calm EXCEPT !.of = Two("disk", "disk"), !.stops = 1, !.leaders = 1],
   [Calm EXCEPT !.of = Two("disk", "disk"), !.stops = 1, !.repeats = 1],
   [Tight EXCEPT !.of = Two("disk", "disk"), !.stops = 1, !.pauses = 1],
   [Calm EXCEPT !.of = Two("shared", "shared"), !.flips = 1]}

(* A volume is created, used, paused and removed, and calls of the plugin   *)
(* fail.                                                                    *)
Plugin ==
  {[Calm EXCEPT !.of = [t1 |-> "disk"], !.stops = 1, !.drops = 1, !.fails = 1],
   [Calm EXCEPT !.of = [t1 |-> "disk"], !.exits = 1, !.drops = 1, !.pauses = 1],
   [Calm EXCEPT !.of = [t1 |-> "disk"], !.stops = 1, !.new = {"own"},
                !.fails = 1, !.leaders = 1]}

(* Nodes lose room and label, are paused and come back; a volume is drained *)
(* while it is being used.                                                  *)
Demands ==
  {[Tight EXCEPT !.of = Two("picky", "small"), !.room = [n1 |-> 2],
                 !.labels = 1, !.halts = 2],
   [Tight EXCEPT !.of = Two("small", "picky"), !.room = [n1 |-> 2],
                 !.pre = Global, !.labels = 1, !.resizes = 1],
   [Tight EXCEPT !.room = [n1 |-> 2], !.resizes = 2, !.leaders = 1],
   [Tight EXCEPT !.of = [t1 |-> "disk"], !.pauses = 2, !.leaders = 1]}

All == Ends \cup Cluster \cup Preassigned \cup Groups \cup Mounts
         \cup Plugin \cup Demands

(* In no run: a pass begins before the scheduler has handled the events of  *)
(* its own writes, and WithinLimits fails (README, section 6).              *)
Stalled == {[Tight EXCEPT !.exits = 1, !.flips = 2, !.prompt = FALSE]}
=============================================================================
