------------------------------ MODULE NodeInfo ------------------------------
(* The scheduler's picture of the cluster (manager/scheduler/nodeinfo.go,   *)
(* nodeset.go, volumes.go) and the filters that are asked whether a task    *)
(* fits on a node (filter.go, pipeline.go).                                 *)
(*                                                                          *)
(* CPUs and memory are one amount, need of a task and room of a node;       *)
(* generic resources, and the filters on plugins and platforms, are left    *)
(* out; the only constraint is on one label; a task mounts at most one      *)
(* cluster volume.                                                          *)
EXTENDS Integers, Sequences, FiniteSets, FiniteSetsExt, Functions, TLC

CONSTANTS
  Nodes,      \* nodes
  Tasks,      \* tasks, named by their IDs
  Volumes,    \* cluster volumes, and who may share one: "none", or the
              \* tasks of one "node", or "all"
  Services,   \* services
  Specs       \* what the tasks of a service ask for

None == "none"

ASSUME NodeInfoAssumption ==
  /\ IsFiniteSet(Tasks) /\ IsFiniteSet(Nodes) /\ IsFiniteSet(DOMAIN Volumes)
  /\ None \notin Nodes \cup DOMAIN Volumes
  /\ \A v \in DOMAIN Volumes : Volumes[v] \in {"none", "node", "all"}
  /\ \A x \in Services :
       /\ Specs[x].need \in Nat         \* resources reserved
       /\ Specs[x].port \in Nat         \* host port, 0 for none
       /\ Specs[x].max \in Nat          \* MaxReplicas per node, 0 for no limit
       /\ Specs[x].label \in BOOLEAN    \* a constraint: the node has the label
       /\ Specs[x].volume \in DOMAIN Volumes \cup {None}

Put(f, k, v) == [x \in DOMAIN f \cup {k} |-> IF x = k THEN v ELSE f[x]]
Overlay(g, f) ==
  [x \in DOMAIN g \cup DOMAIN f |-> IF x \in DOMAIN g THEN g[x] ELSE f[x]]
Drop(f, k) == Restrict(f, DOMAIN f \ {k})
Empty == <<>>

Asked(t) == Specs[t.svc]
Ports(t) == {Asked(t).port} \ {0}

----------------------------------------------------------------------------
(* NodeInfo: tasks has for each task counted on the node its service and    *)
(* whether it is wanted, that is, desired to be at most COMPLETED.          *)

(* What the tasks in f, a function of their IDs, have on their node: a pair *)
(* for each unit they reserve, host ports, and the wanted ones of each      *)
(* service.                                                                 *)
Units(f) == UNION {{i} \X (1..Asked(f[i]).need) : i \in DOMAIN f}
reserved(f) == Cardinality(Units(f))
usedHostPorts(f) == UNION {Ports(f[i]) : i \in DOMAIN f}
ActiveTasks(f, x) == {i \in DOMAIN f : f[i].svc = x /\ f[i].wanted}

(* removeTask, for each task of T that is counted.                          *)
removeTasks(ni, T) ==
  LET gone == DOMAIN ni.tasks \cap {t.id : t \in T}
      old == Restrict(ni.tasks, gone)
  IN  [ni EXCEPT !.tasks = Restrict(@, DOMAIN @ \ gone),
                 !.active = [x \in Services |-> @[x] - Cardinality(ActiveTasks(old, x))],
                 !.ports = @ \ usedHostPorts(old),
                 !.avail = @ + reserved(old)]

(* A task already counted only changes the number of active ones.           *)
addTask(ni, t) ==
  LET known == t.id \in DOMAIN ni.tasks
      was == known /\ ni.tasks[t.id].wanted
      n == (IF t.wanted THEN 1 ELSE 0) - (IF was THEN 1 ELSE 0)
  IN  [ni EXCEPT !.tasks = Put(@, t.id, [svc |-> t.svc,
                                                 wanted |-> t.wanted]),
                 !.active[t.svc] = @ + n,
                 !.avail = @ - (IF known THEN 0 ELSE Asked(t).need),
                 !.ports = @ \cup (IF known THEN {} ELSE Ports(t))]

(* The node with what adding the tasks one after the other comes to.        *)
newNodeInfo(node, tasks) ==
  [node |-> node,
   tasks |-> [i \in DOMAIN tasks |-> [svc |-> tasks[i].svc, wanted |-> tasks[i].wanted]],
   avail |-> node.room - reserved(tasks), ports |-> usedHostPorts(tasks),
   active |-> [x \in Services |-> Cardinality(ActiveTasks(tasks, x))]]

----------------------------------------------------------------------------
(* The volumes: the copy of a volume as it was first seen, and the node of  *)
(* each task that uses it. What is counted per node follows from that.      *)

hasVolume(t) == t.vol # None

reserveVolume(vs, t) ==
  IF hasVolume(t) /\ t.vol \in DOMAIN vs
  THEN [vs EXCEPT ![t.vol].users = Put(@, t.id, t.node)]
  ELSE vs

(* releaseVolume, for each task of T and the volume it has.                 *)
releaseVolumes(vs, T) ==
  [v \in DOMAIN vs |->
     [vs[v] EXCEPT !.users = Restrict(@, DOMAIN @ \ {t.id : t \in {t \in T : t.vol = v}})]]

(* Mutated form of inUse: one task by itself does not count.                *)
inUseByTwo(vs, v, n) ==
  Cardinality({i \in DOMAIN vs[v].users : vs[v].users[i] = n}) > 1

inUse(vs, v, n) == \E i \in DOMAIN vs[v].users : vs[v].users[i] = n

checkVolume(vs, v, n) ==
  /\ v \in DOMAIN vs /\ vs[v].active
  /\ Volumes[v] = "none" => vs[v].users = Empty
  /\ Volumes[v] = "node" => Range(vs[v].users) \subseteq {n}

----------------------------------------------------------------------------
(* The filters, in the order of the checklist                               *)

Filters == {"ready", "resources", "constraint", "port", "replicas", "volumes"}

ReadyFilter(ni) == ni.node.state = "ready"
ResourceFilter(ni, t) == Asked(t).need > 0 => Asked(t).need <= ni.avail
ConstraintFilter(ni, t) == Asked(t).label => ni.node.label
HostPortFilter(ni, t) == Ports(t) \cap ni.ports = {}
MaxReplicasFilter(ni, t) == Asked(t).max > 0 => ni.active[t.svc] < Asked(t).max
VolumesFilter(ni, vs, t) ==
  Asked(t).volume # None => checkVolume(vs, Asked(t).volume, ni.node.id)

Check(f, ni, vs, t) ==
  CASE f = "ready"      -> ReadyFilter(ni)
    [] f = "resources"  -> ResourceFilter(ni, t)
    [] f = "constraint" -> ConstraintFilter(ni, t)
    [] f = "port"       -> HostPortFilter(ni, t)
    [] f = "replicas"   -> MaxReplicasFilter(ni, t)
    [] f = "volumes"    -> VolumesFilter(ni, vs, t)

Process(ni, vs, t) == \A f \in Filters : Check(f, ni, vs, t)

(* The error of a task says what stopped it: how many nodes failed each     *)
(* filter first.                                                            *)
NoErr == [f \in Filters |-> 0]

FailsFirst(ni, vs, t) ==
  LET order == <<"ready", "resources", "constraint", "port", "replicas",
                 "volumes">>
      failed == {i \in DOMAIN order : ~Check(order[i], ni, vs, t)}
  IN  order[Min(failed)]

Explain(nis, vs, t) ==
  [f \in Filters |-> Cardinality({n \in DOMAIN nis :
                                    ~Process(nis[n], vs, t)
                                    /\ FailsFirst(nis[n], vs, t) = f})]

=============================================================================
