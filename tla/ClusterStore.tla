---------------------------- MODULE ClusterStore ----------------------------
(* The store as scheduler and CSI manager see it: tasks, nodes, volumes and *)
(* services, the events of what is written, and what the rest of the swarm  *)
(* does to them.                                                            *)
(*                                                                          *)
(* Every write of a task has a version, and a write from a copy of another  *)
(* version is refused. A volume has a publish status for each node: "no"    *)
(* status at all, PENDING_PUBLISH, PUBLISHED, PENDING_NODE_UNPUBLISH (the   *)
(* agent has to let go of it) and PENDING_UNPUBLISH (the agent has).        *)
EXTENDS NodeInfo, SequencesExt

CONSTANT
  Scenarios   \* the tasks and nodes there are and what may happen to them

ASSUME ClusterAssumption ==
  \A sc \in Scenarios :
     /\ DOMAIN sc.of \subseteq Tasks             \* tasks and their services
     /\ \A i \in DOMAIN sc.of :
          sc.of[i] \in Services /\ sc.pre[i] \in Nodes \cup {None}
     /\ DOMAIN sc.room \subseteq Nodes           \* resources of each node
     /\ \A n \in DOMAIN sc.room : sc.room[n] \in Nat
     /\ {"of", "pre", "room", "new", "prompt", "stale"} \subseteq DOMAIN sc
     /\ sc.new \subseteq DOMAIN Volumes          \* volumes created meanwhile
     /\ sc.joins \in Nat      \* nodes that join
     /\ sc.flips \in Nat      \* nodes that go down or come back
     /\ sc.halts \in Nat      \* nodes paused or made active
     /\ sc.labels \in Nat     \* nodes that lose or get the label
     /\ sc.removals \in Nat   \* nodes removed
     /\ sc.resizes \in Nat    \* nodes that report other resources
     /\ sc.stops \in Nat      \* tasks no longer wanted
     /\ sc.exits \in Nat      \* tasks that end by themselves
     /\ sc.deletes \in Nat    \* tasks deleted
     /\ sc.services \in Nat   \* services updated or removed
     /\ sc.pauses \in Nat     \* volumes paused, drained or made active
     /\ sc.drops \in Nat      \* volumes removed
     /\ sc.fails \in Nat      \* calls of a volume plugin that fail
     /\ sc.repeats \in Nat    \* reports on a volume that come twice
     /\ sc.leaders \in Nat    \* changes of the leader
     /\ sc.prompt \in BOOLEAN \* see Schedule
     /\ sc.ghosts = FALSE     \* a pending task has been deleted
     /\ sc.stale = FALSE      \* see NodesObeyed

(* The states of a task told apart: New stands for NEW, Assigned for those  *)
(* from ASSIGNED to RUNNING, Dead for those after it.                       *)
TaskStateNew == 1
TaskStatePending == 2
TaskStateAssigned == 3
TaskStateDead == 4

PublishStates ==
  {"no", "pending", "published", "nodeUnpublish", "unpublish"}

VARIABLES
  db,      \* the store: tasks, nodes, volumes and services
  queue,   \* events the scheduler has not handled yet
  pendingVolumes,   \* volumes the CSI manager has yet to look at
  updates, \* updates of nodes and volumes for the enforcers
  left     \* the scenario and what is left of it

store == <<db, queue, pendingVolumes, updates, left>>

Live(t) == t.state = TaskStateAssigned
LiveAt(f, n) == Restrict(f, {i \in DOMAIN f : Live(f[i]) /\ f[i].node = n})
NextVersion(t) == [t EXCEPT !.ver = @ + 1]

Event(type, obj) == [type |-> type, obj |-> obj, own |-> FALSE]
Own(type, obj) == [type |-> type, obj |-> obj, own |-> TRUE]

(* A volume the CSI manager has something to do for. Every event of a       *)
(* volume puts it into pendingVolumes; the others are skipped there.        *)
HasWork(vol) ==
  ~vol.info \/ vol.deleting \/ \E n \in Nodes : vol.pub[n] \in {"pending", "unpublish"}

Working(vols, V) == {v \in V \cap DOMAIN vols : HasWork(vols[v])}

(* The updates that make an enforcer look at tasks: the availability of a   *)
(* node is active and of a volume drain. A node that has all it ever had is *)
(* passed over: what was placed on it fits.                                 *)
Lacks(node) == node.room < left.room[node.id] \/ ~node.label

Enforced(N) == SetToSeq({node \in N : node.state # "paused" /\ Lacks(node)})

Drained(vols, V) == {v \in V \cap DOMAIN vols : vols[v].avail = "drain"}

----------------------------------------------------------------------------
Spend(k) == left[k] > 0 /\ left' = [left EXCEPT ![k] = @ - 1]

Write(T) ==
  /\ db' = [db EXCEPT !.tasks = Overlay([i \in {t.id : t \in T} |->
                                           NextVersion(CHOOSE t \in T : t.id = i)], @)]
  /\ queue' = queue \o SetToSeq({Event("task", NextVersion(t)) : t \in T})

(* The allocator is done with a task.                                       *)
Allocate(t) ==
  /\ t.state = TaskStateNew
  /\ Write({[t EXCEPT !.state = TaskStatePending]})
  /\ UNCHANGED left

(* An orchestrator no longer wants a task.                                  *)
Stop(t) ==
  /\ Spend("stops")
  /\ t.wanted /\ t.state # TaskStateDead
  /\ Write({[t EXCEPT !.wanted = FALSE]})

(* The agent reports that a task has ended, by itself or as it should.      *)
End(t) ==
  /\ Live(t)
  /\ IF t.wanted THEN Spend("exits") ELSE UNCHANGED left
  /\ Write({[t EXCEPT !.state = TaskStateDead]})

(* A task that is not wanted is deleted, whatever its state.                *)
Delete(t) ==
  /\ ~t.wanted /\ left.deletes > 0
  /\ db' = [db EXCEPT !.tasks = Drop(@, t.id)]
  /\ queue' = Append(queue, Event("gone", t))
  /\ left' = [left EXCEPT !.deletes = @ - 1,
                          !.ghosts = @ \/ t.state = TaskStatePending]

SetNode(node) ==
  /\ db' = [db EXCEPT !.nodes = Put(@, node.id, node)]
  /\ queue' = Append(queue, Event("node", node))

Node(n, room) == [id |-> n, state |-> "ready", label |-> TRUE, room |-> room]

Join(n) ==
  /\ left.joins > 0 /\ n \notin DOMAIN left.room
  /\ SetNode(Node(n, 1))
  /\ left' = [left EXCEPT !.joins = @ - 1, !.room = Put(@, n, 1)]
  /\ UNCHANGED updates

SetUpdated(node) ==
  /\ SetNode(node)
  /\ updates' = [updates EXCEPT !.nodes = @ \o Enforced({node})]

Flip(n) ==
  /\ Spend("flips")
  /\ \/ /\ db.nodes[n].state = "ready"
        /\ SetUpdated([db.nodes[n] EXCEPT !.state = "down"])
     \/ /\ db.nodes[n].state = "down"
        /\ SetUpdated([db.nodes[n] EXCEPT !.state = "ready"])

(* The availability becomes pause, or active again.                         *)
Halt(n) ==
  /\ Spend("halts")
  /\ \/ /\ db.nodes[n].state = "ready"
        /\ SetUpdated([db.nodes[n] EXCEPT !.state = "paused"])
     \/ /\ db.nodes[n].state = "paused"
        /\ SetUpdated([db.nodes[n] EXCEPT !.state = "ready"])

Relabel(n) ==
  /\ Spend("labels")
  /\ SetUpdated([db.nodes[n] EXCEPT !.label = ~@])

Resize(n, room) ==
  /\ Spend("resizes")
  /\ room # db.nodes[n].room
  /\ SetUpdated([db.nodes[n] EXCEPT !.room = room])

(* RemoveNode, by force of a node that is not down; it orphans the tasks of *)
(* the node that have not ended, those that still wait to be let in too.    *)
RemoveNode(n) ==
  LET orphaned == {[t EXCEPT !.state = TaskStateDead] :
                     t \in {t \in Range(db.tasks) : t.state # TaskStateDead /\ t.node = n}}
      new == [i \in {t.id : t \in orphaned} |->
                NextVersion(CHOOSE t \in orphaned : t.id = i)]
  IN  /\ Spend("removals")
      /\ db' = [db EXCEPT !.nodes = Drop(@, n), !.tasks = Overlay(new, @)]
      /\ queue' = queue \o SetToSeq({Event("task", t) : t \in Range(new)})
                        \o <<Event("nodegone", n)>>
      /\ UNCHANGED updates

ChangeService(x) ==
  /\ Spend("services")
  /\ \/ db.services[x] = "current" /\ db' = [db EXCEPT !.services[x] = "updated"]
     \/ db.services[x] # "removed" /\ db' = [db EXCEPT !.services[x] = "removed"]
  /\ queue' = queue

SetVolume(v, vol) ==
  LET vols == Put(db.vols, v, vol)
  IN  /\ db' = [db EXCEPT !.vols = vols]
      /\ queue' = Append(queue, Event("volume", [id |-> v, vol |-> vol]))
      /\ pendingVolumes' = pendingVolumes \cup Working(vols, {v})
      /\ updates' = [updates EXCEPT !.vols = @ \cup Drained(vols, {v})]

NewVolume == [avail |-> "active", info |-> FALSE, deleting |-> FALSE,
              pub |-> [n \in Nodes |-> "no"]]

CreateVolume(v) ==
  /\ SetVolume(v, NewVolume)
  /\ left' = [left EXCEPT !.new = @ \ {v}]

(* UpdateVolume: the availability is all that may be changed.               *)
UpdateVolume(v, avail) ==
  /\ Spend("pauses")
  /\ avail # db.vols[v].avail
  /\ SetVolume(v, [db.vols[v] EXCEPT !.avail = avail])

(* Mutated form of RemoveVolume: it does not matter who has the volume.     *)
RemoveVolumeInUse(v) ==
  /\ Spend("drops")
  /\ SetVolume(v, [db.vols[v] EXCEPT !.deleting = TRUE])

(* RemoveVolume, not by force. The volume may be active still.              *)
RemoveVolume(v) ==
  /\ Spend("drops")
  /\ \A n \in Nodes : db.vols[v].pub[n] = "no"
  /\ SetVolume(v, [db.vols[v] EXCEPT !.deleting = TRUE])

Others ==
  \/ /\ \/ /\ \/ \E t \in Range(db.tasks) :
                   Allocate(t) \/ Stop(t) \/ End(t) \/ Delete(t)
              \/ \E x \in Range(left.of) : ChangeService(x)
           /\ UNCHANGED updates
        \/ \E n \in Nodes : Join(n)
        \/ \E n \in DOMAIN db.nodes :
             \/ Flip(n) \/ Halt(n) \/ Relabel(n) \/ RemoveNode(n)
             \/ \E room \in 0..left.room[n] : Resize(n, room)
     /\ UNCHANGED pendingVolumes
  \/ \E v \in left.new : CreateVolume(v)
  \/ \E v \in DOMAIN db.vols \cap {Specs[x].volume : x \in Range(left.of)} :
       \/ \E avail \in {"active", "pause", "drain"} : UpdateVolume(v, avail)
       \/ RemoveVolume(v)

Stored ==
  /\ left \in Scenarios
  /\ db = [tasks |-> [i \in DOMAIN left.of |->
                        [id |-> i, svc |-> left.of[i], state |-> TaskStateNew,
                         wanted |-> TRUE, node |-> left.pre[i], err |-> NoErr,
                         vol |-> None, ver |-> 0]],
           nodes |-> [n \in DOMAIN left.room |-> Node(n, left.room[n])],
           vols |-> [v \in DOMAIN Volumes \ left.new |->
                       [NewVolume EXCEPT !.info = TRUE]],
           services |-> [x \in Services |-> "current"]]
  /\ queue = <<>> /\ pendingVolumes = {}
  /\ updates = [nodes |-> <<>>, vols |-> {}]
=============================================================================
