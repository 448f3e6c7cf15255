----------------------------- MODULE Scheduler -----------------------------
(* The scheduler (manager/scheduler): an event loop that keeps a picture of *)
(* tasks, nodes and volumes from the store's events, decides on the picture *)
(* which tasks go where, and then writes what it decided.                   *)
(*                                                                          *)
(*   s.all         allTasks: the copies of tasks it works with              *)
(*   s.unassigned  unassignedTasks                                          *)
(*   s.pre         pendingPreassignedTasks: the node of these is given      *)
(*   s.nodes       nodeSet                                                  *)
(*   s.vols        volumes                                                  *)
(*   run           where the loop is: what it has yet to plan, what it has  *)
(*                 decided, what the store refused, whether the timer that  *)
(*                 gathers commits runs, and tickRequired                   *)
(*                                                                          *)
(* The node chosen is any that passes the filters: the order of preference  *)
(* (decision tree, recent failures) is left out. Each                       *)
(* event ends its commit, so a tick may also fall between the events of     *)
(* one commit, as it may when the timer of an earlier commit runs.          *)
(* The CSI manager (VolumeManager), the enforcers (Enforcers) and the rest  *)
(* of the swarm (ClusterStore) work beside it.                              *)
EXTENDS Enforcers

VARIABLES
  s,       \* the scheduler's picture
  run      \* its event loop

vars == <<store, csi, enf, s, run>>

----------------------------------------------------------------------------
(* The picture follows the events                                           *)

Removed(nodes, T) ==
  [n \in DOMAIN nodes |-> removeTasks(nodes[n], {t \in T : t.node = n})]

(* deleteTask, for each task of T.                                          *)
deleteTasks(p, T) ==
  LET rest(f) == Restrict(f, DOMAIN f \ {t.id : t \in T})
  IN  [p EXCEPT !.all = rest(@), !.pre = rest(@),
                !.vols = releaseVolumes(@, T), !.nodes = Removed(@, T)]

deleteTask(p, t) == deleteTasks(p, {t})

(* Mutated form of counted: a deleted task leaves no room behind.           *)
countedNever(p, t) == FALSE

(* deleteTask's result: the node had the task, so there is room again.      *)
counted(p, t) == t.node \in DOMAIN p.nodes /\ t.id \in DOMAIN p.nodes[t.node].tasks

(* The node that t is on, if it is known, counts it.                        *)
Added(nodes, t) ==
  IF t.node \in DOMAIN nodes THEN [nodes EXCEPT ![t.node] = addTask(@, t)] ELSE nodes

(* updateTask returns the new picture and whether it asks for a tick. New   *)
(* tasks are not pending yet, so createTask ignores them.                   *)
updateTask(p, t) ==
  LET known == t.id \in DOMAIN p.all
      clean == IF known THEN deleteTask(p, p.all[t.id]) ELSE p
      kept == [clean EXCEPT !.all = Put(@, t.id, t)]
  IN  CASE t.state = TaskStateNew -> [s |-> p, tick |-> FALSE]
        [] t.state = TaskStateDead -> [s |-> clean, tick |-> known]
        [] t.state = TaskStatePending /\ t.node = None ->
             [s |-> [kept EXCEPT !.unassigned = Put(@, t.id, t)], tick |-> TRUE]
        [] t.state = TaskStatePending /\ t.node # None ->
             [s |-> [kept EXCEPT !.pre = Put(@, t.id, t)], tick |-> FALSE]
        [] OTHER ->
             [s |-> [p EXCEPT !.all = Put(@, t.id, t), !.nodes = Added(@, t)],
              tick |-> FALSE]

createOrUpdateNode(p, node) ==
  LET old == p.nodes[node.id]
      new == IF node.id \in DOMAIN p.nodes
             THEN [old EXCEPT !.node = node, !.avail = node.room - reserved(old.tasks)]
             ELSE newNodeInfo(node, Empty)
  IN  [p EXCEPT !.nodes = Put(@, node.id, new)]

(* addOrUpdateVolume. Of a volume the scheduler knows it sets the new       *)
(* object in a copy of the entry, which is then dropped.                    *)
addOrUpdateVolume(p, v, vol) ==
  IF v \in DOMAIN p.vols \/ ~vol.info THEN p
  ELSE [p EXCEPT !.vols = Put(@, v, [active |-> vol.avail = "active", users |-> Empty])]

handle(p, e) ==
  CASE e.type = "task"     -> updateTask(p, e.obj)
    [] e.type = "gone"     -> [s |-> deleteTask(p, e.obj),
                               tick |-> counted(p, e.obj)]
    [] e.type = "node"     -> [s |-> createOrUpdateNode(p, e.obj), tick |-> TRUE]
    [] e.type = "nodegone" -> [s |-> [p EXCEPT !.nodes = Drop(@, e.obj)],
                               tick |-> FALSE]
    [] e.type = "volume"   -> [s |-> addOrUpdateVolume(p, e.obj.id, e.obj.vol),
                               tick |-> e.obj.vol.info]

(* Mutated form of Handle: no commit starts the timer.                      *)
HandleOnly ==
  /\ run.phase = "idle" /\ queue # <<>>
  /\ LET r == handle(s, Head(queue))
     IN  s' = r.s /\ run' = [run EXCEPT !.tick = @ \/ r.tick]
  /\ queue' = Tail(queue)
  /\ UNCHANGED <<db, pendingVolumes, updates, left, csi, enf>>

(* An event and the commit behind it. Commits of objects the scheduler does *)
(* not watch start the timer too, which is left out: all that could do is   *)
(* try preassigned tasks again.                                             *)
Handle ==
  /\ run.phase = "idle" /\ queue # <<>>
  /\ LET r == handle(s, Head(queue))
     IN  /\ s' = r.s
         /\ run' = [run EXCEPT !.timer = TRUE, !.tick = @ \/ r.tick]
  /\ queue' = Tail(queue)
  /\ UNCHANGED <<db, pendingVolumes, updates, left, csi, enf>>

initVolumes(d, T) ==
  [v \in {v \in DOMAIN d.vols : d.vols[v].info} |->
     [active |-> d.vols[v].avail = "active",
      users |-> [i \in {t.id : t \in {t \in T : t.vol = v}} |-> d.tasks[i].node]]]

(* setupTasksList: the picture of a new leader.                             *)
setupTasksList(d) ==
  LET seen == {t \in Range(d.tasks) :
                 t.state \in {TaskStatePending, TaskStateAssigned}
                 /\ (t.state = TaskStatePending => t.wanted)}
      todo(b) == {t \in seen : t.state = TaskStatePending /\ (t.node = None) = b}
      byId(T) == [i \in {t.id : t \in T} |-> d.tasks[i]]
  IN  [all |-> byId(seen), unassigned |-> byId(todo(TRUE)),
       pre |-> byId(todo(FALSE)),
       nodes |-> [n \in DOMAIN d.nodes |-> newNodeInfo(d.nodes[n], LiveAt(byId(seen), n))],
       vols |-> initVolumes(d, {t \in seen : Live(t)})]

----------------------------------------------------------------------------
(* A pass of the loop: plan, write, undo what was refused                   *)

Idle == [phase |-> "idle", job |-> None, todo |-> Empty, dec |-> Empty,
         ok |-> {}, failed |-> {}, timer |-> FALSE, tick |-> FALSE]

Planning(r, job, todo) ==
  [r EXCEPT !.phase = "plan", !.job = job, !.todo = todo, !.dec = Empty,
            !.ok = {}, !.failed = {}]

(* tick empties unassignedTasks first.                                      *)
StartTick(p, r) ==
  /\ s' = [p EXCEPT !.unassigned = Empty]
  /\ run' = Planning(r, "tick", p.unassigned)

(* The timer has gathered commits for 50 ms, or for a second at most. When  *)
(* the scheduler is prompt, the events of its own writes, which are in the  *)
(* queue when a pass ends, are handled before the next pass begins.         *)
Schedule ==
  /\ run.phase = "idle" /\ run.timer
  /\ left.prompt => \A i \in DOMAIN queue : ~queue[i].own
  /\ LET r == [run EXCEPT !.timer = FALSE]
     IN  \/ /\ s.pre # Empty
            /\ run' = Planning(r, "pre", s.pre) /\ s' = s
         \/ s.pre = Empty /\ run.tick /\ StartTick(s, r)
         \/ s.pre = Empty /\ ~run.tick /\ run' = r /\ s' = s
  /\ UNCHANGED <<store, csi, enf>>

(* A decision replaces the copy the scheduler works with.                   *)
Decide(p, old, new) ==
  /\ s' = [p EXCEPT !.all = Put(@, new.id, new)]
  /\ run' = [run EXCEPT !.todo = Drop(@, old.id),
                        !.dec = Put(@, old.id, [old |-> old, new |-> new])]

Assigned(t, n) ==
  [t EXCEPT !.state = TaskStateAssigned, !.node = n, !.err = NoErr,
            !.vol = Asked(t).volume]

(* Mutated form of Claim: the node does not count the task yet.             *)
ClaimLater(p, t) == p

Claim(p, t) == [p EXCEPT !.nodes[t.node] = addTask(@, t)]

(* taskFitNode: the volume of a preassigned task is not reserved.           *)
taskFitNode(t) ==
  LET ni == s.nodes[t.node]
      new == Assigned(t, t.node)
  IN  CASE t.node \notin DOMAIN s.nodes ->
             /\ run' = [run EXCEPT !.todo = Drop(@, t.id)]
             /\ s' = s
        [] t.node \in DOMAIN s.nodes /\ ~Process(ni, s.vols, t) ->
             Decide(s, t, [t EXCEPT !.err = Explain(t.node :> ni, s.vols, t)])
        [] OTHER -> Decide(Claim(s, new), t, new)

Reserve(p, t) == [p EXCEPT !.vols = reserveVolume(@, t)]

(* scheduleNTasksOnNodes, one task at a time                                *)
Place(t) ==
  \E n \in DOMAIN s.nodes :
    /\ Process(s.nodes[n], s.vols, t)
    /\ LET new == Assigned(t, n) IN Decide(Claim(Reserve(s, new), new), t, new)

Partial == [f \in Filters |-> -1]

(* noSuitableNode. The filters count failures since a node last passed, so  *)
(* for a task left over from its group the explanation may be incomplete,   *)
(* when there are several nodes.                                            *)
noSuitableNode(t) ==
  LET placed == /\ Cardinality(DOMAIN s.nodes) > 1
                /\ \E i \in DOMAIN run.dec : run.dec[i].old.svc = t.svc
                                           /\ Live(run.dec[i].new)
      dead == [t EXCEPT !.state = TaskStateDead, !.err = NoErr]
  IN  /\ \A n \in DOMAIN s.nodes : ~Process(s.nodes[n], s.vols, t)
      /\ \/ /\ db.services[t.svc] = "removed"
            /\ run' = [run EXCEPT !.todo = Drop(@, t.id)]
            /\ s' = s
         \/ /\ db.services[t.svc] = "updated"
            /\ Decide(s, t, IF t.wanted THEN t ELSE dead)
         \/ /\ db.services[t.svc] = "current"
            /\ \E err \in {Explain(s.nodes, s.vols, t)}
                          \cup (IF placed THEN {Partial} ELSE {}) :
                 LET new == [t EXCEPT !.err = err]
                 IN  Decide([s EXCEPT !.unassigned = Put(@, t.id, new)], t, new)

Plan ==
  /\ run.phase = "plan"
  /\ \E i \in DOMAIN run.todo :
       LET t == run.todo[i]
       IN  \/ run.job = "pre" /\ taskFitNode(t)
           \/ run.job = "tick" /\ (Place(t) \/ noSuitableNode(t))
  /\ UNCHANGED <<store, csi, enf>>

(* applySchedulingDecisions. That a task be ASSIGNED already when the       *)
(* versions agree cannot be, so the check of the node's version, which is   *)
(* made for such tasks only, never decides anything.                        *)
Missing == DOMAIN run.dec \ DOMAIN db.tasks

Unchanged ==
  {i \in DOMAIN run.dec \ Missing :
     db.tasks[i].state = run.dec[i].new.state /\ db.tasks[i].err = run.dec[i].new.err}

Usable(t) ==
  hasVolume(t) => t.vol \in DOMAIN db.vols /\ db.vols[t.vol].avail = "active"

(* Mutated form of Refused: whatever was written since is overwritten.      *)
RefusedForVolume ==
  {i \in DOMAIN run.dec \ (Missing \cup Unchanged) :
     ~Usable(run.dec[i].new)}

Refused ==
  {i \in DOMAIN run.dec \ (Missing \cup Unchanged) :
     \/ ~Usable(run.dec[i].new)
     \/ db.tasks[i].ver # run.dec[i].old.ver}

Published(d, T) ==
  [v \in DOMAIN d.vols |->
     [d.vols[v] EXCEPT !.pub =
        [n \in Nodes |-> IF @[n] = "no" /\ \E t \in T : t.vol = v /\ t.node = n
                         THEN "pending" ELSE @[n]]]]

(* The written object is the scheduler's own, which gets the new version.   *)
(* The batch as a whole fails when the leadership is lost; the scheduler is *)
(* stopped then and its picture discarded (Leader).                         *)
Apply ==
  /\ run.phase = "plan" /\ run.todo = Empty
  /\ LET ok == DOMAIN run.dec \ (Missing \cup Unchanged \cup Refused)
         new == [i \in ok |-> NextVersion(run.dec[i].new)]
         vols == Published(db, Range(new))
         changed == {v \in DOMAIN vols : vols[v] # db.vols[v]}
         stale == \E t \in Range(new) :
                    /\ Live(t) /\ t.node \in DOMAIN db.nodes
                    /\ Lacks(db.nodes[t.node])
                    /\ db.nodes[t.node] # s.nodes[t.node].node
         bare == deleteTasks(s, {run.dec[i].new : i \in Missing})
     IN  /\ db' = [db EXCEPT !.tasks = Overlay(new, @), !.vols = vols]
         /\ s' = [bare EXCEPT
                    !.all = Overlay(new, @),
                    !.unassigned = Overlay(Restrict(new, ok \cap DOMAIN @), @)]
         /\ run' = [run EXCEPT !.phase = "free", !.ok = ok, !.failed = Refused]
         /\ pendingVolumes' = pendingVolumes \cup Working(vols, changed)
         /\ queue' = queue \o SetToSeq({Own("task", t) : t \in Range(new)})
                           \o SetToSeq({Own("volume", [id |-> v, vol |-> vols[v]]) : v \in changed})
         /\ left' = [left EXCEPT !.stale = @ \/ stale]
  /\ UNCHANGED <<updates, csi, enf>>

(* freeVolumes: what was PUBLISHED on a node where no task uses it.         *)
Freed(d, vs) ==
  [v \in DOMAIN d.vols |->
     [d.vols[v] EXCEPT !.pub =
        [n \in Nodes |-> IF @[n] = "published" /\ v \in DOMAIN vs /\ ~inUse(vs, v, n)
                         THEN "nodeUnpublish" ELSE @[n]]]]

(* Mutated form of GiveBack: what was claimed is not given back.            *)
GiveBackNothing(p, old, new) == [p EXCEPT !.all = Overlay(old, @)]

(* The decisions to make the tasks new of those in old were refused.        *)
GiveBack(p, old, new) ==
  [p EXCEPT !.all = Overlay(old, @), !.nodes = Removed(@, new),
            !.vols = releaseVolumes(@, new)]

(* Mutated form of Ticked: tasks that found no node are tried again now.    *)
TickedAgain(r) ==
  IF s.unassigned # Empty THEN [r EXCEPT !.timer = TRUE, !.tick = TRUE]
  ELSE [r EXCEPT !.tick = FALSE]

(* Tasks that found no node wait for an event that asks for another tick.   *)
Ticked(r) == [r EXCEPT !.tick = FALSE]

(* The volumes are freed as applySchedulingDecisions returns; then what was *)
(* refused is undone and, by tick, queued again.                            *)
Finish ==
  /\ run.phase = "free"
  /\ LET vols == Freed(db, s.vols)
         changed == {v \in DOMAIN vols : vols[v] # db.vols[v]}
         again == [i \in run.failed |-> run.dec[i].old]
         undone == GiveBack(s, again, {run.dec[i].new : i \in run.failed})
         done == {i \in run.ok : Live(run.dec[i].new)}
         r == [Idle EXCEPT !.timer = run.timer, !.tick = run.tick]
     IN  /\ db' = [db EXCEPT !.vols = vols]
         /\ pendingVolumes' = pendingVolumes \cup Working(vols, changed)
         /\ updates' = [updates EXCEPT !.vols = @ \cup Drained(vols, changed)]
         /\ queue' = queue \o SetToSeq({Own("volume", [id |-> v, vol |-> vols[v]]) : v \in changed})
         /\ \/ /\ run.job = "tick"
               /\ s' = [undone EXCEPT !.unassigned = Overlay(again, @)]
               /\ run' = Ticked(r)
            \/ /\ run.job = "pre"
               /\ LET p == [undone EXCEPT !.pre = Restrict(@, DOMAIN @ \ done)]
                  IN  IF run.tick THEN StartTick(p, r) ELSE s' = p /\ run' = r
  /\ UNCHANGED <<left, csi, enf>>

----------------------------------------------------------------------------
(* Run: a new leader plans at once, preassigned tasks first.                *)
Begun(p) == Planning([Idle EXCEPT !.tick = TRUE], "pre", p.pre)

Leader ==
  /\ Spend("leaders")
  /\ s' = setupTasksList(db)
  /\ run' = Begun(s')
  /\ queue' = <<>>
  /\ TakeOver /\ EnforceAnew
  /\ UNCHANGED db

Init ==
  /\ Stored
  /\ csi = NewManager /\ enf = NoTasks
  /\ s = setupTasksList(db)
  /\ run = Begun(s)

Steps == Schedule \/ Plan \/ Apply \/ Finish \/ Handle

(* What the leader and the agents do of themselves.                         *)
Progress ==
  \/ (Manage \/ Agents) /\ UNCHANGED <<enf, s, run>>
  \/ Enforce /\ UNCHANGED <<csi, s, run>>
  \/ Steps

Next ==
  \/ Progress
  \/ Others /\ UNCHANGED <<csi, enf, s, run>>
  \/ Leader

Spec == Init /\ [][Next]_vars /\ WF_vars(Progress)

----------------------------------------------------------------------------
(* Properties                                                               *)

TypeOK ==
  /\ DOMAIN db.tasks \subseteq Tasks /\ DOMAIN db.nodes \subseteq Nodes
  /\ \A t \in Range(db.tasks) :
       /\ t.state \in TaskStateNew..TaskStateDead /\ t.ver \in Nat
       /\ t.node \in Nodes \cup {None} /\ t.wanted \in BOOLEAN
       /\ Live(t) => t.node # None
  /\ \A n \in DOMAIN s.nodes :
       /\ DOMAIN s.nodes[n].tasks \subseteq Tasks
       /\ \A x \in Services : s.nodes[n].active[x] \in 0..Cardinality(Tasks)
       /\ s.nodes[n].avail <= s.nodes[n].node.room
  /\ DOMAIN s.all \cup DOMAIN s.unassigned \cup DOMAIN s.pre \subseteq Tasks
  /\ run.phase \in {"idle", "plan", "free"}
  /\ \A vol \in Range(db.vols) : vol.pub \in [Nodes -> PublishStates]

LiveOn(n) == Range(LiveAt(db.tasks, n))
Wanted(t, n) == Live(t) /\ t.node = n /\ t.wanted
Placed(t) == left.pre[t.id] = None
Quiet == queue = <<>> /\ run.phase = "idle"
AtRest == Quiet /\ ~run.timer

(* However decisions, refusals and ends of tasks interleave, what the tasks *)
(* assigned to a node reserve is there, no host port is used twice and no   *)
(* node has more wanted tasks of a service than its MaxReplicas             *)
(* (filter.go), unless the node has lost resources since.                   *)
NodesGuarded ==
  \A n \in DOMAIN db.nodes :
    /\ db.nodes[n].room = left.room[n] =>
         reserved(LiveAt(db.tasks, n)) <= db.nodes[n].room
    /\ \A t, u \in LiveOn(n) : t # u => Ports(t) \cap Ports(u) = {}
    /\ \A x \in Services :
         Specs[x].max > 0 =>
           Cardinality({t \in LiveOn(n) : t.svc = x /\ t.wanted}) <= Specs[x].max

(* What a node loses costs it the tasks that need it: when the constraint   *)
(* enforcer has dealt with every update, the wanted tasks of a node fit it, *)
(* however nodes, ends of tasks and decisions interleaved with its looks.   *)
(* Left out is what happens once a task was assigned from a picture older   *)
(* than the node: applySchedulingDecisions compares the node's version only *)
(* when the task is ASSIGNED already, and the enforcer may have looked.     *)
NodesObeyed ==
  updates.nodes = <<>> /\ enf.unfit = {} /\ ~left.stale =>
    \A n \in DOMAIN db.nodes :
      LET wanted == {i \in DOMAIN db.tasks : Wanted(db.tasks[i], n)}
      IN  \/ db.nodes[n].state = "paused"
          \/ /\ reserved(Restrict(db.tasks, wanted)) <= db.nodes[n].room
             /\ \A i \in wanted : Asked(db.tasks[i]).label => db.nodes[n].label

(* A volume that is not to be shared has one user, and one for a single     *)
(* node its users there (checkVolume), counting the tasks the scheduler     *)
(* placed itself: what preassigned tasks use is reserved by no one. A       *)
(* volume being drained has no wanted user when the volume enforcer is      *)
(* done: either the decision to use it is refused or the enforcer sees it.  *)
VolumesGuarded ==
  \A v \in DOMAIN Volumes :
    LET users == {t \in Range(db.tasks) : Live(t) /\ t.vol = v /\ Placed(t)}
    IN  /\ Volumes[v] = "none" => Cardinality(users) <= 1
        /\ Volumes[v] = "node" => Cardinality({t.node : t \in users}) <= 1
        /\ Drained(db.vols, {v}) # {} /\ v \notin updates.vols /\ enf.users = {} =>
             \A t \in Range(db.tasks) : ~(Live(t) /\ t.wanted /\ t.vol = v)

(* Decisions made on a picture that is behind the store keep every limit,   *)
(* and limits that change are kept again.                                   *)
WithinLimits == NodesGuarded /\ NodesObeyed /\ VolumesGuarded

(* When it has handled every event, the scheduler has the picture of nodes  *)
(* and volumes that a new leader would read from the store, after whatever  *)
(* refused writes, deletions and ends of tasks it went through. Until then  *)
(* its counts stay in their ranges (TypeOK).                                *)
PictureFollows ==
  /\ TypeOK
  /\ Quiet =>
       LET fresh == setupTasksList(db)
           placed(f) == RestrictDomain(f, LAMBDA i : left.pre[i] = None)
       IN  /\ s.nodes = fresh.nodes
           /\ DOMAIN fresh.vols \subseteq DOMAIN s.vols
           /\ \A v \in DOMAIN fresh.vols :
                placed(s.vols[v].users) = placed(fresh.vols[v].users)

(* A task waits only while no node suits it: design/scheduler.md has it     *)
(* "stay in the Pending state until it becomes possible to schedule it".    *)
(* Left out are tasks of an old revision, tasks that wait for the place of  *)
(* a task of their own service that is still to end, a volume whose         *)
(* availability has changed since the scheduler first saw it, and what      *)
(* happens once a pending task was deleted: it stays among the unassigned   *)
(* ones and may be given the place another task could have had.             *)
NoneWaitsInVain ==
  AtRest /\ ~left.ghosts =>
    LET fresh == setupTasksList(db)
    IN  \A t \in Range(db.tasks) : \A n \in DOMAIN db.nodes :
          \/ t.state # TaskStatePending \/ ~t.wanted \/ t.node \notin {None, n}
          \/ db.services[t.svc] # "current"
          \/ Asked(t).max > 0 /\ \E u \in LiveOn(n) : u.svc = t.svc /\ ~u.wanted
          \/ \E v \in DOMAIN fresh.vols \cap {Asked(t).volume} :
               s.vols[v].active # (db.vols[v].avail = "active")
          \/ ~Process(fresh.nodes[n], fresh.vols, t)

(* A decision made on an old copy never undoes what others have written     *)
(* since: tasks move forward, stay unwanted once they are, and are assigned *)
(* once ("this decision cannot be revisited", design/scheduler.md).         *)
DecisionsFinal ==
  [][\A i \in DOMAIN db.tasks \cap DOMAIN db'.tasks :
       /\ db'.tasks[i].state >= db.tasks[i].state
       /\ db'.tasks[i].wanted => db.tasks[i].wanted
       /\ db.tasks[i].node # None => db'.tasks[i].node = db.tasks[i].node]_vars

(* freeVolumes takes a volume from a node only when no task that was placed *)
(* there uses it, after a change of the leader as before.                   *)
UsedStaysPublished ==
  [][\A v \in DOMAIN db.vols \cap DOMAIN db'.vols, n \in Nodes :
       db.vols[v].pub[n] = "published" /\ db'.vols[v].pub[n] = "nodeUnpublish" =>
         \A t \in LiveOn(n) : Placed(t) => t.vol # v]_vars

(* The statuses are "sufficient to know which Nodes it may have been        *)
(* published to" (types.proto): what the plugin has published has a status, *)
(* and what is PUBLISHED is published, although handleVolume writes         *)
(* statuses that may be out of date, fails half way and is cut off when the *)
(* leader changes.                                                          *)
StatusesTrue ==
  /\ \A v \in DOMAIN Volumes : \A n \in csi.attached[v] :
       v \in DOMAIN db.vols /\ db.vols[v].pub[n] # "no"
  /\ \A v \in DOMAIN db.vols : \A n \in Nodes :
       db.vols[v].pub[n] \in {"published", "nodeUnpublish"} => n \in csi.attached[v]

(* No volume is deleted while a node has it, whatever the scheduler places  *)
(* between RemoveVolume's look at the statuses and the call of the plugin;  *)
(* nor while one is being published ("volume should never be deleted with   *)
(* pending publishes", manager.go).                                         *)
DeletedUnattached ==
  /\ \A v \in csi.gone : csi.attached[v] = {}
  /\ csi.job.kind = "publish" => csi.job.v \in DOMAIN db.vols

(* Store and plugin agree on which volumes there are and where.             *)
AttachedRecorded == StatusesTrue /\ DeletedUnattached

(* A task is kept in the queue for volume v, which is no longer active: the *)
(* scheduler, with its old copy, places it at every tick and is refused.    *)
(* freeVolumes comes before the refused task's reservation is given back,   *)
(* so what the tick reserved it does not free.                              *)
Coveted(v) ==
  /\ v \in DOMAIN db.vols /\ db.vols[v].avail # "active"
  /\ \E i \in DOMAIN s.unassigned : Asked(s.unassigned[i]).volume = v

(* A volume no task uses on a node is taken from there in the end, unless   *)
(* the node does not answer or the volume is coveted: no end of a task,     *)
(* publication or report is missed by the scheduler, the manager and the    *)
(* dispatcher together.                                                     *)
Detached ==
  <>[](\A v \in DOMAIN Volumes : \A n \in csi.attached[v] :
         \/ n \notin DOMAIN db.nodes \/ db.nodes[n].state = "down"
         \/ \E t \in LiveOn(n) : t.vol = v
         \/ Coveted(v))

(* The scheduler's own writes, which it sees as events, do not keep it      *)
(* busy: when nothing else changes it comes to rest.                        *)
Settles == <>[]AtRest
=============================================================================
