----------------------------- MODULE Enforcers -----------------------------
(* The constraint enforcer and the volume enforcer                          *)
(* (manager/orchestrator/constraintenforcer, volumeenforcer): two loops of  *)
(* the leader that reject the tasks a node or a volume no longer suits.     *)
(* Each looks at the tasks when an update reaches it and writes what it     *)
(* decided in a transaction for each task.                                  *)
(*                                                                          *)
(*   enf.unfit   tasks the constraint enforcer has yet to reject            *)
(*   enf.users   tasks the volume enforcer has yet to reject                *)
(*                                                                          *)
(* The constraints of a service are those of its tasks: updates that change *)
(* only them are left out, and so are generic resources, where a missing    *)
(* one ends the look at the tasks that follow.                              *)
EXTENDS VolumeManager

VARIABLE enf

NoTasks == [unfit |-> {}, users |-> {}]

Running(t) == t.wanted /\ t.state # TaskStateDead

(* Going through the tasks f of a node, each one that suits it and fits in  *)
(* what those kept before it leave of its room is kept. The order may be    *)
(* any, so keep may be any set that leaves no room for another such task.   *)
Keeps(node, f, keep) ==
  LET room == node.room - reserved(Restrict(f, keep))
  IN  /\ room >= 0
      /\ \A i \in DOMAIN f :
           i \in keep <=> /\ Asked(f[i]).label => node.label
                          /\ i \notin keep => Asked(f[i]).need <= room

(* The node is the one of the update.                                       *)
rejectNoncompliantTasks ==
  /\ updates.nodes # <<>> /\ enf.unfit = {}
  /\ LET node == Head(updates.nodes)
         tasks == Restrict(db.tasks, {i \in DOMAIN db.tasks :
                                         Running(db.tasks[i]) /\ db.tasks[i].node = node.id})
     IN  \E keep \in SUBSET DOMAIN tasks :
           /\ Keeps(node, tasks, keep)
           /\ enf' = [enf EXCEPT !.unfit = DOMAIN tasks \ keep]
  /\ updates' = [updates EXCEPT !.nodes = Tail(@)]
  /\ UNCHANGED <<db, queue, pendingVolumes, left>>

Rejected(i) == Write({[db.tasks[i] EXCEPT !.state = TaskStateDead]})

(* The desired state is looked at again, the observed state is not: a task  *)
(* that has ended since is REJECTED all the same.                           *)
RejectUnfit(i) ==
  /\ IF i \in DOMAIN db.tasks /\ db.tasks[i].wanted
     THEN Rejected(i) ELSE UNCHANGED <<db, queue>>
  /\ enf' = [enf EXCEPT !.unfit = @ \ {i}]
  /\ UNCHANGED <<pendingVolumes, updates, left>>

rejectVolumeUsers(v) ==
  /\ enf.users = {}
  /\ enf' = [enf EXCEPT !.users = {t.id : t \in {t \in Range(db.tasks) :
                                                   Running(t) /\ t.vol = v}}]
  /\ updates' = [updates EXCEPT !.vols = @ \ {v}]
  /\ UNCHANGED <<db, queue, pendingVolumes, left>>

RejectUser(i) ==
  /\ IF i \in DOMAIN db.tasks /\ Running(db.tasks[i])
     THEN Rejected(i) ELSE UNCHANGED <<db, queue>>
  /\ enf' = [enf EXCEPT !.users = @ \ {i}]
  /\ UNCHANGED <<pendingVolumes, updates, left>>

Enforce ==
  \/ rejectNoncompliantTasks
  \/ \E i \in enf.unfit : RejectUnfit(i)
  \/ \E v \in updates.vols : rejectVolumeUsers(v)
  \/ \E i \in enf.users : RejectUser(i)

(* The enforcers of a new leader look at every node and volume.             *)
EnforceAnew ==
  /\ enf' = NoTasks
  /\ updates' = [nodes |-> Enforced(Range(db.nodes)),
                 vols |-> Drained(db.vols, DOMAIN db.vols)]
=============================================================================
