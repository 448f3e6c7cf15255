--------------------------- MODULE VolumeManager ---------------------------
(* The CSI manager (manager/csi): it creates volumes, publishes them to     *)
(* nodes, takes them back and deletes them with calls of a plugin, one      *)
(* volume at a time, and writes to the store what came of it. The agent and *)
(* the dispatcher take part: a node lets go of a volume before it is taken. *)
(*                                                                          *)
(*   csi.job       what handleVolume has read and done so far               *)
(*   csi.told      reports of agents that a node has let go of a volume,    *)
(*                 the ones in unpublishedVolumes of the dispatcher too     *)
(*   csi.attached  at the plugin: the nodes a volume is published to        *)
(*   csi.gone      at the plugin: volumes deleted                           *)
EXTENDS ClusterStore

VARIABLE csi

NoJob == [v |-> None, kind |-> None, pub |-> Empty, failed |-> {}]

NewManager == [job |-> NoJob, told |-> {},
               attached |-> [v \in DOMAIN Volumes |-> {}], gone |-> {}]

(* handleVolume looks at PendingDelete before it looks at any node.         *)
KindOf(vol) ==
  CASE ~vol.info                 -> "create"
    [] vol.info /\ vol.deleting  -> "delete"
    [] vol.info /\ ~vol.deleting -> "publish"

(* The volume is read, and the calls that follow take their time.           *)
handleVolume(v) ==
  /\ csi.job = NoJob
  /\ pendingVolumes' = pendingVolumes \ {v}
  /\ IF v \in DOMAIN db.vols /\ HasWork(db.vols[v])
     THEN csi' = [csi EXCEPT !.job = [v |-> v, kind |-> KindOf(db.vols[v]),
                                      pub |-> db.vols[v].pub, failed |-> {}]]
     ELSE csi' = csi
  /\ UNCHANGED <<db, queue, updates, left>>

Over == [csi EXCEPT !.job = NoJob]

(* processVolume: what failed is tried again later.                         *)
Retry ==
  /\ Spend("fails")
  /\ csi' = Over
  /\ pendingVolumes' = pendingVolumes \cup {csi.job.v}
  /\ UNCHANGED <<db, queue, updates>>

createVolume ==
  LET v == csi.job.v
  IN  /\ csi.job.kind = "create"
      /\ \/ /\ SetVolume(v, [db.vols[v] EXCEPT !.info = TRUE])
            /\ csi' = Over
            /\ UNCHANGED left
         \/ Retry

deleteVolume ==
  LET v == csi.job.v
  IN  \/ /\ csi.job.kind = "delete"
         /\ \/ /\ csi' = [csi EXCEPT !.job.kind = "deleted", !.gone = @ \cup {v}]
               /\ UNCHANGED store
            \/ Retry
      \/ /\ csi.job.kind = "deleted"
         /\ db' = [db EXCEPT !.vols = Drop(@, v)]
         /\ csi' = Over
         /\ UNCHANGED <<queue, pendingVolumes, updates, left>>

----------------------------------------------------------------------------
ToCall ==
  {n \in Nodes : csi.job.kind = "publish" /\ csi.job.pub[n] \in {"pending", "unpublish"}}
    \ csi.job.failed

Called(j, n, status) == [j EXCEPT !.pub[n] = status]

Unpublished(n) ==
  [csi EXCEPT !.attached[csi.job.v] = @ \ {n}, !.job = Called(@, n, "no")]

(* A call for one node; that it failed is noted in the status.              *)
CallPlugin(n) ==
  /\ \/ /\ csi.job.pub[n] = "pending"
        /\ csi' = [csi EXCEPT !.attached[csi.job.v] = @ \cup {n},
                              !.job = Called(@, n, "published")]
        /\ UNCHANGED left
     \/ /\ csi.job.pub[n] = "unpublish"
        /\ csi' = Unpublished(n)
        /\ UNCHANGED left
     \/ /\ csi' = [csi EXCEPT !.job.failed = @ \cup {n}]
        /\ Spend("fails")
  /\ UNCHANGED <<db, queue, pendingVolumes, updates>>

(* All the publish statuses are replaced by the ones that were read, with   *)
(* what the calls changed: a status written meanwhile is lost.              *)
WriteBack ==
  LET v == csi.job.v
  IN  /\ csi.job.kind = "publish" /\ ToCall = {}
      /\ SetVolume(v, [db.vols[v] EXCEPT !.pub = csi.job.pub])
      /\ csi' = Over
      /\ UNCHANGED left

Manage ==
  \/ \E v \in pendingVolumes : handleVolume(v)
  \/ createVolume \/ deleteVolume \/ WriteBack
  \/ \E n \in ToCall : CallPlugin(n)

----------------------------------------------------------------------------
(* The agent is told to remove the volume, lets go of it and reports it.    *)
AgentUnpublishes(v, n) ==
  /\ db.vols[v].pub[n] = "nodeUnpublish" /\ <<v, n>> \notin csi.told
  /\ n \in DOMAIN db.nodes /\ db.nodes[n].state # "down"
  /\ csi' = [csi EXCEPT !.told = @ \cup {<<v, n>>}]
  /\ UNCHANGED store

(* processUpdates writes the reports, whatever the status is by now. A node *)
(* whose session is replaced is told again, and may report again later.     *)
processUpdates(v, n) ==
  /\ v \in DOMAIN db.vols
  /\ SetVolume(v, [db.vols[v] EXCEPT !.pub[n] = IF @ = "no" THEN @ ELSE "unpublish"])
  /\ \/ csi' = [csi EXCEPT !.told = @ \ {<<v, n>>}] /\ UNCHANGED left
     \/ Spend("repeats") /\ csi' = csi

Agents ==
  \/ \E v \in DOMAIN db.vols, n \in Nodes : AgentUnpublishes(v, n)
  \/ \E r \in csi.told : processUpdates(r[1], r[2])

(* The manager of a new leader looks at every volume; reports that were not *)
(* written are lost, and the agents are told again.                         *)
TakeOver ==
  /\ csi' = [csi EXCEPT !.job = NoJob, !.told = {}]
  /\ pendingVolumes' = Working(db.vols, DOMAIN db.vols)
=============================================================================
