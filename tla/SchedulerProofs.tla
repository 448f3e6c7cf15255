--------------------------- MODULE SchedulerProofs ---------------------------
(***************************************************************************)
(* Proofs about Scheduler, for any nodes, volumes, tasks and scenarios.    *)
(* Store and plugin agree on which volumes there are and where             *)
(* (AttachedRecorded): four components write the publish statuses of a     *)
(* volume, and the CSI manager writes all of them from what it read before *)
(* its calls.  And decisions are final (DecisionsFinal): they rest on      *)
(* copies of tasks, and only versions tell whether a copy is still true.   *)
(***************************************************************************)
EXTENDS Scheduler, FiniteSetTheorems, TLAPS

-----------------------------------------------------------------------------
(* Types                                                                    *)

Vol ==
  [avail : {"active", "pause", "drain"}, info : BOOLEAN, deleting : BOOLEAN,
   pub : [Nodes -> PublishStates]]

Job ==
  [v : DOMAIN Volumes, kind : {"create", "delete", "deleted", "publish"},
   pub : [Nodes -> PublishStates], failed : SUBSET Nodes]

Csi ==
  [job : Job \cup {NoJob}, told : SUBSET ((DOMAIN Volumes) \X Nodes),
   attached : [DOMAIN Volumes -> SUBSET Nodes], gone : SUBSET DOMAIN Volumes]

IsDb(d) ==
  d = [tasks |-> d.tasks, nodes |-> d.nodes, vols |-> d.vols, services |-> d.services]

IsVols(f) ==
  DOMAIN f \subseteq DOMAIN Volumes /\ \A v \in DOMAIN f : f[v] \in Vol

VolumeTypes ==
  /\ IsDb(db) /\ IsVols(db.vols) /\ csi \in Csi
  /\ "new" \in DOMAIN left /\ left.new \subseteq DOMAIN Volumes

-----------------------------------------------------------------------------
(* The invariant                                                            *)

Deleting == \A v \in DOMAIN db.vols : db.vols[v].deleting => csi.attached[v] = {}

(* What the plugin has deleted is in the store at most to be deleted.       *)
Gone ==
  \A v \in csi.gone :
    csi.attached[v] = {} /\ (v \in DOMAIN db.vols => db.vols[v].deleting)

Fresh == \A v \in left.new : v \notin DOMAIN db.vols /\ v \notin csi.gone

(* While handleVolume works with what it read, the status of node n in the  *)
(* store is still one from which its calls and its write are right.         *)
JobFollows(n) ==
  LET read == csi.job.pub[n]
      now == db.vols[csi.job.v].pub[n]
  IN /\ read \in {"published", "nodeUnpublish"} => n \in csi.attached[csi.job.v]
     /\ n \in csi.attached[csi.job.v] => read # "no"
     /\ read = "unpublish" => now = "unpublish"
     /\ read = "pending" => now \in {"pending", "unpublish"}
     /\ read = "nodeUnpublish" => now \in {"nodeUnpublish", "unpublish"}

JobOK ==
  csi.job # NoJob =>
    /\ csi.job.v \in DOMAIN db.vols
    /\ csi.job.kind \in {"delete", "deleted"} => db.vols[csi.job.v].deleting
    /\ csi.job.kind = "publish" =>
         /\ ~db.vols[csi.job.v].deleting
         /\ \E n \in Nodes : db.vols[csi.job.v].pub[n] # "no"
         /\ \A n \in Nodes : JobFollows(n)

VolumeInv ==
  VolumeTypes /\ StatusesTrue /\ Deleting /\ Gone /\ Fresh /\ JobOK

-----------------------------------------------------------------------------
(* Steps that leave the plugin alone                                        *)

(* What scheduler, agents and dispatcher may make of a status.              *)
PubStep(p, q) ==
  \/ q = p
  \/ p = "no" /\ q = "pending"
  \/ p = "published" /\ q = "nodeUnpublish"
  \/ p # "no" /\ q = "unpublish"

VolStep(x, y) ==
  y \in Vol /\ y.deleting = x.deleting /\ \A n \in Nodes : PubStep(x.pub[n], y.pub[n])

VolsStep(f, g) == DOMAIN g = DOMAIN f /\ \A v \in DOMAIN f : VolStep(f[v], g[v])

(* The job goes on with what it read, or is over.                           *)
JobStep(j, k) ==
  k = NoJob \/ (j # NoJob /\ k.v = j.v /\ k.kind = j.kind /\ k.pub = j.pub)

LeftSame == "new" \in DOMAIN left' /\ left'.new = left.new

Drift ==
  /\ IsDb(db') /\ csi' \in Csi /\ LeftSame
  /\ VolsStep(db.vols, db'.vols)
  /\ csi'.attached = csi.attached /\ csi'.gone = csi.gone
  /\ JobStep(csi.job, csi'.job)

LEMMA NoJobKind == NoJob \notin Job /\ NoJob.kind \notin {"create", "delete", "deleted", "publish"}
BY DEF NoJob, Job, None

LEMMA JobTypes ==
  ASSUME VolumeTypes
  PROVE  /\ csi.job \in Job \cup {NoJob} /\ csi.attached \in [DOMAIN Volumes -> SUBSET Nodes]
         /\ csi.gone \subseteq DOMAIN Volumes /\ csi.told \subseteq (DOMAIN Volumes) \X Nodes
         /\ csi.job # NoJob =>
              /\ csi.job.v \in DOMAIN Volumes /\ csi.job.pub \in [Nodes -> PublishStates]
              /\ csi.job.kind \in {"create", "delete", "deleted", "publish"}
              /\ csi.job.failed \subseteq Nodes
BY DEF VolumeTypes, Csi, Job

LEMMA VolTypes ==
  ASSUME VolumeTypes, NEW v \in DOMAIN db.vols
  PROVE  /\ v \in DOMAIN Volumes /\ db.vols[v] \in Vol
         /\ db.vols[v].pub \in [Nodes -> PublishStates] /\ db.vols[v].deleting \in BOOLEAN
BY DEF VolumeTypes, IsVols, Vol

LEMMA DriftKeeps == VolumeInv /\ Drift => VolumeInv'
<1> SUFFICES ASSUME VolumeInv, Drift PROVE VolumeInv'
  OBVIOUS
<1>1. /\ VolumeTypes /\ StatusesTrue /\ Deleting /\ Gone /\ Fresh /\ JobOK
  BY DEF VolumeInv
<1>2. /\ DOMAIN db'.vols = DOMAIN db.vols /\ csi'.attached = csi.attached
      /\ csi'.gone = csi.gone /\ JobStep(csi.job, csi'.job) /\ left'.new = left.new
  BY DEF Drift, VolsStep, LeftSame
<1>3. ASSUME NEW v \in DOMAIN db.vols
      PROVE  /\ db'.vols[v] \in Vol /\ db'.vols[v].deleting = db.vols[v].deleting
             /\ \A n \in Nodes : PubStep(db.vols[v].pub[n], db'.vols[v].pub[n])
  BY <1>3 DEF Drift, VolsStep, VolStep
<1>4. VolumeTypes'
  BY <1>1, <1>2, <1>3 DEF VolumeTypes, IsVols, Drift, LeftSame
<1>5. StatusesTrue'
  <2>1. ASSUME NEW v \in DOMAIN Volumes, NEW n \in csi'.attached[v]
        PROVE  v \in DOMAIN db'.vols /\ db'.vols[v].pub[n] # "no"
    <3>1. n \in Nodes /\ v \in DOMAIN db.vols /\ db.vols[v].pub[n] # "no"
      BY <1>1, <1>2, <2>1, JobTypes DEF StatusesTrue
    <3> QED BY <1>2, <1>3, <3>1 DEF PubStep
  <2>2. ASSUME NEW v \in DOMAIN db'.vols, NEW n \in Nodes,
               db'.vols[v].pub[n] \in {"published", "nodeUnpublish"}
        PROVE  n \in csi'.attached[v]
    <3>1. v \in DOMAIN db.vols /\ db.vols[v].pub[n] \in {"published", "nodeUnpublish"}
      BY <1>2, <1>3, <2>2 DEF PubStep
    <3> QED BY <1>1, <1>2, <3>1 DEF StatusesTrue
  <2> QED BY <2>1, <2>2 DEF StatusesTrue
<1>6. Deleting' /\ Gone' /\ Fresh'
  BY <1>1, <1>2, <1>3 DEF Deleting, Gone, Fresh
<1>7. JobOK'
  <2> SUFFICES ASSUME csi'.job # NoJob PROVE JobOK'
    BY DEF JobOK
  <2>1. PICK j : j = csi'.job
    OBVIOUS
  <2>2. /\ csi.job # NoJob
        /\ j.v = csi.job.v /\ j.kind = csi.job.kind /\ j.pub = csi.job.pub
    BY <1>2, <2>1 DEF JobStep
  <2>3. /\ j.v \in DOMAIN db.vols
        /\ j.kind \in {"delete", "deleted"} => db.vols[j.v].deleting
        /\ j.kind = "publish" =>
             /\ ~db.vols[j.v].deleting
             /\ \E n \in Nodes : db.vols[j.v].pub[n] # "no"
             /\ \A n \in Nodes : JobFollows(n)
    BY <1>1, <2>2 DEF JobOK
  <2>4. ASSUME NEW n \in Nodes, JobFollows(n) PROVE JobFollows(n)'
    <3>1. PubStep(db.vols[j.v].pub[n], db'.vols[j.v].pub[n])
      BY <1>3, <2>3
    <3> QED BY <1>2, <2>1, <2>2, <2>4, <3>1 DEF JobFollows, PubStep
  <2>5. ASSUME \E n \in Nodes : db.vols[j.v].pub[n] # "no"
        PROVE  \E n \in Nodes : db'.vols[j.v].pub[n] # "no"
    BY <1>3, <2>3, <2>5 DEF PubStep
  <2>6. /\ j.v \in DOMAIN db'.vols
        /\ j.kind \in {"delete", "deleted"} => db'.vols[j.v].deleting
        /\ j.kind = "publish" =>
             /\ ~db'.vols[j.v].deleting
             /\ \E n \in Nodes : db'.vols[j.v].pub[n] # "no"
             /\ \A n \in Nodes : JobFollows(n)'
    BY <1>2, <1>3, <2>3, <2>4, <2>5
  <2> QED BY <2>1, <2>6 DEF JobOK
<1> QED BY <1>4, <1>5, <1>6, <1>7 DEF VolumeInv

-----------------------------------------------------------------------------
(* What the actions write                                                   *)

LEMMA SetVolumeEffect ==
  ASSUME VolumeTypes, NEW v \in DOMAIN Volumes, NEW vol \in Vol, SetVolume(v, vol)
  PROVE  /\ IsDb(db') /\ IsVols(db'.vols) /\ DOMAIN db'.vols = DOMAIN db.vols \cup {v}
         /\ db'.vols[v] = vol
         /\ \A u \in DOMAIN db.vols : u # v => db'.vols[u] = db.vols[u]
<1>1. db' = [db EXCEPT !.vols = Put(@, v, vol)] /\ IsDb(db) /\ IsVols(db.vols)
  BY DEF SetVolume, VolumeTypes
<1>2. db'.vols = Put(db.vols, v, vol) /\ IsDb(db')
  BY <1>1 DEF IsDb
<1>3. /\ DOMAIN db'.vols = DOMAIN db.vols \cup {v} /\ db'.vols[v] = vol
      /\ \A u \in DOMAIN db.vols : u # v => db'.vols[u] = db.vols[u]
  BY <1>2 DEF Put
<1>4. IsVols(db'.vols)
  <2>1. ASSUME NEW u \in DOMAIN db'.vols PROVE u \in DOMAIN Volumes /\ db'.vols[u] \in Vol
    BY <1>1, <1>3, <2>1 DEF IsVols
  <2> QED BY <2>1 DEF IsVols
<1> QED BY <1>2, <1>3, <1>4

(* Who writes something else of the store leaves the volumes alone.         *)
LEMMA DbFrame ==
  ASSUME VolumeTypes
  PROVE  /\ db' = db => IsDb(db') /\ db'.vols = db.vols
         /\ \A x : db' = [db EXCEPT !.tasks = x] => IsDb(db') /\ db'.vols = db.vols
         /\ \A x : db' = [db EXCEPT !.nodes = x] => IsDb(db') /\ db'.vols = db.vols
         /\ \A x, y : db' = [db EXCEPT !.nodes = x, !.tasks = y] =>
              IsDb(db') /\ db'.vols = db.vols
         /\ \A x, y : db' = [db EXCEPT !.services[x] = y] => IsDb(db') /\ db'.vols = db.vols
         /\ \A x : db' = [db EXCEPT !.vols = x] => IsDb(db') /\ db'.vols = x
         /\ \A x, y : db' = [db EXCEPT !.tasks = x, !.vols = y] => IsDb(db') /\ db'.vols = y
<1>1. IsDb(db)
  BY DEF VolumeTypes
<1> QED BY <1>1 DEF IsDb

LEMMA SameVols ==
  ASSUME VolumeTypes, db'.vols = db.vols
  PROVE  VolsStep(db.vols, db'.vols)
<1>1. \A v \in DOMAIN db.vols : db.vols[v] \in Vol
  BY DEF VolumeTypes, IsVols
<1> QED BY <1>1 DEF VolsStep, VolStep, PubStep

LEMMA LeftFrame ==
  ASSUME VolumeTypes
  PROVE  /\ left' = left => LeftSame
         /\ \A k, x : k # "new" /\ left' = [left EXCEPT ![k] = x] => LeftSame
<1>1. "new" \in DOMAIN left
  BY DEF VolumeTypes
<1> QED BY <1>1 DEF LeftSame

LEMMA SpendFrame ==
  ASSUME VolumeTypes, NEW k, k # "new", Spend(k)
  PROVE  LeftSame
BY LeftFrame DEF Spend

LEMMA FrameDrift ==
  ASSUME VolumeTypes, IsDb(db'), db'.vols = db.vols, LeftSame, UNCHANGED csi
  PROVE  Drift
<1>1. csi' \in Csi /\ JobStep(csi.job, csi'.job)
  BY DEF VolumeTypes, JobStep
<1> QED BY <1>1, SameVols DEF Drift

LEMMA WriteFrame ==
  ASSUME VolumeTypes, NEW T, Write(T)
  PROVE  IsDb(db') /\ db'.vols = db.vols
BY DbFrame DEF Write

LEMMA NodeFrame ==
  ASSUME VolumeTypes, NEW node, SetNode(node)
  PROVE  IsDb(db') /\ db'.vols = db.vols
BY DbFrame DEF SetNode

(* The rest of the swarm, but for what users do to volumes.                 *)
LEMMA TaskDrift ==
  ASSUME VolumeTypes, NEW t, Allocate(t) \/ Stop(t) \/ End(t) \/ Delete(t), UNCHANGED csi
  PROVE  Drift
<1>1. IsDb(db') /\ db'.vols = db.vols
  <2>1. CASE Delete(t)
    BY <2>1, DbFrame DEF Delete
  <2>2. CASE Allocate(t) \/ Stop(t) \/ End(t)
    BY <2>2, WriteFrame DEF Allocate, Stop, End
  <2> QED BY <2>1, <2>2
<1>2. LeftSame
  <2>1. CASE Delete(t)
    <3>1. /\ "new" \in DOMAIN left
          /\ left' = [left EXCEPT !.deletes = @ - 1, !.ghosts = @ \/ t.state = TaskStatePending]
      BY <2>1 DEF Delete, VolumeTypes
    <3> QED BY <3>1 DEF LeftSame
  <2>2. CASE Allocate(t) \/ Stop(t) \/ End(t)
    BY <2>2, LeftFrame, SpendFrame DEF Allocate, Stop, End
  <2> QED BY <2>1, <2>2
<1> QED BY <1>1, <1>2, FrameDrift

LEMMA NodeDrift ==
  ASSUME VolumeTypes, UNCHANGED csi, NEW n,
         \/ Join(n) \/ Flip(n) \/ Halt(n) \/ Relabel(n) \/ RemoveNode(n)
         \/ \E room : Resize(n, room)
  PROVE  Drift
<1>1. CASE Join(n)
  <2>1. IsDb(db') /\ db'.vols = db.vols
    BY <1>1, NodeFrame DEF Join
  <2>2. LeftSame
    BY <1>1 DEF Join, LeftSame, VolumeTypes
  <2> QED BY <2>1, <2>2, FrameDrift
<1>2. CASE Flip(n) \/ Halt(n) \/ Relabel(n) \/ \E room : Resize(n, room)
  <2>1. IsDb(db') /\ db'.vols = db.vols
    BY <1>2, NodeFrame DEF Flip, Halt, Relabel, Resize, SetUpdated
  <2>2. LeftSame
    BY <1>2, SpendFrame DEF Flip, Halt, Relabel, Resize
  <2> QED BY <2>1, <2>2, FrameDrift
<1>3. CASE RemoveNode(n)
  <2>1. IsDb(db') /\ db'.vols = db.vols
    BY <1>3, DbFrame DEF RemoveNode
  <2>2. LeftSame
    BY <1>3, SpendFrame DEF RemoveNode
  <2> QED BY <2>1, <2>2, FrameDrift
<1> QED BY <1>1, <1>2, <1>3

LEMMA ServiceDrift ==
  ASSUME VolumeTypes, NEW x, ChangeService(x), UNCHANGED csi
  PROVE  Drift
<1>1. IsDb(db') /\ db'.vols = db.vols
  BY DbFrame DEF ChangeService
<1>2. LeftSame
  BY SpendFrame DEF ChangeService
<1> QED BY <1>1, <1>2, FrameDrift

LEMMA EnforceDrift ==
  ASSUME VolumeTypes, Enforce, UNCHANGED csi
  PROVE  Drift
<1>1. CASE rejectNoncompliantTasks \/ \E v \in updates.vols : rejectVolumeUsers(v)
  <2>1. db' = db /\ left' = left
    BY <1>1 DEF rejectNoncompliantTasks, rejectVolumeUsers
  <2> QED BY <2>1, DbFrame, LeftFrame, FrameDrift
<1>2. ASSUME NEW i, RejectUnfit(i) \/ RejectUser(i) PROVE Drift
  <2>1. left' = left
    BY <1>2 DEF RejectUnfit, RejectUser
  <2>2. IsDb(db') /\ db'.vols = db.vols
    BY <1>2, DbFrame, WriteFrame DEF RejectUnfit, RejectUser, Rejected
  <2> QED BY <2>1, <2>2, LeftFrame, FrameDrift
<1> QED BY <1>1, <1>2 DEF Enforce

(* The status of one volume changes as agents, users and plugins may have   *)
(* it.                                                                      *)
LEMMA SetDrift ==
  ASSUME VolumeTypes, NEW v \in DOMAIN db.vols, NEW vol \in Vol, SetVolume(v, vol),
         VolStep(db.vols[v], vol), LeftSame, csi' \in Csi,
         csi'.attached = csi.attached, csi'.gone = csi.gone, JobStep(csi.job, csi'.job)
  PROVE  Drift
<1>1. /\ IsDb(db') /\ DOMAIN db'.vols = DOMAIN db.vols \cup {v} /\ db'.vols[v] = vol
      /\ \A u \in DOMAIN db.vols : u # v => db'.vols[u] = db.vols[u]
  BY VolTypes, SetVolumeEffect
<1>2. ASSUME NEW u \in DOMAIN db.vols PROVE VolStep(db.vols[u], db'.vols[u])
  <2>1. CASE u = v
    BY <1>1, <2>1
  <2>2. CASE u # v
    BY <1>1, <2>2, VolTypes DEF VolStep, PubStep
  <2> QED BY <2>1, <2>2
<1>3. VolsStep(db.vols, db'.vols)
  BY <1>1, <1>2 DEF VolsStep
<1> QED BY <1>1, <1>3 DEF Drift

LEMMA SetInfo ==
  ASSUME NEW vol \in Vol
  PROVE  /\ \A avail \in {"active", "pause", "drain"} :
              VolStep(vol, [vol EXCEPT !.avail = avail]) /\ [vol EXCEPT !.avail = avail] \in Vol
         /\ VolStep(vol, [vol EXCEPT !.info = TRUE]) /\ [vol EXCEPT !.info = TRUE] \in Vol
BY DEF Vol, VolStep, PubStep

LEMMA UpdateDrift ==
  ASSUME VolumeTypes, NEW v \in DOMAIN db.vols, NEW avail \in {"active", "pause", "drain"},
         UpdateVolume(v, avail), UNCHANGED csi
  PROVE  Drift
<1>1. LeftSame
  BY SpendFrame DEF UpdateVolume
<1>2. csi' \in Csi /\ JobStep(csi.job, csi'.job)
  BY DEF VolumeTypes, JobStep
<1>3. db.vols[v] \in Vol
  BY VolTypes
<1>4. PICK vol \in Vol : vol = [db.vols[v] EXCEPT !.avail = avail] /\ VolStep(db.vols[v], vol)
  BY <1>3, SetInfo
<1>5. SetVolume(v, vol)
  BY <1>4 DEF UpdateVolume
<1> QED BY <1>1, <1>2, <1>4, <1>5, SetDrift

(* The status a report leaves.                                              *)
Let(vol, n) == [vol EXCEPT !.pub[n] = IF @ = "no" THEN @ ELSE "unpublish"]

LEMMA LetEffect ==
  ASSUME NEW vol \in Vol, NEW n \in Nodes
  PROVE  Let(vol, n) \in Vol /\ VolStep(vol, Let(vol, n))
<1>1. vol.pub \in [Nodes -> PublishStates] /\ "unpublish" \in PublishStates
  BY DEF Vol, PublishStates
<1>2. PICK pub : pub = [vol.pub EXCEPT ![n] = IF @ = "no" THEN @ ELSE "unpublish"]
  OBVIOUS
<1>3. pub \in [Nodes -> PublishStates] /\ \A m \in Nodes : PubStep(vol.pub[m], pub[m])
  BY <1>1, <1>2 DEF PubStep
<1>4. Let(vol, n) = [vol EXCEPT !.pub = pub]
  BY <1>2 DEF Let, Vol
<1>5. Let(vol, n) \in Vol /\ Let(vol, n).pub = pub /\ Let(vol, n).deleting = vol.deleting
  BY <1>3, <1>4 DEF Vol
<1> QED BY <1>3, <1>5 DEF VolStep

LEMMA CsiFrame ==
  ASSUME VolumeTypes
  PROVE  /\ csi' = csi => csi' \in Csi /\ csi'.attached = csi.attached
                          /\ csi'.gone = csi.gone /\ JobStep(csi.job, csi'.job)
         /\ csi' = Over => csi' \in Csi /\ csi'.attached = csi.attached
                           /\ csi'.gone = csi.gone /\ JobStep(csi.job, csi'.job)
         /\ \A x \in SUBSET ((DOMAIN Volumes) \X Nodes) :
              csi' = [csi EXCEPT !.told = x] =>
                csi' \in Csi /\ csi'.attached = csi.attached
                /\ csi'.gone = csi.gone /\ JobStep(csi.job, csi'.job)
         /\ csi' = [csi EXCEPT !.job = NoJob, !.told = {}] =>
              csi' \in Csi /\ csi'.attached = csi.attached
              /\ csi'.gone = csi.gone /\ JobStep(csi.job, csi'.job)
<1>1. csi \in Csi
  BY DEF VolumeTypes
<1> QED BY <1>1 DEF Csi, JobStep, Over

LEMMA AgentDrift ==
  ASSUME VolumeTypes, Agents
  PROVE  Drift
<1>1. ASSUME NEW v \in DOMAIN db.vols, NEW n \in Nodes, AgentUnpublishes(v, n)
      PROVE  Drift
  <2>1. csi' = [csi EXCEPT !.told = csi.told \cup {<<v, n>>}] /\ db' = db /\ left' = left
    BY <1>1 DEF AgentUnpublishes, store, VolumeTypes, Csi
  <2>2. csi.told \cup {<<v, n>>} \in SUBSET ((DOMAIN Volumes) \X Nodes)
    BY JobTypes, VolTypes
  <2>3. /\ csi' \in Csi /\ csi'.attached = csi.attached
        /\ csi'.gone = csi.gone /\ JobStep(csi.job, csi'.job)
    BY <2>1, <2>2, CsiFrame
  <2>4. IsDb(db') /\ VolsStep(db.vols, db'.vols) /\ LeftSame
    BY <2>1, DbFrame, SameVols, LeftFrame
  <2> QED BY <2>3, <2>4 DEF Drift
<1>2. ASSUME NEW r \in csi.told, processUpdates(r[1], r[2])
      PROVE  Drift
  <2>1. PICK v \in DOMAIN db.vols, n \in Nodes : v = r[1] /\ n = r[2]
    BY <1>2, JobTypes DEF processUpdates
  <2>2. db.vols[v] \in Vol
    BY VolTypes
  <2>3. PICK vol \in Vol : vol = Let(db.vols[v], n) /\ VolStep(db.vols[v], vol)
    BY <2>2, LetEffect
  <2>4. SetVolume(v, vol)
    BY <1>2, <2>1, <2>3 DEF processUpdates, Let
  <2>5. LeftSame
    BY <1>2, LeftFrame, SpendFrame DEF processUpdates
  <2>6. \/ csi' = [csi EXCEPT !.told = csi.told \ {<<v, n>>}]
        \/ csi' = csi
    BY <1>2, <2>1 DEF processUpdates, VolumeTypes, Csi
  <2>7. csi.told \ {<<v, n>>} \in SUBSET ((DOMAIN Volumes) \X Nodes)
    BY JobTypes
  <2>8. /\ csi' \in Csi /\ csi'.attached = csi.attached
        /\ csi'.gone = csi.gone /\ JobStep(csi.job, csi'.job)
    BY <2>6, <2>7, CsiFrame
  <2> QED BY <2>3, <2>4, <2>5, <2>8, SetDrift
<1> QED BY <1>1, <1>2 DEF Agents

(* The scheduler.                                                           *)
LEMMA PublishedStep ==
  ASSUME VolumeTypes, NEW T
  PROVE  VolsStep(db.vols, Published(db, T))
<1>1. DOMAIN Published(db, T) = DOMAIN db.vols
  BY DEF Published
<1>2. ASSUME NEW v \in DOMAIN db.vols PROVE VolStep(db.vols[v], Published(db, T)[v])
  <2>1. PICK pub : pub = [n \in Nodes |-> IF db.vols[v].pub[n] = "no"
                                             /\ \E t \in T : t.vol = v /\ t.node = n
                                          THEN "pending" ELSE db.vols[v].pub[n]]
    OBVIOUS
  <2>2. db.vols[v] \in Vol /\ db.vols[v].pub \in [Nodes -> PublishStates]
    BY VolTypes
  <2>3. /\ pub \in [Nodes -> PublishStates]
        /\ \A n \in Nodes : PubStep(db.vols[v].pub[n], pub[n])
    BY <2>1, <2>2 DEF PubStep, PublishStates
  <2>4. Published(db, T)[v] = [db.vols[v] EXCEPT !.pub = pub]
    BY <2>1, <2>2 DEF Published, Vol
  <2> QED BY <2>2, <2>3, <2>4 DEF VolStep, Vol
<1> QED BY <1>1, <1>2 DEF VolsStep

LEMMA FreedStep ==
  ASSUME VolumeTypes, NEW vs
  PROVE  VolsStep(db.vols, Freed(db, vs))
<1>1. DOMAIN Freed(db, vs) = DOMAIN db.vols
  BY DEF Freed
<1>2. ASSUME NEW v \in DOMAIN db.vols PROVE VolStep(db.vols[v], Freed(db, vs)[v])
  <2>1. PICK pub : pub = [n \in Nodes |-> IF db.vols[v].pub[n] = "published"
                                             /\ v \in DOMAIN vs /\ ~inUse(vs, v, n)
                                          THEN "nodeUnpublish" ELSE db.vols[v].pub[n]]
    OBVIOUS
  <2>2. db.vols[v] \in Vol /\ db.vols[v].pub \in [Nodes -> PublishStates]
    BY VolTypes
  <2>3. /\ pub \in [Nodes -> PublishStates]
        /\ \A n \in Nodes : PubStep(db.vols[v].pub[n], pub[n])
    BY <2>1, <2>2 DEF PubStep, PublishStates
  <2>4. Freed(db, vs)[v] = [db.vols[v] EXCEPT !.pub = pub]
    BY <2>1, <2>2 DEF Freed, Vol
  <2> QED BY <2>2, <2>3, <2>4 DEF VolStep, Vol
<1> QED BY <1>1, <1>2 DEF VolsStep

LEMMA SchedulerDrift ==
  ASSUME VolumeTypes, Steps \/ Leader
  PROVE  Drift
<1>1. CASE Handle \/ Schedule \/ Plan
  <2>1. UNCHANGED <<db, left, csi>>
    BY <1>1 DEF Handle, Schedule, Plan, store
  <2> QED BY <2>1, DbFrame, LeftFrame, FrameDrift
<1>2. CASE Apply
  <2>1. PICK T : /\ \E x : db' = [db EXCEPT !.tasks = x, !.vols = Published(db, T)]
                 /\ \E x : left' = [left EXCEPT !.stale = x]
                 /\ csi' = csi
    BY <1>2 DEF Apply
  <2>2. IsDb(db') /\ db'.vols = Published(db, T) /\ LeftSame
    BY <2>1, DbFrame, LeftFrame
  <2> QED BY <2>1, <2>2, PublishedStep, CsiFrame DEF Drift
<1>3. CASE Finish
  <2>1. db' = [db EXCEPT !.vols = Freed(db, s.vols)] /\ left' = left /\ csi' = csi
    BY <1>3 DEF Finish
  <2>2. IsDb(db') /\ db'.vols = Freed(db, s.vols) /\ LeftSame
    BY <2>1, DbFrame, LeftFrame
  <2> QED BY <2>1, <2>2, FreedStep, CsiFrame DEF Drift
<1>4. CASE Leader
  <2>1. db' = db /\ csi' = [csi EXCEPT !.job = NoJob, !.told = {}]
    BY <1>4 DEF Leader, TakeOver
  <2>2. IsDb(db') /\ db'.vols = db.vols /\ LeftSame
    BY <1>4, <2>1, DbFrame, SpendFrame DEF Leader
  <2> QED BY <2>1, <2>2, SameVols, CsiFrame DEF Drift
<1> QED BY <1>1, <1>2, <1>3, <1>4 DEF Steps

-----------------------------------------------------------------------------
(* The CSI manager                                                          *)

LEMMA Busy ==
  ASSUME VolumeTypes, csi.job.kind \in {"create", "delete", "deleted", "publish"}
  PROVE  csi.job # NoJob /\ csi.job \in Job
BY JobTypes, NoJobKind

LEMMA RetryDrift ==
  ASSUME VolumeTypes, Retry
  PROVE  Drift
<1>1. db' = db /\ csi' = Over /\ LeftSame
  BY SpendFrame DEF Retry
<1>2. IsDb(db') /\ VolsStep(db.vols, db'.vols)
  BY <1>1, DbFrame, SameVols
<1> QED BY <1>1, <1>2, CsiFrame DEF Drift

LEMMA CreateDrift ==
  ASSUME VolumeInv, createVolume
  PROVE  Drift
<1>1. VolumeTypes /\ JobOK
  BY DEF VolumeInv
<1>2. csi.job # NoJob
  BY <1>1, Busy DEF createVolume
<1>3. PICK v \in DOMAIN db.vols : v = csi.job.v
  BY <1>1, <1>2 DEF JobOK
<1>4. CASE Retry
  BY <1>1, <1>4, RetryDrift
<1>5. CASE SetVolume(v, [db.vols[v] EXCEPT !.info = TRUE]) /\ csi' = Over /\ UNCHANGED left
  <2>1. db.vols[v] \in Vol
    BY <1>1, VolTypes
  <2>2. PICK vol \in Vol : vol = [db.vols[v] EXCEPT !.info = TRUE] /\ VolStep(db.vols[v], vol)
    BY <2>1, SetInfo
  <2>3. SetVolume(v, vol) /\ LeftSame
    BY <1>1, <1>5, <2>2, LeftFrame
  <2>4. /\ csi' \in Csi /\ csi'.attached = csi.attached
        /\ csi'.gone = csi.gone /\ JobStep(csi.job, csi'.job)
    BY <1>1, <1>5, CsiFrame
  <2> QED BY <1>1, <2>2, <2>3, <2>4, SetDrift
<1> QED BY <1>3, <1>4, <1>5 DEF createVolume

LEMMA FailedDrift ==
  ASSUME VolumeTypes, NEW n \in ToCall, Spend("fails"), UNCHANGED db,
         csi' = [csi EXCEPT !.job.failed = @ \cup {n}]
  PROVE  Drift
<1>1. csi \in Csi /\ n \in Nodes /\ csi.job # NoJob /\ csi.job \in Job
  BY Busy DEF ToCall, VolumeTypes
<1>2. PICK j \in Job : j = [csi.job EXCEPT !.failed = @ \cup {n}] /\ JobStep(csi.job, j)
  <2>1. PICK f \in SUBSET Nodes : f = csi.job.failed \cup {n}
    BY <1>1 DEF Job
  <2>2. PICK j : j = [csi.job EXCEPT !.failed = f]
    OBVIOUS
  <2>3. j \in Job /\ j.v = csi.job.v /\ j.kind = csi.job.kind /\ j.pub = csi.job.pub
    BY <1>1, <2>1, <2>2 DEF Job
  <2>4. j = [csi.job EXCEPT !.failed = @ \cup {n}]
    BY <1>1, <2>1, <2>2 DEF Job
  <2> QED BY <1>1, <2>3, <2>4 DEF JobStep
<1>3. csi' = [csi EXCEPT !.job = j]
  BY <1>1, <1>2 DEF Csi
<1>4. /\ csi' \in Csi /\ csi'.attached = csi.attached
      /\ csi'.gone = csi.gone /\ csi'.job = j
  BY <1>1, <1>2, <1>3 DEF Csi
<1>5. IsDb(db') /\ VolsStep(db.vols, db'.vols) /\ LeftSame
  BY DbFrame, SameVols, SpendFrame
<1> QED BY <1>2, <1>4, <1>5 DEF Drift

(* handleVolume reads the volume: what it read is what there is.            *)
LEMMA HandleKeeps ==
  ASSUME VolumeInv, NEW v, handleVolume(v)
  PROVE  VolumeInv'
<1>1. /\ VolumeTypes /\ StatusesTrue /\ Deleting /\ Gone /\ Fresh
      /\ db' = db /\ left' = left
  BY DEF VolumeInv, handleVolume
<1>2. CASE csi' = csi
  <2>1. Drift
    BY <1>1, <1>2, DbFrame, LeftFrame, FrameDrift
  <2> QED BY <2>1, DriftKeeps
<1>3. CASE v \in DOMAIN db.vols /\ HasWork(db.vols[v])
  <2>1. PICK vol : vol = db.vols[v]
    OBVIOUS
  <2>2. /\ v \in DOMAIN Volumes /\ vol \in Vol /\ vol.info \in BOOLEAN
        /\ vol.pub \in [Nodes -> PublishStates] /\ vol.deleting \in BOOLEAN
    BY <1>1, <1>3, <2>1, VolTypes DEF Vol
  <2>3. PICK k : k = KindOf(vol)
    OBVIOUS
  <2>4. /\ k \in {"create", "delete", "publish"} /\ (k = "delete" => vol.deleting)
        /\ k = "publish" => vol.info /\ ~vol.deleting
    BY <2>2, <2>3 DEF KindOf
  <2>5. PICK j : j = [v |-> v, kind |-> k, pub |-> vol.pub, failed |-> {}]
    OBVIOUS
  <2>6. /\ j \in Job /\ j.v = v /\ j.kind = k /\ j.pub = vol.pub
    BY <2>2, <2>4, <2>5 DEF Job
  <2>7. csi' = [csi EXCEPT !.job = j]
    BY <1>3, <2>1, <2>3, <2>5 DEF handleVolume
  <2>8. /\ csi' \in Csi /\ csi'.job = j /\ csi'.attached = csi.attached
        /\ csi'.gone = csi.gone
    BY <1>1, <2>6, <2>7 DEF VolumeTypes, Csi
  <2>9. VolumeTypes' /\ Deleting' /\ Gone' /\ Fresh'
    BY <1>1, <2>8 DEF VolumeTypes, Deleting, Gone, Fresh
  <2>10. StatusesTrue'
    BY <1>1, <2>8 DEF StatusesTrue
  <2>11. ASSUME NEW n \in Nodes PROVE JobFollows(n)'
    <3>1. /\ n \in csi.attached[v] => vol.pub[n] # "no"
          /\ vol.pub[n] \in {"published", "nodeUnpublish"} => n \in csi.attached[v]
      BY <1>1, <1>3, <2>1, <2>2 DEF StatusesTrue
    <3> QED BY <1>1, <2>1, <2>6, <2>8, <3>1 DEF JobFollows
  <2>12. k = "publish" => \E n \in Nodes : vol.pub[n] # "no"
    BY <1>3, <2>1, <2>2, <2>4 DEF HasWork
  <2>13. JobOK'
    BY <1>1, <1>3, <2>1, <2>4, <2>6, <2>8, <2>11, <2>12 DEF JobOK
  <2> QED BY <2>9, <2>10, <2>13 DEF VolumeInv
<1> QED BY <1>2, <1>3 DEF handleVolume

(* A call for one node changes the status that was read and, when it        *)
(* succeeds, where the volume is.                                           *)
LEMMA CallEffect ==
  ASSUME VolumeTypes, csi.job # NoJob, NEW n \in Nodes, NEW status \in PublishStates,
         NEW at \in SUBSET Nodes,
         csi' = [csi EXCEPT !.attached[csi.job.v] = at, !.job = Called(@, n, status)]
  PROVE  /\ csi' \in Csi /\ csi'.gone = csi.gone
         /\ csi'.job.v = csi.job.v /\ csi'.job.kind = csi.job.kind
         /\ csi'.job.pub = [csi.job.pub EXCEPT ![n] = status]
         /\ csi'.attached = [csi.attached EXCEPT ![csi.job.v] = at]
<1>1. csi \in Csi /\ csi.job \in Job
  BY JobTypes DEF VolumeTypes
<1>2. PICK pub : pub = [csi.job.pub EXCEPT ![n] = status]
  OBVIOUS
<1>3. PICK j : j = [csi.job EXCEPT !.pub = pub]
  OBVIOUS
<1>4. j = Called(csi.job, n, status)
  BY <1>1, <1>2, <1>3 DEF Called, Job
<1>5. pub \in [Nodes -> PublishStates]
  BY <1>1, <1>2 DEF Job
<1>6. j \in Job /\ j.v = csi.job.v /\ j.kind = csi.job.kind /\ j.pub = pub
  BY <1>1, <1>3, <1>5 DEF Job
<1>7. PICK a : a = [csi.attached EXCEPT ![csi.job.v] = at]
  OBVIOUS
<1>8. a \in [DOMAIN Volumes -> SUBSET Nodes]
  BY <1>1, <1>7 DEF Csi
<1>9. csi' = [csi EXCEPT !.attached = a, !.job = j]
  BY <1>1, <1>4, <1>7 DEF Csi
<1>10. csi' \in Csi /\ csi'.gone = csi.gone /\ csi'.job = j /\ csi'.attached = a
  BY <1>1, <1>6, <1>8, <1>9 DEF Csi
<1> QED BY <1>2, <1>6, <1>7, <1>10

(* The calls of ControllerPublishVolume and ControllerUnpublishVolume.      *)
LEMMA CallKeeps ==
  ASSUME VolumeInv, NEW n \in ToCall, CallPlugin(n)
  PROVE  VolumeInv'
<1>1. /\ VolumeTypes /\ StatusesTrue /\ Deleting /\ Gone /\ Fresh /\ JobOK
      /\ db' = db /\ n \in Nodes /\ csi.job # NoJob /\ csi.job.kind = "publish"
  BY Busy DEF VolumeInv, CallPlugin, ToCall
<1>2. PICK v \in DOMAIN db.vols : v = csi.job.v
  BY <1>1 DEF JobOK
<1>3. /\ v \in DOMAIN Volumes /\ db.vols[v].deleting \in BOOLEAN
      /\ csi.job.pub \in [Nodes -> PublishStates]
      /\ csi.attached \in [DOMAIN Volumes -> SUBSET Nodes]
      /\ csi.gone \subseteq DOMAIN Volumes
  BY <1>1, <1>2, VolTypes, JobTypes
<1>4. /\ ~db.vols[v].deleting /\ v \notin csi.gone
      /\ \E m \in Nodes : db.vols[v].pub[m] # "no"
      /\ \A m \in Nodes : JobFollows(m)
  BY <1>1, <1>2 DEF JobOK, Gone
<1>5. ASSUME NEW at \in SUBSET Nodes, NEW status \in {"published", "no"}, left' = left,
             csi' = [csi EXCEPT !.attached[csi.job.v] = at, !.job = Called(@, n, status)],
             \A m \in Nodes \ {n} : m \in at <=> m \in csi.attached[v],
             n \in at => status = "published" /\ db.vols[v].pub[n] # "no",
             n \notin at => status = "no" /\ db.vols[v].pub[n] \notin {"published", "nodeUnpublish"}
      PROVE  VolumeInv'
  <2>1. /\ csi' \in Csi /\ csi'.gone = csi.gone
        /\ csi'.job.v = v /\ csi'.job.kind = "publish"
        /\ csi'.job.pub = [csi.job.pub EXCEPT ![n] = status]
        /\ csi'.attached = [csi.attached EXCEPT ![v] = at]
    BY <1>1, <1>2, <1>5, CallEffect, ZenonT(40) DEF PublishStates
  <2>2. /\ csi'.attached[v] = at
        /\ \A u \in DOMAIN Volumes : u # v => csi'.attached[u] = csi.attached[u]
        /\ csi'.job.pub[n] = status
        /\ \A m \in Nodes : m # n => csi'.job.pub[m] = csi.job.pub[m]
    BY <1>1, <1>3, <2>1
  <2>3. VolumeTypes' /\ Fresh'
    BY <1>1, <1>5, <2>1 DEF VolumeTypes, Fresh
  <2>4. StatusesTrue'
    <3>1. ASSUME NEW u \in DOMAIN Volumes, NEW m \in csi'.attached[u]
          PROVE  u \in DOMAIN db.vols /\ db.vols[u].pub[m] # "no"
      <4>1. CASE u = v /\ m = n
        BY <1>5, <2>2, <3>1, <4>1
      <4>2. CASE ~(u = v /\ m = n)
        <5>1. m \in csi.attached[u]
          BY <1>5, <2>2, <3>1, <4>2
        <5> QED BY <1>1, <5>1 DEF StatusesTrue
      <4> QED BY <4>1, <4>2
    <3>2. ASSUME NEW u \in DOMAIN db.vols, NEW m \in Nodes,
                 db.vols[u].pub[m] \in {"published", "nodeUnpublish"}
          PROVE  m \in csi'.attached[u]
      <4>1. u \in DOMAIN Volumes /\ m \in csi.attached[u]
        BY <1>1, <3>2, VolTypes DEF StatusesTrue
      <4> QED BY <1>5, <2>2, <3>2, <4>1
    <3> QED BY <1>1, <3>1, <3>2 DEF StatusesTrue
  <2>5. Deleting'
    <3>1. ASSUME NEW u \in DOMAIN db.vols, db.vols[u].deleting PROVE csi'.attached[u] = {}
      <4>1. u # v /\ u \in DOMAIN Volumes
        BY <1>1, <1>4, <3>1, VolTypes
      <4> QED BY <1>1, <2>2, <3>1, <4>1 DEF Deleting
    <3> QED BY <1>1, <3>1 DEF Deleting
  <2>6. Gone'
    BY <1>1, <1>3, <1>4, <2>1, <2>2 DEF Gone
  <2>7. ASSUME NEW m \in Nodes PROVE JobFollows(m)'
    <3>1. JobFollows(m)
      BY <1>4
    <3>2. CASE m = n
      BY <1>1, <1>5, <2>1, <2>2, <3>2 DEF JobFollows
    <3>3. CASE m # n
      BY <1>1, <1>2, <1>5, <2>1, <2>2, <3>1, <3>3 DEF JobFollows
    <3> QED BY <3>2, <3>3
  <2>8. JobOK'
    BY <1>1, <1>4, <2>1, <2>7 DEF JobOK
  <2> QED BY <2>3, <2>4, <2>5, <2>6, <2>8 DEF VolumeInv
<1>6. CASE /\ csi.job.pub[n] = "pending" /\ left' = left
           /\ csi' = [csi EXCEPT !.attached[csi.job.v] = @ \cup {n},
                                 !.job = Called(@, n, "published")]
  <2>1. PICK at \in SUBSET Nodes : at = csi.attached[v] \cup {n}
    BY <1>1, <1>3
  <2>2. csi' = [csi EXCEPT !.attached[csi.job.v] = at, !.job = Called(@, n, "published")]
    BY <1>2, <1>6, <2>1
  <2>3. db.vols[v].pub[n] # "no"
    BY <1>1, <1>2, <1>4, <1>6 DEF JobFollows
  <2> QED BY <1>1, <1>5, <1>6, <2>1, <2>2, <2>3
<1>7. CASE csi.job.pub[n] = "unpublish" /\ left' = left /\ csi' = Unpublished(n)
  <2>1. PICK at \in SUBSET Nodes : at = csi.attached[v] \ {n}
    BY <1>1, <1>3
  <2>2. csi' = [csi EXCEPT !.attached[csi.job.v] = at, !.job = Called(@, n, "no")]
    BY <1>2, <1>7, <2>1 DEF Unpublished
  <2>3. db.vols[v].pub[n] = "unpublish"
    BY <1>1, <1>2, <1>4, <1>7 DEF JobFollows
  <2> QED BY <1>1, <1>5, <1>7, <2>1, <2>2, <2>3
<1>8. CASE Spend("fails") /\ csi' = [csi EXCEPT !.job.failed = @ \cup {n}]
  <2>1. Drift
    BY <1>1, <1>8, FailedDrift
  <2> QED BY <2>1, DriftKeeps
<1> QED BY <1>6, <1>7, <1>8 DEF CallPlugin

(* The write replaces all statuses by the ones that were read and changed.  *)
LEMMA WriteBackKeeps ==
  ASSUME VolumeInv, WriteBack
  PROVE  VolumeInv'
<1>1. /\ VolumeTypes /\ StatusesTrue /\ Deleting /\ Gone /\ Fresh /\ JobOK
      /\ csi' = Over /\ left' = left /\ csi.job # NoJob /\ csi.job.kind = "publish"
  BY Busy DEF VolumeInv, WriteBack
<1>2. PICK v \in DOMAIN db.vols : v = csi.job.v
  BY <1>1 DEF JobOK
<1>3. /\ v \in DOMAIN Volumes /\ db.vols[v] \in Vol /\ db.vols[v].deleting \in BOOLEAN
      /\ csi.job.pub \in [Nodes -> PublishStates]
      /\ csi.attached \in [DOMAIN Volumes -> SUBSET Nodes]
  BY <1>1, <1>2, VolTypes, JobTypes
<1>4. ~db.vols[v].deleting /\ \A n \in Nodes : JobFollows(n)
  BY <1>1, <1>2 DEF JobOK
<1>5. PICK vol : vol = [db.vols[v] EXCEPT !.pub = csi.job.pub]
  OBVIOUS
<1>6. vol \in Vol /\ vol.pub = csi.job.pub /\ ~vol.deleting
  BY <1>3, <1>4, <1>5 DEF Vol
<1>7. SetVolume(v, vol)
  BY <1>2, <1>5 DEF WriteBack
<1>8. /\ IsDb(db') /\ IsVols(db'.vols) /\ DOMAIN db'.vols = DOMAIN db.vols
      /\ db'.vols[v] = vol
      /\ \A u \in DOMAIN db.vols : u # v => db'.vols[u] = db.vols[u]
  BY <1>1, <1>3, <1>6, <1>7, SetVolumeEffect
<1>9. /\ csi' \in Csi /\ csi'.attached = csi.attached /\ csi'.gone = csi.gone
      /\ csi'.job = NoJob
  BY <1>1, CsiFrame DEF Over, VolumeTypes, Csi
<1>10. VolumeTypes' /\ Fresh'
  BY <1>1, <1>8, <1>9 DEF VolumeTypes, Fresh
<1>11. StatusesTrue'
  <2>1. ASSUME NEW u \in DOMAIN Volumes, NEW n \in csi.attached[u]
        PROVE  u \in DOMAIN db'.vols /\ db'.vols[u].pub[n] # "no"
    <3>1. n \in Nodes /\ u \in DOMAIN db.vols /\ db.vols[u].pub[n] # "no"
      BY <1>1, <1>3, <2>1 DEF StatusesTrue
    <3>2. CASE u = v
      BY <1>2, <1>4, <1>6, <1>8, <2>1, <3>1, <3>2 DEF JobFollows
    <3>3. CASE u # v
      BY <1>8, <3>1, <3>3
    <3> QED BY <3>2, <3>3
  <2>2. ASSUME NEW u \in DOMAIN db.vols, NEW n \in Nodes,
               db'.vols[u].pub[n] \in {"published", "nodeUnpublish"}
        PROVE  n \in csi.attached[u]
    <3>1. CASE u = v
      BY <1>2, <1>4, <1>6, <1>8, <2>2, <3>1 DEF JobFollows
    <3>2. CASE u # v
      BY <1>1, <1>8, <2>2, <3>2 DEF StatusesTrue
    <3> QED BY <3>1, <3>2
  <2> QED BY <1>8, <1>9, <2>1, <2>2 DEF StatusesTrue
<1>12. ASSUME NEW u \in DOMAIN db.vols PROVE db'.vols[u].deleting = db.vols[u].deleting
  <2>1. CASE u = v
    BY <1>1, <1>3, <1>4, <1>5, <1>8, <2>1 DEF Vol
  <2>2. CASE u # v
    BY <1>8, <2>2
  <2> QED BY <2>1, <2>2
<1>13. Deleting' /\ Gone'
  BY <1>1, <1>8, <1>9, <1>12 DEF Deleting, Gone
<1>14. JobOK'
  BY <1>9 DEF JobOK
<1> QED BY <1>10, <1>11, <1>13, <1>14 DEF VolumeInv

(* The plugin deletes the volume, and then it is taken from the store.      *)
LEMMA DeleteKeeps ==
  ASSUME VolumeInv, deleteVolume
  PROVE  VolumeInv'
<1>1. /\ VolumeTypes /\ StatusesTrue /\ Deleting /\ Gone /\ Fresh /\ JobOK
      /\ csi.job # NoJob /\ csi.job \in Job /\ csi \in Csi
      /\ csi.job.kind \in {"delete", "deleted"}
  BY Busy DEF VolumeInv, deleteVolume, VolumeTypes
<1>2. PICK v \in DOMAIN db.vols : v = csi.job.v
  BY <1>1 DEF JobOK
<1>3. v \in DOMAIN Volumes /\ csi.attached[v] = {} /\ db.vols[v].deleting
  BY <1>1, <1>2, VolTypes DEF JobOK, Deleting
<1>4. CASE Retry
  BY <1>1, <1>4, RetryDrift, DriftKeeps
<1>5. CASE /\ csi' = [csi EXCEPT !.job.kind = "deleted", !.gone = @ \cup {csi.job.v}]
           /\ UNCHANGED store
  <2>1. PICK j : j = [csi.job EXCEPT !.kind = "deleted"]
    OBVIOUS
  <2>2. j \in Job /\ j.v = v /\ j.kind = "deleted"
    BY <1>1, <1>2, <2>1 DEF Job
  <2>3. PICK g : g = csi.gone \cup {v}
    OBVIOUS
  <2>4. g \subseteq DOMAIN Volumes
    BY <1>1, <1>3, <2>3, JobTypes
  <2>5. csi' = [csi EXCEPT !.job = j, !.gone = g]
    BY <1>1, <1>2, <1>5, <2>1, <2>3 DEF Csi
  <2>6. csi' \in Csi /\ csi'.job = j /\ csi'.gone = g /\ csi'.attached = csi.attached
    BY <1>1, <2>2, <2>4, <2>5 DEF Csi
  <2>7. db' = db /\ left' = left
    BY <1>5 DEF store
  <2>8. VolumeTypes' /\ Deleting'
    BY <1>1, <2>6, <2>7 DEF VolumeTypes, Deleting
  <2>9. Fresh'
    BY <1>1, <2>3, <2>6, <2>7 DEF Fresh
  <2>10. Gone'
    BY <1>1, <1>3, <2>3, <2>6, <2>7 DEF Gone
  <2>11. StatusesTrue'
    BY <1>1, <2>6, <2>7 DEF StatusesTrue
  <2>12. JobOK'
    BY <1>3, <2>2, <2>6, <2>7 DEF JobOK
  <2> QED BY <2>8, <2>9, <2>10, <2>11, <2>12 DEF VolumeInv
<1>6. CASE db' = [db EXCEPT !.vols = Drop(@, v)] /\ csi' = Over /\ left' = left
  <2>1. IsDb(db') /\ db'.vols = Drop(db.vols, v)
    BY <1>1, <1>6 DEF VolumeTypes, IsDb
  <2>2. /\ DOMAIN db'.vols = DOMAIN db.vols \ {v}
        /\ \A u \in DOMAIN db'.vols : db'.vols[u] = db.vols[u]
    BY <2>1 DEF Drop, Restrict
  <2>3. /\ csi' \in Csi /\ csi'.attached = csi.attached /\ csi'.gone = csi.gone
        /\ csi'.job = NoJob
    BY <1>1, <1>6, CsiFrame DEF Over, Csi
  <2>4. VolumeTypes'
    BY <1>1, <1>6, <2>1, <2>2, <2>3 DEF VolumeTypes, IsVols
  <2>5. Deleting' /\ Gone' /\ Fresh'
    BY <1>1, <1>6, <2>2, <2>3 DEF Deleting, Gone, Fresh
  <2>6. StatusesTrue'
    BY <1>1, <1>3, <2>2, <2>3 DEF StatusesTrue
  <2>7. JobOK'
    BY <2>3 DEF JobOK
  <2> QED BY <2>4, <2>5, <2>6, <2>7 DEF VolumeInv
<1> QED BY <1>2, <1>4, <1>5, <1>6 DEF deleteVolume

LEMMA ManageKeeps == VolumeInv /\ Manage => VolumeInv'
<1> SUFFICES ASSUME VolumeInv, Manage PROVE VolumeInv'
  OBVIOUS
<1>1. CASE \E v \in pendingVolumes : handleVolume(v)
  BY <1>1, HandleKeeps
<1>2. CASE createVolume
  BY <1>2, CreateDrift, DriftKeeps
<1>3. CASE deleteVolume
  BY <1>3, DeleteKeeps
<1>4. CASE WriteBack
  BY <1>4, WriteBackKeeps
<1>5. CASE \E n \in ToCall : CallPlugin(n)
  BY <1>5, CallKeeps
<1> QED BY <1>1, <1>2, <1>3, <1>4, <1>5 DEF Manage

-----------------------------------------------------------------------------
(* Users                                                                    *)

LEMMA NewKeeps ==
  ASSUME VolumeInv, NEW v \in left.new, CreateVolume(v), UNCHANGED csi
  PROVE  VolumeInv'
<1>1. /\ VolumeTypes /\ StatusesTrue /\ Deleting /\ Gone /\ Fresh /\ JobOK
      /\ csi' = csi /\ v \in DOMAIN Volumes /\ v \notin DOMAIN db.vols /\ v \notin csi.gone
  BY DEF VolumeInv, VolumeTypes, Fresh
<1>2. NewVolume \in Vol /\ ~NewVolume.deleting /\ \A n \in Nodes : NewVolume.pub[n] = "no"
  BY DEF NewVolume, Vol, PublishStates
<1>3. csi.attached[v] = {}
  BY <1>1 DEF StatusesTrue
<1>4. /\ IsDb(db') /\ IsVols(db'.vols) /\ DOMAIN db'.vols = DOMAIN db.vols \cup {v}
      /\ db'.vols[v] = NewVolume /\ \A u \in DOMAIN db.vols : db'.vols[u] = db.vols[u]
  BY <1>1, <1>2, SetVolumeEffect DEF CreateVolume
<1>5. "new" \in DOMAIN left' /\ left'.new = left.new \ {v}
  BY <1>1 DEF CreateVolume, VolumeTypes
<1>6. VolumeTypes' /\ Fresh'
  BY <1>1, <1>4, <1>5 DEF VolumeTypes, Fresh
<1>7. StatusesTrue'
  BY <1>1, <1>2, <1>4 DEF StatusesTrue
<1>8. Deleting' /\ Gone'
  BY <1>1, <1>2, <1>3, <1>4 DEF Deleting, Gone
<1>9. JobOK'
  <2>1. ASSUME NEW n \in Nodes, csi.job.v \in DOMAIN db.vols, JobFollows(n)
        PROVE  JobFollows(n)'
    BY <1>1, <1>4, <2>1 DEF JobFollows
  <2> QED BY <1>1, <1>4, <2>1 DEF JobOK
<1> QED BY <1>6, <1>7, <1>8, <1>9 DEF VolumeInv

(* RemoveVolume: no status, so no node has the volume and no job is         *)
(* publishing it; from now on the volume is only deleted.                   *)
LEMMA RemoveKeeps ==
  ASSUME VolumeInv, NEW v \in DOMAIN db.vols, RemoveVolume(v), UNCHANGED csi
  PROVE  VolumeInv'
<1>1. /\ VolumeTypes /\ StatusesTrue /\ Deleting /\ Gone /\ Fresh /\ JobOK /\ csi' = csi
      /\ \A n \in Nodes : db.vols[v].pub[n] = "no"
  BY DEF VolumeInv, RemoveVolume
<1>2. /\ v \in DOMAIN Volumes /\ db.vols[v] \in Vol
      /\ csi.attached \in [DOMAIN Volumes -> SUBSET Nodes]
  BY <1>1, VolTypes, JobTypes
<1>3. PICK vol : vol = [db.vols[v] EXCEPT !.deleting = TRUE]
  OBVIOUS
<1>4. vol \in Vol /\ vol.deleting /\ vol.pub = db.vols[v].pub
  BY <1>2, <1>3 DEF Vol
<1>5. SetVolume(v, vol) /\ LeftSame
  BY <1>1, <1>3, SpendFrame DEF RemoveVolume
<1>6. /\ IsDb(db') /\ IsVols(db'.vols) /\ DOMAIN db'.vols = DOMAIN db.vols
      /\ db'.vols[v] = vol
      /\ \A u \in DOMAIN db.vols : u # v => db'.vols[u] = db.vols[u]
  BY <1>1, <1>2, <1>4, <1>5, SetVolumeEffect
<1>7. csi.attached[v] = {}
  BY <1>1, <1>2 DEF StatusesTrue
<1>8. \A u \in DOMAIN db.vols :
        db'.vols[u].pub = db.vols[u].pub /\ (db.vols[u].deleting => db'.vols[u].deleting)
  BY <1>4, <1>6
<1>9. VolumeTypes' /\ Fresh'
  BY <1>1, <1>5, <1>6 DEF VolumeTypes, Fresh, LeftSame
<1>10. StatusesTrue'
  BY <1>1, <1>6, <1>8 DEF StatusesTrue
<1>11. Deleting' /\ Gone'
  BY <1>1, <1>6, <1>7, <1>8 DEF Deleting, Gone
<1>12. JobOK'
  <2>1. CASE csi.job.kind = "publish" /\ csi.job # NoJob
    <3>1. PICK u \in DOMAIN db.vols : u = csi.job.v /\ u # v
      BY <1>1, <2>1 DEF JobOK
    <3>2. db'.vols[u] = db.vols[u]
      BY <1>6, <3>1
    <3>3. ASSUME NEW n \in Nodes, JobFollows(n) PROVE JobFollows(n)'
      BY <1>1, <3>1, <3>2, <3>3 DEF JobFollows
    <3> QED BY <1>1, <1>6, <2>1, <3>1, <3>2, <3>3 DEF JobOK
  <2>2. CASE csi.job.kind # "publish"
    BY <1>1, <1>6, <1>8, <2>2 DEF JobOK
  <2> QED BY <1>1, <2>1, <2>2 DEF JobOK
<1> QED BY <1>9, <1>10, <1>11, <1>12 DEF VolumeInv

LEMMA OthersKeep == VolumeInv /\ Others /\ UNCHANGED csi => VolumeInv'
<1> SUFFICES ASSUME VolumeInv, Others, UNCHANGED csi PROVE VolumeInv'
  OBVIOUS
<1>1. VolumeTypes
  BY DEF VolumeInv
<1>2. ASSUME NEW t, Allocate(t) \/ Stop(t) \/ End(t) \/ Delete(t) PROVE VolumeInv'
  BY <1>1, <1>2, TaskDrift, DriftKeeps
<1>3. ASSUME NEW x, ChangeService(x) PROVE VolumeInv'
  BY <1>1, <1>3, ServiceDrift, DriftKeeps
<1>4. ASSUME NEW n, \/ Join(n) \/ Flip(n) \/ Halt(n) \/ Relabel(n) \/ RemoveNode(n)
                    \/ \E room : Resize(n, room)
      PROVE  VolumeInv'
  BY <1>1, <1>4, NodeDrift, DriftKeeps
<1>5. ASSUME NEW v \in left.new, CreateVolume(v) PROVE VolumeInv'
  BY <1>5, NewKeeps
<1>6. ASSUME NEW v \in DOMAIN db.vols, NEW avail \in {"active", "pause", "drain"},
             UpdateVolume(v, avail)
      PROVE  VolumeInv'
  BY <1>1, <1>6, UpdateDrift, DriftKeeps
<1>7. ASSUME NEW v \in DOMAIN db.vols, RemoveVolume(v) PROVE VolumeInv'
  BY <1>7, RemoveKeeps
<1> QED BY <1>2, <1>3, <1>4, <1>5, <1>6, <1>7 DEF Others

-----------------------------------------------------------------------------
(* The theorems                                                             *)

LEMMA VolumeInit == Init => VolumeInv
<1> SUFFICES ASSUME Init PROVE VolumeInv
  OBVIOUS
<1>1. /\ left \in Scenarios /\ csi = NewManager /\ Stored
  BY DEF Init, Stored
<1>2. "new" \in DOMAIN left /\ left.new \subseteq DOMAIN Volumes
  BY <1>1, ClusterAssumption
<1>3. PICK vol : vol = [NewVolume EXCEPT !.info = TRUE]
  OBVIOUS
<1>4. vol \in Vol /\ ~vol.deleting /\ \A n \in Nodes : vol.pub[n] = "no"
  BY <1>3 DEF NewVolume, Vol, PublishStates
<1>5. IsDb(db) /\ db.vols = [v \in DOMAIN Volumes \ left.new |-> vol]
  BY <1>1, <1>3 DEF Stored, IsDb
<1>6. DOMAIN db.vols = DOMAIN Volumes \ left.new /\ \A v \in DOMAIN db.vols : db.vols[v] = vol
  BY <1>5
<1>7. /\ csi \in Csi /\ csi.job = NoJob /\ csi.gone = {}
      /\ \A v \in DOMAIN Volumes : csi.attached[v] = {}
  BY <1>1 DEF NewManager, Csi
<1>8. VolumeTypes
  BY <1>2, <1>4, <1>5, <1>6, <1>7 DEF VolumeTypes, IsVols
<1>9. StatusesTrue
  BY <1>4, <1>6, <1>7 DEF StatusesTrue
<1>10. Deleting /\ Gone /\ Fresh /\ JobOK
  BY <1>4, <1>6, <1>7 DEF Deleting, Gone, Fresh, JobOK
<1> QED BY <1>8, <1>9, <1>10 DEF VolumeInv

LEMMA VolumeNext == VolumeInv /\ [Next]_vars => VolumeInv'
<1> SUFFICES ASSUME VolumeInv, [Next]_vars PROVE VolumeInv'
  OBVIOUS
<1>1. VolumeTypes
  BY DEF VolumeInv
<1>2. CASE Steps \/ Leader
  BY <1>1, <1>2, SchedulerDrift, DriftKeeps
<1>3. CASE Manage
  BY <1>3, ManageKeeps
<1>4. CASE Agents
  BY <1>1, <1>4, AgentDrift, DriftKeeps
<1>5. CASE Enforce /\ UNCHANGED csi
  BY <1>1, <1>5, EnforceDrift, DriftKeeps
<1>6. CASE Others /\ UNCHANGED csi
  BY <1>6, OthersKeep
<1>7. CASE UNCHANGED vars
  <2>1. UNCHANGED <<db, left, csi>>
    BY <1>7 DEF vars, store
  <2> QED BY <1>1, <2>1, DbFrame, LeftFrame, FrameDrift, DriftKeeps
<1> QED BY <1>2, <1>3, <1>4, <1>5, <1>6, <1>7 DEF Next, Progress

(* The inductive invariant: beside AttachedRecorded it says that no node    *)
(* has a volume that is being deleted, and that the statuses handleVolume   *)
(* works with, and those in the store by then, are ones from which its      *)
(* calls and its write are right, whatever scheduler, dispatcher and users  *)
(* have written meanwhile.                                                  *)
THEOREM VolumeInvariant == Spec => []VolumeInv
BY VolumeInit, VolumeNext, PTL DEF Spec

(* What the plugin has published has a status in the store and what is      *)
(* PUBLISHED there is published, although handleVolume overwrites statuses  *)
(* that freeVolumes and processUpdates wrote since it read them; and no     *)
(* volume is deleted while a node has it, although RemoveVolume only looks  *)
(* at the statuses there are.                                               *)
THEOREM AttachedAlwaysRecorded == Spec => []AttachedRecorded
<1>1. VolumeInv => AttachedRecorded
  <2> SUFFICES ASSUME VolumeInv PROVE AttachedRecorded
    OBVIOUS
  <2>1. VolumeTypes /\ StatusesTrue /\ Gone /\ JobOK
    BY DEF VolumeInv
  <2>2. DeletedUnattached
    BY <2>1, Busy DEF DeletedUnattached, Gone, JobOK
  <2> QED BY <2>1, <2>2 DEF AttachedRecorded
<1> QED BY <1>1, VolumeInvariant, PTL

-----------------------------------------------------------------------------
(* Sequences made of sets                                                   *)

LEMMA SetToSeqIn == ASSUME NEW S, IsFiniteSet(S) PROVE SetToSeq(S) \in Seq(S)
<1>1. PICK f \in Bijection(1..Cardinality(S), S) : TRUE
  BY FS_CardinalityType DEF ExistsBijection
<1>2. f \in [1..Cardinality(S) -> S] /\ IsInjective(f)
  BY <1>1 DEF Bijection, Injection, IsInjective
<1>3. SetToSeq(S) \in [1..Cardinality(S) -> S]
  BY <1>2 DEF SetToSeq
<1>4. Cardinality(S) \in Nat
  BY FS_CardinalityType
<1> QED BY <1>3, <1>4

LEMMA ImageFinite ==
  ASSUME NEW f, IsFiniteSet(DOMAIN f), f = [x \in DOMAIN f |-> f[x]]
  PROVE  IsFiniteSet({f[x] : x \in DOMAIN f})
<1>1. f \in Surjection(DOMAIN f, {f[x] : x \in DOMAIN f})
  BY DEF Surjection
<1> QED BY <1>1, FS_Surjection DEF ExistsSurjection

LEMMA Extended ==
  ASSUME NEW S, NEW R, NEW q \in Seq(S)
  PROVE  /\ q \in Seq(S \cup R)
         /\ \A e \in R : Append(q, e) \in Seq(S \cup R)
         /\ \A r \in Seq(R) : q \o r \in Seq(S \cup R)
OBVIOUS

-----------------------------------------------------------------------------
(* Decisions                                                                *)

IsTask(t) ==
  /\ t = [id |-> t.id, svc |-> t.svc, state |-> t.state, wanted |-> t.wanted,
          node |-> t.node, err |-> t.err, vol |-> t.vol, ver |-> t.ver]
  /\ t.id \in Tasks /\ t.state \in TaskStateNew..TaskStateDead /\ t.ver \in Nat

(* A copy of a task, of the version in the store or an older one. Who       *)
(* explains why a task waits changes the err of a copy, no more. The node   *)
(* of a task that is not assigned is the one it was created with.           *)
Copy(T, pre, t) ==
  /\ IsTask(t)
  /\ t.state <= TaskStatePending => t.node = pre[t.id]
  /\ t.id \in DOMAIN T =>
       LET u == T[t.id]
       IN  /\ t.ver <= u.ver
           /\ t.ver = u.ver => t.state = u.state /\ t.wanted = u.wanted /\ t.node = u.node

Copies(T, pre, f) == \A i \in DOMAIN f : f[i].id = i /\ Copy(T, pre, f[i])

(* Tasks that wait for a node, or for the one they were created with.       *)
Waiting(T, pre, f, free) ==
  /\ Copies(T, pre, f)
  /\ \A i \in DOMAIN f : f[i].state = TaskStatePending /\ (f[i].node = None <=> free)

EventTypes == {"task", "gone", "node", "nodegone", "volume"}

EventOK(T, pre, e) ==
  e.type \in EventTypes /\ (e.type = "task" => Copy(T, pre, e.obj))

QueueOK(T, pre, q) == \E S : q \in Seq(S) /\ \A e \in S : EventOK(T, pre, e)

IsPicture(p) ==
  p = [all |-> p.all, unassigned |-> p.unassigned, pre |-> p.pre,
       nodes |-> p.nodes, vols |-> p.vols]

PictureOK(T, pre, p) ==
  IsPicture(p) /\ Waiting(T, pre, p.unassigned, TRUE) /\ Waiting(T, pre, p.pre, FALSE)

(* A decision moves a waiting task forward, and gives it a node only when   *)
(* it has none.                                                             *)
Decision(T, pre, i, d, free) ==
  /\ Copy(T, pre, d.old) /\ IsTask(d.new) /\ d.old.id = i /\ d.new.id = i
  /\ d.old.state = TaskStatePending /\ (d.old.node = None <=> free)
  /\ d.new.state >= TaskStatePending /\ d.new.wanted = d.old.wanted /\ d.new.ver = d.old.ver
  /\ d.new.node # d.old.node => d.old.node = None /\ d.new.state > TaskStatePending

IsRun(r) ==
  r = [phase |-> r.phase, job |-> r.job, todo |-> r.todo, dec |-> r.dec, ok |-> r.ok,
       failed |-> r.failed, timer |-> r.timer, tick |-> r.tick]

RunOK(T, pre, p, r) ==
  /\ IsRun(r) /\ r.phase \in {"idle", "plan", "free"}
  /\ r.phase # "idle" =>
       /\ r.job \in {"pre", "tick"} /\ r.failed \subseteq DOMAIN r.dec
       /\ \A i \in DOMAIN r.dec : Decision(T, pre, i, r.dec[i], r.job = "tick")
  /\ r.phase = "plan" =>
       /\ Waiting(T, pre, r.todo, r.job = "tick")
       /\ r.job = "tick" =>
            \A i \in DOMAIN p.unassigned :
              /\ i \notin DOMAIN r.todo /\ i \in DOMAIN r.dec
              /\ r.dec[i].new.state = TaskStatePending

DecisionInv ==
  /\ IsDb(db) /\ {"new", "pre"} \subseteq DOMAIN left
  /\ Copies(db.tasks, left.pre, db.tasks) /\ QueueOK(db.tasks, left.pre, queue)
  /\ PictureOK(db.tasks, left.pre, s) /\ RunOK(db.tasks, left.pre, s, run)

-----------------------------------------------------------------------------
(* What others do to tasks                                                  *)

Forward(t, u) ==
  /\ IsTask(u) /\ u.id = t.id /\ u.ver > t.ver /\ u.state >= t.state
  /\ u.wanted => t.wanted
  /\ t.node # None => u.node = t.node
  /\ u.state <= TaskStatePending => u.node = t.node

TasksStep(f, g) ==
  DOMAIN g \subseteq DOMAIN f /\ \A i \in DOMAIN g : g[i] = f[i] \/ Forward(f[i], g[i])

EventNew(T, e) ==
  /\ e.type \in EventTypes
  /\ e.type = "task" => e.obj.id \in DOMAIN T /\ T[e.obj.id] = e.obj

Extends(q, r, R) == \A S : q \in Seq(S) => r \in Seq(S \cup R)

EventsNew(T, q, r) == \E R : Extends(q, r, R) /\ \A e \in R : EventNew(T, e)

PreSame == {"new", "pre"} \subseteq DOMAIN left' /\ left'.pre = left.pre

World ==
  /\ IsDb(db') /\ PreSame /\ TasksStep(db.tasks, db'.tasks)
  /\ EventsNew(db'.tasks, queue, queue')

LEMMA CopyStays ==
  ASSUME NEW T, NEW U, NEW pre, Copies(T, pre, T), TasksStep(T, U), NEW t, Copy(T, pre, t)
  PROVE  Copy(U, pre, t)
<1>1. CASE t.id \notin DOMAIN U
  BY <1>1 DEF Copy
<1>2. CASE t.id \in DOMAIN U
  <2>1. t.id \in DOMAIN T /\ (U[t.id] = T[t.id] \/ Forward(T[t.id], U[t.id]))
    BY <1>2 DEF TasksStep
  <2>2. IsTask(t) /\ IsTask(T[t.id]) /\ t.ver <= T[t.id].ver
    BY <2>1 DEF Copy, Copies
  <2>3. CASE U[t.id] = T[t.id]
    BY <1>2, <2>1, <2>3 DEF Copy
  <2>4. CASE Forward(T[t.id], U[t.id])
    <3>1. t.ver < U[t.id].ver
      BY <2>2, <2>4 DEF Forward, IsTask
    <3> QED BY <2>2, <2>4, <3>1 DEF Copy, IsTask, Forward
  <2> QED BY <2>1, <2>3, <2>4
<1> QED BY <1>1, <1>2

LEMMA StoredCopies ==
  ASSUME NEW T, NEW U, NEW pre, Copies(T, pre, T), TasksStep(T, U)
  PROVE  Copies(U, pre, U)
<1> SUFFICES ASSUME NEW i \in DOMAIN U PROVE U[i].id = i /\ Copy(U, pre, U[i])
  BY DEF Copies
<1>1. i \in DOMAIN T /\ T[i].id = i /\ Copy(T, pre, T[i]) /\ (U[i] = T[i] \/ Forward(T[i], U[i]))
  BY DEF TasksStep, Copies
<1>2. U[i].id = i /\ IsTask(U[i])
  BY <1>1 DEF Forward, Copy
<1>3. U[i].state <= TaskStatePending => U[i].node = pre[i]
  <2>1. CASE U[i] = T[i]
    BY <1>1, <2>1 DEF Copy
  <2>2. CASE Forward(T[i], U[i])
    <3>1. U[i].state <= TaskStatePending => T[i].state <= TaskStatePending
      BY <1>1, <1>2, <2>2 DEF Forward, Copy, IsTask, TaskStatePending, TaskStateNew, TaskStateDead
    <3> QED BY <1>1, <2>2, <3>1 DEF Forward, Copy
  <2> QED BY <1>1, <2>1, <2>2
<1> QED BY <1>2, <1>3 DEF Copy, IsTask

LEMMA WaitingStays ==
  ASSUME NEW T, NEW U, NEW pre, Copies(T, pre, T), TasksStep(T, U),
         NEW f, NEW free, Waiting(T, pre, f, free)
  PROVE  Waiting(U, pre, f, free)
BY CopyStays DEF Waiting, Copies

LEMMA RunStays ==
  ASSUME NEW T, NEW U, NEW pre, Copies(T, pre, T), TasksStep(T, U),
         NEW p, NEW r, RunOK(T, pre, p, r)
  PROVE  RunOK(U, pre, p, r)
<1>1. ASSUME NEW i, NEW d, Decision(T, pre, i, d, r.job = "tick")
      PROVE  Decision(U, pre, i, d, r.job = "tick")
  BY <1>1, CopyStays DEF Decision
<1>2. Waiting(T, pre, r.todo, r.job = "tick") => Waiting(U, pre, r.todo, r.job = "tick")
  BY WaitingStays
<1> QED BY <1>1, <1>2 DEF RunOK

LEMMA QueueStays ==
  ASSUME NEW T, NEW U, NEW pre, Copies(T, pre, T), TasksStep(T, U),
         NEW q, NEW r, QueueOK(T, pre, q), EventsNew(U, q, r)
  PROVE  QueueOK(U, pre, r)
<1>1. PICK S : q \in Seq(S) /\ \A e \in S : EventOK(T, pre, e)
  BY DEF QueueOK
<1>2. PICK R : Extends(q, r, R) /\ \A e \in R : EventNew(U, e)
  BY DEF EventsNew
<1>3. r \in Seq(S \cup R)
  BY <1>1, <1>2 DEF Extends
<1>4. \A e \in S : EventOK(U, pre, e)
  BY <1>1, CopyStays DEF EventOK
<1>5. \A e \in R : EventOK(U, pre, e)
  BY <1>2, StoredCopies DEF EventNew, EventOK, Copies
<1> QED BY <1>3, <1>4, <1>5 DEF QueueOK

LEMMA WorldKeeps ==
  ASSUME DecisionInv, World, UNCHANGED <<s, run>>
  PROVE  DecisionInv'
<1>1. /\ Copies(db.tasks, left.pre, db.tasks) /\ QueueOK(db.tasks, left.pre, queue)
      /\ PictureOK(db.tasks, left.pre, s) /\ RunOK(db.tasks, left.pre, s, run)
  BY DEF DecisionInv
<1>2. /\ IsDb(db') /\ PreSame /\ TasksStep(db.tasks, db'.tasks)
      /\ EventsNew(db'.tasks, queue, queue')
  BY DEF World
<1>3. left'.pre = left.pre /\ {"new", "pre"} \subseteq DOMAIN left'
  BY <1>2 DEF PreSame
<1>4. Copies(db'.tasks, left.pre, db'.tasks) /\ QueueOK(db'.tasks, left.pre, queue')
  BY <1>1, <1>2, StoredCopies, QueueStays
<1>5. PictureOK(db'.tasks, left.pre, s)
  BY <1>1, <1>2, WaitingStays DEF PictureOK
<1>6. RunOK(db'.tasks, left.pre, s, run)
  BY <1>1, <1>2, RunStays
<1> QED BY <1>2, <1>3, <1>4, <1>5, <1>6 DEF DecisionInv

LEMMA StoreTypes ==
  ASSUME DecisionInv
  PROVE  /\ IsDb(db) /\ "pre" \in DOMAIN left /\ "new" \in DOMAIN left
         /\ Copies(db.tasks, left.pre, db.tasks)
         /\ \A i \in DOMAIN db.tasks : db.tasks[i].id = i /\ IsTask(db.tasks[i])
BY DEF DecisionInv, Copies, Copy

LEMMA TasksFrame ==
  ASSUME DecisionInv
  PROVE  /\ db' = db => IsDb(db') /\ db'.tasks = db.tasks
         /\ \A x : db' = [db EXCEPT !.tasks = x] => IsDb(db') /\ db'.tasks = x
         /\ \A x : db' = [db EXCEPT !.nodes = x] => IsDb(db') /\ db'.tasks = db.tasks
         /\ \A x, y : db' = [db EXCEPT !.nodes = x, !.tasks = y] => IsDb(db') /\ db'.tasks = y
         /\ \A x, y : db' = [db EXCEPT !.services[x] = y] => IsDb(db') /\ db'.tasks = db.tasks
         /\ \A x : db' = [db EXCEPT !.vols = x] => IsDb(db') /\ db'.tasks = db.tasks
         /\ \A x, y : db' = [db EXCEPT !.tasks = x, !.vols = y] => IsDb(db') /\ db'.tasks = x
<1>1. IsDb(db)
  BY DEF DecisionInv
<1> QED BY <1>1 DEF IsDb

LEMMA PreFrame ==
  ASSUME DecisionInv
  PROVE  /\ left' = left => PreSame
         /\ \A k, x : k # "pre" /\ left' = [left EXCEPT ![k] = x] => PreSame
         /\ \A k : k # "pre" /\ Spend(k) => PreSame
<1>1. {"new", "pre"} \subseteq DOMAIN left
  BY DEF DecisionInv
<1>2. \A k, x : k # "pre" /\ left' = [left EXCEPT ![k] = x] => PreSame
  BY <1>1 DEF PreSame
<1> QED BY <1>1, <1>2 DEF PreSame, Spend

LEMMA NothingNew ==
  ASSUME NEW T, NEW q
  PROVE  EventsNew(T, q, q)
<1>1. Extends(q, q, {})
  BY DEF Extends
<1> QED BY <1>1 DEF EventsNew

(* Who writes no task but may tell of something else.                       *)
LEMMA OtherWorld ==
  ASSUME DecisionInv, IsDb(db'), db'.tasks = db.tasks, PreSame,
         \/ queue' = queue
         \/ \E e : e.type \in EventTypes \ {"task"} /\ queue' = Append(queue, e)
  PROVE  World
<1>1. TasksStep(db.tasks, db'.tasks)
  BY DEF TasksStep
<1>2. EventsNew(db'.tasks, queue, queue')
  <2>1. CASE queue' = queue
    BY <2>1, NothingNew
  <2>2. ASSUME NEW e, e.type \in EventTypes \ {"task"}, queue' = Append(queue, e)
        PROVE  EventsNew(db'.tasks, queue, queue')
    <3>1. Extends(queue, queue', {e})
      BY <2>2, Extended DEF Extends
    <3> QED BY <2>2, <3>1 DEF EventsNew, EventNew
  <2> QED BY <2>1, <2>2
<1> QED BY <1>1, <1>2 DEF World

(* One task is written, and is one version on.                              *)
LEMMA WriteWorld ==
  ASSUME DecisionInv, NEW t, t.id \in DOMAIN db.tasks, Write({t}), PreSame,
         Forward(db.tasks[t.id], NextVersion(t))
  PROVE  World
<1>1. PICK u : u = NextVersion(t)
  OBVIOUS
<1>2. u.id = t.id
  BY <1>1, StoreTypes DEF Forward
<1>3. {Event("task", NextVersion(x)) : x \in {t}} = {Event("task", u)}
  BY <1>1
<1>4. /\ queue' = queue \o SetToSeq({Event("task", u)})
      /\ db' = [db EXCEPT !.tasks = Overlay([i \in {x.id : x \in {t}} |->
                                  NextVersion(CHOOSE x \in {t} : x.id = i)], @)]
  BY <1>3 DEF Write
<1>5. [i \in {x.id : x \in {t}} |-> NextVersion(CHOOSE x \in {t} : x.id = i)]
        = [i \in {t.id} |-> u]
  BY <1>1
<1>6. db' = [db EXCEPT !.tasks = Overlay([i \in {t.id} |-> u], db.tasks)]
  BY <1>4, <1>5, StoreTypes
<1>7. IsDb(db') /\ db'.tasks = Overlay([i \in {t.id} |-> u], db.tasks)
  BY <1>6, TasksFrame
<1>8. /\ DOMAIN db'.tasks = DOMAIN db.tasks /\ db'.tasks[t.id] = u
      /\ \A i \in DOMAIN db.tasks : i # t.id => db'.tasks[i] = db.tasks[i]
  BY <1>7 DEF Overlay
<1>9. TasksStep(db.tasks, db'.tasks)
  BY <1>1, <1>8 DEF TasksStep
<1>10. EventNew(db'.tasks, Event("task", u))
  BY <1>2, <1>8 DEF EventNew, Event, EventTypes
<1>11. Extends(queue, queue', {Event("task", u)})
  <2>1. SetToSeq({Event("task", u)}) \in Seq({Event("task", u)})
    BY SetToSeqIn, FS_Singleton
  <2> QED BY <1>4, <2>1, Extended DEF Extends
<1> QED BY <1>7, <1>9, <1>10, <1>11 DEF World, EventsNew

LEMMA NextFields ==
  ASSUME NEW t, IsTask(t)
  PROVE  /\ IsTask(NextVersion(t)) /\ NextVersion(t).ver = t.ver + 1
         /\ NextVersion(t).id = t.id /\ NextVersion(t).state = t.state
         /\ NextVersion(t).wanted = t.wanted /\ NextVersion(t).node = t.node
<1>1. PICK n : n = t.ver + 1
  OBVIOUS
<1>2. NextVersion(t) = [id |-> t.id, svc |-> t.svc, state |-> t.state, wanted |-> t.wanted,
                        node |-> t.node, err |-> t.err, vol |-> t.vol, ver |-> n]
  BY <1>1 DEF NextVersion, IsTask
<1>3. n \in Nat
  BY <1>1 DEF IsTask
<1> QED BY <1>1, <1>2, <1>3 DEF IsTask

LEMMA ForwardState ==
  ASSUME NEW t, IsTask(t), NEW x \in TaskStateNew..TaskStateDead, x >= t.state,
         NEW w, w = [t EXCEPT !.state = x]
  PROVE  Forward(t, NextVersion(w)) /\ w.id = t.id
<1>1. IsTask(w) /\ w.id = t.id /\ w.state = x /\ w.wanted = t.wanted /\ w.node = t.node
      /\ w.ver = t.ver
  BY DEF IsTask
<1>2. PICK u : u = NextVersion(w)
  OBVIOUS
<1>3. IsTask(u) /\ u.ver = t.ver + 1 /\ u.id = t.id /\ u.state = x /\ u.wanted = t.wanted
      /\ u.node = t.node
  BY <1>1, <1>2, NextFields
<1> QED BY <1>1, <1>2, <1>3 DEF Forward, IsTask

LEMMA ForwardStop ==
  ASSUME NEW t, IsTask(t), NEW w, w = [t EXCEPT !.wanted = FALSE]
  PROVE  Forward(t, NextVersion(w)) /\ w.id = t.id
<1>1. IsTask(w) /\ w.id = t.id /\ w.state = t.state /\ ~w.wanted /\ w.node = t.node
      /\ w.ver = t.ver
  BY DEF IsTask
<1>2. PICK u : u = NextVersion(w)
  OBVIOUS
<1>3. IsTask(u) /\ u.ver = t.ver + 1 /\ u.id = t.id /\ u.state = t.state /\ u.wanted = w.wanted
      /\ u.node = t.node
  BY <1>1, <1>2, NextFields
<1>4. u.wanted => t.wanted
  BY <1>1, <1>3, Zenon
<1>5. u.ver > t.ver /\ u.state >= t.state
  BY <1>3 DEF IsTask, TaskStateNew, TaskStateDead
<1> QED BY <1>1, <1>2, <1>3, <1>4, <1>5 DEF Forward

LEMMA TaskWorld ==
  ASSUME DecisionInv, NEW t \in Range(db.tasks), Allocate(t) \/ Stop(t) \/ End(t) \/ Delete(t)
  PROVE  World
<1>1. t.id \in DOMAIN db.tasks /\ t = db.tasks[t.id] /\ IsTask(t)
  BY StoreTypes DEF Range
<1>2. CASE Allocate(t)
  <2>1. PICK u : u = [t EXCEPT !.state = TaskStatePending]
    OBVIOUS
  <2>2. Forward(t, NextVersion(u)) /\ u.id = t.id
    <3>1. TaskStatePending \in TaskStateNew..TaskStateDead /\ TaskStatePending >= t.state
      BY <1>2 DEF Allocate, TaskStateNew, TaskStatePending, TaskStateDead
    <3> QED BY <1>1, <2>1, <3>1, ForwardState
  <2> QED BY <1>1, <1>2, <2>1, <2>2, WriteWorld, PreFrame DEF Allocate
<1>3. CASE Stop(t)
  <2>1. PICK u : u = [t EXCEPT !.wanted = FALSE]
    OBVIOUS
  <2>2. Forward(t, NextVersion(u)) /\ u.id = t.id
    BY <1>1, <2>1, ForwardStop
  <2> QED BY <1>1, <1>3, <2>1, <2>2, WriteWorld, PreFrame DEF Stop
<1>4. CASE End(t)
  <2>1. PICK u : u = [t EXCEPT !.state = TaskStateDead]
    OBVIOUS
  <2>2. Forward(t, NextVersion(u)) /\ u.id = t.id
    <3>1. TaskStateDead \in TaskStateNew..TaskStateDead /\ TaskStateDead >= t.state
      BY <1>1 DEF IsTask, TaskStateNew, TaskStateDead
    <3> QED BY <1>1, <2>1, <3>1, ForwardState
  <2>3. PreSame
    BY <1>4, PreFrame DEF End
  <2> QED BY <1>1, <1>4, <2>1, <2>2, <2>3, WriteWorld DEF End
<1>5. CASE Delete(t)
  <2>1. IsDb(db') /\ db'.tasks = Drop(db.tasks, t.id)
    BY <1>5, StoreTypes DEF Delete, IsDb
  <2>2. /\ DOMAIN db'.tasks \subseteq DOMAIN db.tasks
        /\ \A i \in DOMAIN db'.tasks : db'.tasks[i] = db.tasks[i]
    BY <2>1 DEF Drop, Restrict
  <2>3. TasksStep(db.tasks, db'.tasks)
    BY <2>2 DEF TasksStep
  <2>4. PreSame
    <3>1. /\ {"new", "pre"} \subseteq DOMAIN left
          /\ left' = [left EXCEPT !.deletes = @ - 1, !.ghosts = @ \/ t.state = TaskStatePending]
      BY <1>5, StoreTypes DEF Delete
    <3> QED BY <3>1 DEF PreSame
  <2>5. Extends(queue, queue', {Event("gone", t)})
    BY <1>5, Extended DEF Extends, Delete
  <2>6. EventNew(db'.tasks, Event("gone", t))
    BY DEF EventNew, Event, EventTypes
  <2> QED BY <2>1, <2>3, <2>4, <2>5, <2>6 DEF World, EventsNew
<1> QED BY <1>2, <1>3, <1>4, <1>5

LEMMA EnforceWorld ==
  ASSUME DecisionInv, Enforce
  PROVE  World
<1>1. ASSUME NEW i \in DOMAIN db.tasks, Rejected(i), left' = left PROVE World
  <2>1. db.tasks[i].id = i /\ IsTask(db.tasks[i])
    BY StoreTypes
  <2>2. PICK u : u = [db.tasks[i] EXCEPT !.state = TaskStateDead]
    OBVIOUS
  <2>3. Forward(db.tasks[i], NextVersion(u)) /\ u.id = i
    <3>1. TaskStateDead \in TaskStateNew..TaskStateDead /\ TaskStateDead >= db.tasks[i].state
      BY <2>1 DEF IsTask, TaskStateNew, TaskStateDead
    <3> QED BY <2>1, <2>2, <3>1, ForwardState
  <2> QED BY <1>1, <2>2, <2>3, WriteWorld, PreFrame DEF Rejected
<1>2. CASE UNCHANGED <<db, queue, left>>
  BY <1>2, TasksFrame, PreFrame, OtherWorld
<1>3. CASE rejectNoncompliantTasks \/ \E v \in updates.vols : rejectVolumeUsers(v)
  <2>1. UNCHANGED <<db, queue, left>>
    BY <1>3 DEF rejectNoncompliantTasks, rejectVolumeUsers
  <2> QED BY <1>2, <2>1
<1>4. ASSUME NEW i, RejectUnfit(i) \/ RejectUser(i) PROVE World
  BY <1>1, <1>2, <1>4 DEF RejectUnfit, RejectUser
<1> QED BY <1>3, <1>4 DEF Enforce

LEMMA VolumeWorld ==
  ASSUME DecisionInv, NEW v, NEW vol, SetVolume(v, vol), PreSame
  PROVE  World
<1>1. IsDb(db') /\ db'.tasks = db.tasks
  BY TasksFrame DEF SetVolume
<1>2. PICK e : e = Event("volume", [id |-> v, vol |-> vol])
  OBVIOUS
<1>3. queue' = Append(queue, e) /\ e.type \in EventTypes \ {"task"}
  BY <1>2 DEF SetVolume, Event, EventTypes
<1> QED BY <1>1, <1>3, OtherWorld

LEMMA NodeWorld ==
  ASSUME DecisionInv, NEW node, SetNode(node), PreSame
  PROVE  World
<1>1. IsDb(db') /\ db'.tasks = db.tasks
  BY TasksFrame DEF SetNode
<1>2. PICK e : e = Event("node", node)
  OBVIOUS
<1>3. queue' = Append(queue, e) /\ e.type \in EventTypes \ {"task"}
  BY <1>2 DEF SetNode, Event, EventTypes
<1> QED BY <1>1, <1>3, OtherWorld

LEMMA QuietWorld ==
  ASSUME DecisionInv, UNCHANGED <<db, queue>>, PreSame
  PROVE  World
BY TasksFrame, OtherWorld

LEMMA ManageWorld ==
  ASSUME DecisionInv, Manage \/ Agents
  PROVE  World
<1>1. ASSUME NEW v, handleVolume(v) PROVE World
  BY <1>1, QuietWorld, PreFrame DEF handleVolume
<1>2. CASE Retry
  BY <1>2, QuietWorld, PreFrame DEF Retry
<1>3. CASE createVolume \/ WriteBack
  BY <1>2, <1>3, VolumeWorld, PreFrame DEF createVolume, WriteBack
<1>4. CASE deleteVolume
  <2>1. CASE UNCHANGED store
    BY <2>1, QuietWorld, PreFrame DEF store
  <2>2. CASE \E x : db' = [db EXCEPT !.vols = x] /\ queue' = queue /\ left' = left
    BY <2>2, TasksFrame, PreFrame, OtherWorld
  <2> QED BY <1>2, <1>4, <2>1, <2>2 DEF deleteVolume
<1>5. ASSUME NEW n, CallPlugin(n) PROVE World
  BY <1>5, QuietWorld, PreFrame DEF CallPlugin
<1>6. ASSUME NEW v, NEW n, AgentUnpublishes(v, n) PROVE World
  BY <1>6, QuietWorld, PreFrame DEF AgentUnpublishes, store
<1>7. ASSUME NEW v, NEW n, processUpdates(v, n) PROVE World
  BY <1>7, VolumeWorld, PreFrame DEF processUpdates
<1> QED BY <1>1, <1>3, <1>4, <1>5, <1>6, <1>7 DEF Manage, Agents

(* Several tasks are written at once.                                       *)
LEMMA ManyWritten ==
  ASSUME DecisionInv, NEW new, new = [i \in DOMAIN new |-> new[i]],
         DOMAIN new \subseteq DOMAIN db.tasks,
         \A i \in DOMAIN new : Forward(db.tasks[i], new[i]),
         db'.tasks = Overlay(new, db.tasks)
  PROVE  /\ TasksStep(db.tasks, db'.tasks) /\ DOMAIN db'.tasks = DOMAIN db.tasks
         /\ \A i \in DOMAIN new : db'.tasks[i] = new[i] /\ new[i].id = i
<1>1. /\ DOMAIN db'.tasks = DOMAIN db.tasks /\ \A i \in DOMAIN new : db'.tasks[i] = new[i]
      /\ \A i \in DOMAIN db.tasks : i \notin DOMAIN new => db'.tasks[i] = db.tasks[i]
  BY DEF Overlay
<1>2. \A i \in DOMAIN new : new[i].id = i
  BY StoreTypes DEF Forward
<1> QED BY <1>1, <1>2 DEF TasksStep

TaskEvents(new, own) ==
  {[type |-> "task", obj |-> t, own |-> own] : t \in Range(new)}

LEMMA ManyTold ==
  ASSUME NEW T, NEW new, new = [i \in DOMAIN new |-> new[i]], IsFiniteSet(DOMAIN new),
         \A i \in DOMAIN new : i \in DOMAIN T /\ T[i] = new[i] /\ new[i].id = i,
         NEW own
  PROVE  /\ SetToSeq(TaskEvents(new, own)) \in Seq(TaskEvents(new, own))
         /\ \A e \in TaskEvents(new, own) : EventNew(T, e)
<1>1. IsFiniteSet(TaskEvents(new, own))
  <2>1. PICK f : f = [i \in DOMAIN new |-> [type |-> "task", obj |-> new[i], own |-> own]]
    OBVIOUS
  <2>2. DOMAIN f = DOMAIN new /\ TaskEvents(new, own) = {f[i] : i \in DOMAIN f}
    BY <2>1 DEF TaskEvents, Range
  <2>3. f = [i \in DOMAIN f |-> f[i]]
    BY <2>1
  <2> QED BY <2>2, <2>3, ImageFinite
<1>2. \A e \in TaskEvents(new, own) : EventNew(T, e)
  BY DEF TaskEvents, EventNew, EventTypes, Range
<1> QED BY <1>1, <1>2, SetToSeqIn

LEMMA StoredFinite == DecisionInv => IsFiniteSet(DOMAIN db.tasks)
<1> SUFFICES ASSUME DecisionInv PROVE IsFiniteSet(DOMAIN db.tasks)
  OBVIOUS
<1>1. DOMAIN db.tasks \subseteq Tasks
  BY StoreTypes DEF IsTask
<1> QED BY <1>1, NodeInfoAssumption, FS_Subset

LEMMA RemoveNodeWorld ==
  ASSUME DecisionInv, NEW n, RemoveNode(n)
  PROVE  World
<1> DEFINE orphaned == {[t EXCEPT !.state = TaskStateDead] :
                          t \in {t \in Range(db.tasks) : t.state # TaskStateDead /\ t.node = n}}
           new == [i \in {t.id : t \in orphaned} |->
                     NextVersion(CHOOSE t \in orphaned : t.id = i)]
<1>1. /\ db' = [db EXCEPT !.nodes = Drop(@, n), !.tasks = Overlay(new, @)]
      /\ queue' = queue \o SetToSeq({Event("task", t) : t \in Range(new)})
                        \o <<Event("nodegone", n)>>
      /\ Spend("removals")
  BY DEF RemoveNode
<1>2. new = [i \in {t.id : t \in orphaned} |-> NextVersion(CHOOSE t \in orphaned : t.id = i)]
  OBVIOUS
<1> HIDE DEF new
<1>3. orphaned = {[t EXCEPT !.state = TaskStateDead] :
                    t \in {t \in Range(db.tasks) : t.state # TaskStateDead /\ t.node = n}}
  OBVIOUS
<1> HIDE DEF orphaned
<1>4. ASSUME NEW i \in DOMAIN new
      PROVE  i \in DOMAIN db.tasks /\ Forward(db.tasks[i], new[i])
  <2>1. PICK u \in orphaned : u.id = i /\ u = CHOOSE t \in orphaned : t.id = i
    BY <1>2
  <2>2. new[i] = NextVersion(u)
    BY <1>2, <2>1
  <2>3. PICK j \in DOMAIN db.tasks : u = [db.tasks[j] EXCEPT !.state = TaskStateDead]
    BY <1>3, <2>1 DEF Range
  <2>4. IsTask(db.tasks[j]) /\ db.tasks[j].id = j
    BY <2>3, StoreTypes
  <2>5. TaskStateDead \in TaskStateNew..TaskStateDead /\ TaskStateDead >= db.tasks[j].state
    BY <2>4 DEF IsTask, TaskStateNew, TaskStateDead
  <2>6. Forward(db.tasks[j], NextVersion(u)) /\ u.id = j
    BY <2>3, <2>4, <2>5, ForwardState
  <2> QED BY <2>1, <2>2, <2>3, <2>6
<1>5. new = [i \in DOMAIN new |-> new[i]] /\ DOMAIN new \subseteq DOMAIN db.tasks
  BY <1>2, <1>4
<1>6. IsFiniteSet(DOMAIN new)
  BY <1>5, StoredFinite, FS_Subset
<1>7. IsDb(db') /\ db'.tasks = Overlay(new, db.tasks)
  BY <1>1, StoreTypes DEF IsDb
<1>8. /\ TasksStep(db.tasks, db'.tasks) /\ DOMAIN db'.tasks = DOMAIN db.tasks
      /\ \A i \in DOMAIN new : i \in DOMAIN db'.tasks /\ db'.tasks[i] = new[i] /\ new[i].id = i
  BY <1>4, <1>5, <1>7, ManyWritten
<1>9. PICK E : E = TaskEvents(new, FALSE)
  OBVIOUS
<1>10. {Event("task", t) : t \in Range(new)} = E
  BY <1>9 DEF TaskEvents, Event
<1>11. SetToSeq(E) \in Seq(E) /\ \A e \in E : EventNew(db'.tasks, e)
  <2>1. PICK T : T = db'.tasks
    OBVIOUS
  <2>2. \A i \in DOMAIN new : i \in DOMAIN T /\ T[i] = new[i] /\ new[i].id = i
    BY <1>8, <2>1
  <2> QED BY <1>5, <1>6, <1>9, <2>1, <2>2, ManyTold
<1>12. PICK x : x = Event("nodegone", n)
  OBVIOUS
<1>13. Extends(queue, queue', E \cup {x})
  <2> SUFFICES ASSUME NEW S, queue \in Seq(S) PROVE queue' \in Seq(S \cup (E \cup {x}))
    BY DEF Extends
  <2>1. queue \o SetToSeq(E) \in Seq(S \cup E)
    BY <1>11, Extended
  <2>2. <<x>> \in Seq({x})
    OBVIOUS
  <2>3. queue' = (queue \o SetToSeq(E)) \o <<x>>
    BY <1>1, <1>10, <1>12
  <2>4. queue' \in Seq((S \cup E) \cup {x})
    BY <2>1, <2>2, <2>3, Extended
  <2>5. (S \cup E) \cup {x} = S \cup (E \cup {x})
    OBVIOUS
  <2> QED BY <2>4, <2>5
<1>14. EventNew(db'.tasks, x)
  BY <1>12 DEF EventNew, Event, EventTypes
<1>15. PreSame
  BY <1>1, PreFrame
<1> QED BY <1>7, <1>8, <1>11, <1>13, <1>14, <1>15 DEF World, EventsNew

LEMMA OthersWorld ==
  ASSUME DecisionInv, Others
  PROVE  World
<1>1. ASSUME NEW n, Join(n) PROVE World
  <2>1. PreSame
    BY <1>1, StoreTypes DEF Join, PreSame
  <2> QED BY <1>1, <2>1, NodeWorld DEF Join
<1>2. ASSUME NEW n, Flip(n) \/ Halt(n) \/ Relabel(n) \/ \E room : Resize(n, room) PROVE World
  <2>1. PreSame
    BY <1>2, PreFrame DEF Flip, Halt, Relabel, Resize
  <2> QED BY <1>2, <2>1, NodeWorld DEF Flip, Halt, Relabel, Resize, SetUpdated
<1>3. ASSUME NEW x, ChangeService(x) PROVE World
  <2>1. PreSame /\ IsDb(db') /\ db'.tasks = db.tasks /\ queue' = queue
    BY <1>3, PreFrame, TasksFrame DEF ChangeService
  <2> QED BY <2>1, OtherWorld
<1>4. ASSUME NEW v, CreateVolume(v) \/ (\E avail : UpdateVolume(v, avail)) \/ RemoveVolume(v)
      PROVE  World
  <2>1. PreSame
    BY <1>4, PreFrame DEF CreateVolume, UpdateVolume, RemoveVolume
  <2> QED BY <1>4, <2>1, VolumeWorld DEF CreateVolume, UpdateVolume, RemoveVolume
<1> QED BY <1>1, <1>2, <1>3, <1>4, TaskWorld, RemoveNodeWorld DEF Others

-----------------------------------------------------------------------------
(* The scheduler's picture                                                  *)

LEMMA PutWaiting ==
  ASSUME NEW T, NEW pre, NEW free, NEW f, Waiting(T, pre, f, free),
         NEW t, Copy(T, pre, t), t.state = TaskStatePending, t.node = None <=> free
  PROVE  Waiting(T, pre, Put(f, t.id, t), free)
BY DEF Waiting, Copies, Put

LEMMA RestWaiting ==
  ASSUME NEW T, NEW pre, NEW free, NEW f, Waiting(T, pre, f, free), NEW S \in SUBSET DOMAIN f
  PROVE  Waiting(T, pre, Restrict(f, S), free)
BY DEF Waiting, Copies, Restrict

LEMMA EmptyWaiting ==
  ASSUME NEW T, NEW pre, NEW free
  PROVE  Waiting(T, pre, Empty, free)
BY DEF Waiting, Copies, Empty

(* A change of a part of the picture that decides nothing.                  *)
LEMMA SamePicture ==
  ASSUME NEW T, NEW pre, NEW p, PictureOK(T, pre, p), NEW q, IsPicture(q),
         q.unassigned = p.unassigned, q.pre = p.pre
  PROVE  PictureOK(T, pre, q)
BY DEF PictureOK

LEMMA Deleted ==
  ASSUME NEW T, NEW pre, NEW p, PictureOK(T, pre, p), NEW S
  PROVE  PictureOK(T, pre, deleteTasks(p, S)) /\ deleteTasks(p, S).unassigned = p.unassigned
<1>1. PICK q : q = deleteTasks(p, S)
  OBVIOUS
<1>2. PICK D : D = DOMAIN p.pre \ {t.id : t \in S}
  OBVIOUS
<1>3. IsPicture(q) /\ q.unassigned = p.unassigned /\ q.pre = Restrict(p.pre, D)
  BY <1>1, <1>2 DEF deleteTasks, IsPicture, PictureOK
<1>4. Waiting(T, pre, q.pre, FALSE)
  BY <1>2, <1>3, RestWaiting DEF PictureOK
<1> QED BY <1>1, <1>3, <1>4 DEF PictureOK

LEMMA UpdatedPicture ==
  ASSUME NEW T, NEW pre, NEW p, PictureOK(T, pre, p), NEW t, Copy(T, pre, t)
  PROVE  PictureOK(T, pre, updateTask(p, t).s)
<1> DEFINE known == t.id \in DOMAIN p.all
           clean == IF known THEN deleteTask(p, p.all[t.id]) ELSE p
           kept == [clean EXCEPT !.all = Put(@, t.id, t)]
<1>1. PictureOK(T, pre, clean)
  BY Deleted DEF deleteTask
<1> HIDE DEF known, clean
<1>2. PictureOK(T, pre, kept)
  <2>1. IsPicture(kept) /\ kept.unassigned = clean.unassigned /\ kept.pre = clean.pre
    BY <1>1 DEF PictureOK, IsPicture
  <2> QED BY <1>1, <2>1, SamePicture
<1>3. CASE t.state = TaskStateNew
  <2>1. updateTask(p, t).s = p
    BY <1>3 DEF updateTask, TaskStateNew, TaskStateDead, TaskStatePending
  <2> QED BY <2>1
<1>4. CASE t.state = TaskStateDead
  <2>1. updateTask(p, t).s = clean
    BY <1>4 DEF updateTask, TaskStateNew, TaskStateDead, TaskStatePending, known, clean
  <2> QED BY <1>1, <2>1
<1>5. CASE t.state = TaskStatePending /\ t.node = None
  <2>1. PICK q : q = [kept EXCEPT !.unassigned = Put(@, t.id, t)]
    OBVIOUS
  <2>2. updateTask(p, t).s = q
    BY <1>5, <2>1 DEF updateTask, TaskStateNew, TaskStateDead, TaskStatePending, known, clean
  <2>3. IsPicture(q) /\ q.unassigned = Put(kept.unassigned, t.id, t) /\ q.pre = kept.pre
    BY <1>2, <2>1 DEF PictureOK, IsPicture
  <2>4. Waiting(T, pre, q.unassigned, TRUE)
    BY <1>2, <1>5, <2>3, PutWaiting DEF PictureOK
  <2> QED BY <1>2, <2>2, <2>3, <2>4 DEF PictureOK
<1>6. CASE t.state = TaskStatePending /\ t.node # None
  <2>1. PICK q : q = [kept EXCEPT !.pre = Put(@, t.id, t)]
    OBVIOUS
  <2>2. updateTask(p, t).s = q
    BY <1>6, <2>1 DEF updateTask, TaskStateNew, TaskStateDead, TaskStatePending, known, clean
  <2>3. IsPicture(q) /\ q.pre = Put(kept.pre, t.id, t) /\ q.unassigned = kept.unassigned
    BY <1>2, <2>1 DEF PictureOK, IsPicture
  <2>4. Waiting(T, pre, q.pre, FALSE)
    BY <1>2, <1>6, <2>3, PutWaiting DEF PictureOK
  <2> QED BY <1>2, <2>2, <2>3, <2>4 DEF PictureOK
<1>7. CASE t.state \notin {TaskStateNew, TaskStateDead, TaskStatePending}
  <2>1. PICK q : /\ updateTask(p, t).s = q
                 /\ \E x, y : q = [p EXCEPT !.all = x, !.nodes = y]
    BY <1>7 DEF updateTask
  <2>2. IsPicture(q) /\ q.unassigned = p.unassigned /\ q.pre = p.pre
    BY <2>1 DEF PictureOK, IsPicture
  <2> QED BY <2>1, <2>2, SamePicture
<1> QED BY <1>3, <1>4, <1>5, <1>6, <1>7

LEMMA HandledPicture ==
  ASSUME NEW T, NEW pre, NEW p, PictureOK(T, pre, p), NEW e, EventOK(T, pre, e)
  PROVE  PictureOK(T, pre, handle(p, e).s)
<1>1. CASE e.type = "task"
  <2>1. handle(p, e) = updateTask(p, e.obj) /\ Copy(T, pre, e.obj)
    BY <1>1 DEF handle, EventOK
  <2> QED BY <2>1, UpdatedPicture
<1>2. CASE e.type = "gone"
  BY <1>2, Deleted DEF handle, deleteTask
<1>3. ASSUME NEW q, q = p \/ (\E x : q = [p EXCEPT !.nodes = x]) \/ (\E x : q = [p EXCEPT !.vols = x])
      PROVE  PictureOK(T, pre, q)
  <2>1. IsPicture(q) /\ q.unassigned = p.unassigned /\ q.pre = p.pre
    BY <1>3 DEF PictureOK, IsPicture
  <2> QED BY <2>1, SamePicture
<1>4. CASE e.type = "node"
  <2>1. handle(p, e).s = createOrUpdateNode(p, e.obj)
    BY <1>4 DEF handle
  <2>2. \E x : createOrUpdateNode(p, e.obj) = [p EXCEPT !.nodes = x]
    BY DEF createOrUpdateNode, PictureOK, IsPicture
  <2> QED BY <1>3, <2>1, <2>2
<1>5. CASE e.type = "nodegone"
  <2>1. handle(p, e).s = [p EXCEPT !.nodes = Drop(@, e.obj)]
    BY <1>5 DEF handle
  <2>2. \E x : handle(p, e).s = [p EXCEPT !.nodes = x]
    BY <2>1 DEF PictureOK, IsPicture
  <2> QED BY <1>3, <2>2
<1>6. CASE e.type = "volume"
  <2>1. handle(p, e).s = addOrUpdateVolume(p, e.obj.id, e.obj.vol)
    BY <1>6 DEF handle
  <2>2. \/ addOrUpdateVolume(p, e.obj.id, e.obj.vol) = p
        \/ \E x : addOrUpdateVolume(p, e.obj.id, e.obj.vol) = [p EXCEPT !.vols = x]
    BY DEF addOrUpdateVolume, PictureOK, IsPicture
  <2> QED BY <1>3, <2>1, <2>2
<1> QED BY <1>1, <1>2, <1>4, <1>5, <1>6 DEF EventOK, EventTypes

LEMMA HandleDecisions ==
  ASSUME DecisionInv, Handle
  PROVE  DecisionInv' /\ TasksStep(db.tasks, db'.tasks)
<1>1. /\ PictureOK(db.tasks, left.pre, s) /\ RunOK(db.tasks, left.pre, s, run)
      /\ UNCHANGED <<db, left>> /\ queue # <<>> /\ queue' = Tail(queue) /\ run.phase = "idle"
  BY DEF DecisionInv, Handle
<1>2. PICK S : queue \in Seq(S) /\ \A e \in S : EventOK(db.tasks, left.pre, e)
  BY DEF DecisionInv, QueueOK
<1>3. Head(queue) \in S /\ queue' \in Seq(S)
  BY <1>1, <1>2
<1>4. QueueOK(db.tasks, left.pre, queue')
  BY <1>2, <1>3 DEF QueueOK
<1>5. PICK e : e = Head(queue) /\ EventOK(db.tasks, left.pre, e)
  BY <1>2, <1>3
<1>6. s' = handle(s, e).s /\ \E x : run' = [run EXCEPT !.timer = TRUE, !.tick = x]
  BY <1>1, <1>5 DEF Handle, RunOK, IsRun
<1>7. PictureOK(db.tasks, left.pre, s')
  BY <1>1, <1>5, <1>6, HandledPicture
<1>8. IsRun(run') /\ run'.phase = "idle"
  BY <1>1, <1>6 DEF RunOK, IsRun
<1>9. RunOK(db.tasks, left.pre, s', run')
  BY <1>8 DEF RunOK
<1>10. TasksStep(db.tasks, db'.tasks)
  BY <1>1 DEF TasksStep
<1> QED BY <1>1, <1>4, <1>7, <1>9, <1>10 DEF DecisionInv

(* Steps of the loop that write nothing to the store.                       *)
LEMMA SameStore ==
  ASSUME DecisionInv, UNCHANGED store,
         PictureOK(db.tasks, left.pre, s'), RunOK(db.tasks, left.pre, s', run')
  PROVE  DecisionInv' /\ TasksStep(db.tasks, db'.tasks)
<1>1. UNCHANGED <<db, queue, left>>
  BY DEF store
<1>2. TasksStep(db.tasks, db'.tasks)
  BY <1>1 DEF TasksStep
<1> QED BY <1>1, <1>2 DEF DecisionInv

LEMMA PlanningOK ==
  ASSUME NEW T, NEW pre, NEW p, NEW r, IsRun(r), NEW job \in {"pre", "tick"}, NEW todo,
         Waiting(T, pre, todo, job = "tick"), job = "tick" => p.unassigned = Empty
  PROVE  RunOK(T, pre, p, Planning(r, job, todo))
<1>1. PICK q : q = Planning(r, job, todo)
  OBVIOUS
<1>2. /\ IsRun(q) /\ q.phase = "plan" /\ q.job = job /\ q.todo = todo /\ q.dec = Empty
      /\ q.failed = {}
  BY <1>1 DEF Planning, IsRun
<1>3. DOMAIN Empty = {}
  BY DEF Empty
<1> QED BY <1>1, <1>2, <1>3 DEF RunOK

LEMMA StartTickOK ==
  ASSUME NEW T, NEW pre, NEW p, PictureOK(T, pre, p), NEW r, IsRun(r), StartTick(p, r)
  PROVE  PictureOK(T, pre, s') /\ RunOK(T, pre, s', run')
<1>1. s' = [p EXCEPT !.unassigned = Empty] /\ run' = Planning(r, "tick", p.unassigned)
  BY DEF StartTick
<1>2. IsPicture(s') /\ s'.unassigned = Empty /\ s'.pre = p.pre
  BY <1>1 DEF PictureOK, IsPicture
<1>3. PictureOK(T, pre, s')
  BY <1>2, EmptyWaiting DEF PictureOK
<1>4. PICK job \in {"pre", "tick"} : job = "tick"
  OBVIOUS
<1>5. Waiting(T, pre, p.unassigned, job = "tick")
  BY <1>4 DEF PictureOK
<1> QED BY <1>1, <1>2, <1>3, <1>4, <1>5, PlanningOK

LEMMA ScheduleDecisions ==
  ASSUME DecisionInv, Schedule
  PROVE  DecisionInv' /\ TasksStep(db.tasks, db'.tasks)
<1>1. /\ PictureOK(db.tasks, left.pre, s) /\ RunOK(db.tasks, left.pre, s, run)
      /\ UNCHANGED store /\ run.phase = "idle"
  BY DEF DecisionInv, Schedule
<1>2. PICK r : r = [run EXCEPT !.timer = FALSE]
  OBVIOUS
<1>3. IsRun(r) /\ r.phase = "idle"
  BY <1>1, <1>2 DEF RunOK, IsRun
<1>4. PictureOK(db.tasks, left.pre, s') /\ RunOK(db.tasks, left.pre, s', run')
  <2>1. CASE run' = Planning(r, "pre", s.pre) /\ s' = s
    <3>1. PICK job \in {"pre", "tick"} : job = "pre"
      OBVIOUS
    <3>2. Waiting(db.tasks, left.pre, s.pre, job = "tick")
      BY <1>1, <3>1 DEF PictureOK
    <3> QED BY <1>1, <1>3, <2>1, <3>1, <3>2, PlanningOK
  <2>2. CASE StartTick(s, r)
    BY <1>1, <1>3, <2>2, StartTickOK
  <2>3. CASE run' = r /\ s' = s
    BY <1>1, <1>3, <2>3 DEF RunOK
  <2> QED BY <1>2, <2>1, <2>2, <2>3 DEF Schedule
<1> QED BY <1>1, <1>4, SameStore

(* A task of a tick or of the preassigned ones is decided on.               *)
LEMMA DecideOK ==
  ASSUME NEW T, NEW pre, RunOK(T, pre, s, run), run.phase = "plan",
         NEW i \in DOMAIN run.todo, NEW old, old = run.todo[i],
         NEW p, PictureOK(T, pre, p),
         NEW new, IsTask(new), new.id = i, new.state >= TaskStatePending,
         new.wanted = old.wanted, new.ver = old.ver,
         new.node # old.node => old.node = None /\ new.state > TaskStatePending,
         \/ p.unassigned = s.unassigned
         \/ p.unassigned = Put(s.unassigned, i, new) /\ new.state = TaskStatePending,
         Decide(p, old, new)
  PROVE  PictureOK(T, pre, s') /\ RunOK(T, pre, s', run')
<1>1. /\ IsRun(run) /\ run.job \in {"pre", "tick"} /\ run.failed \subseteq DOMAIN run.dec
      /\ Waiting(T, pre, run.todo, run.job = "tick")
      /\ \A j \in DOMAIN run.dec : Decision(T, pre, j, run.dec[j], run.job = "tick")
  BY DEF RunOK
<1>2. /\ old.id = i /\ Copy(T, pre, old) /\ old.state = TaskStatePending
      /\ old.node = None <=> run.job = "tick"
  BY <1>1 DEF Waiting, Copies
<1>3. PICK d : d = [old |-> old, new |-> new]
  OBVIOUS
<1>4. Decision(T, pre, i, d, run.job = "tick")
  BY <1>2, <1>3 DEF Decision
<1>5. /\ s' = [p EXCEPT !.all = Put(@, new.id, new)]
      /\ run' = [run EXCEPT !.todo = Drop(@, i), !.dec = Put(@, i, d)]
  BY <1>2, <1>3 DEF Decide
<1>6. IsPicture(s') /\ s'.unassigned = p.unassigned /\ s'.pre = p.pre
  BY <1>5 DEF PictureOK, IsPicture
<1>7. PictureOK(T, pre, s')
  BY <1>6, SamePicture
<1>8. /\ IsRun(run') /\ run'.phase = "plan" /\ run'.job = run.job /\ run'.failed = run.failed
      /\ run'.todo = Drop(run.todo, i) /\ run'.dec = Put(run.dec, i, d)
  BY <1>1, <1>5 DEF IsRun
<1>9. Waiting(T, pre, run'.todo, run.job = "tick")
  BY <1>1, <1>8, RestWaiting DEF Drop
<1>10. /\ DOMAIN run'.dec = DOMAIN run.dec \cup {i} /\ run'.dec[i] = d
       /\ \A j \in DOMAIN run.dec : j # i => run'.dec[j] = run.dec[j]
       /\ DOMAIN run'.todo = DOMAIN run.todo \ {i}
  BY <1>8 DEF Put, Drop, Restrict
<1>11. \A j \in DOMAIN run'.dec : Decision(T, pre, j, run'.dec[j], run.job = "tick")
  BY <1>1, <1>4, <1>10
<1>12. ASSUME run.job = "tick", NEW j \in DOMAIN s'.unassigned
       PROVE  /\ j \notin DOMAIN run'.todo /\ j \in DOMAIN run'.dec
              /\ run'.dec[j].new.state = TaskStatePending
  <2>1. CASE j \in DOMAIN s.unassigned
    <3>1. j \notin DOMAIN run.todo /\ j \in DOMAIN run.dec /\ run.dec[j].new.state = TaskStatePending
      BY <1>12, <2>1 DEF RunOK
    <3> QED BY <1>10, <3>1
  <2>2. CASE j \notin DOMAIN s.unassigned
    <3>1. j = i /\ new.state = TaskStatePending
      BY <1>6, <1>12, <2>2 DEF Put
    <3> QED BY <1>3, <1>10, <3>1
  <2> QED BY <2>1, <2>2
<1>13. RunOK(T, pre, s', run')
  BY <1>1, <1>8, <1>9, <1>10, <1>11, <1>12 DEF RunOK
<1> QED BY <1>7, <1>13

LEMMA DropOK ==
  ASSUME NEW T, NEW pre, PictureOK(T, pre, s), RunOK(T, pre, s, run), run.phase = "plan",
         NEW i \in DOMAIN run.todo, s' = s, run' = [run EXCEPT !.todo = Drop(@, i)]
  PROVE  PictureOK(T, pre, s') /\ RunOK(T, pre, s', run')
<1>1. /\ IsRun(run') /\ run'.phase = "plan" /\ run'.job = run.job /\ run'.failed = run.failed
      /\ run'.todo = Drop(run.todo, i) /\ run'.dec = run.dec
  BY DEF RunOK, IsRun
<1>2. Waiting(T, pre, run'.todo, run.job = "tick")
  BY <1>1, RestWaiting DEF Drop, RunOK
<1>3. DOMAIN run'.todo \subseteq DOMAIN run.todo
  BY <1>1 DEF Drop, Restrict
<1> QED BY <1>1, <1>2, <1>3 DEF RunOK

LEMMA AssignedTask ==
  ASSUME NEW t, IsTask(t), NEW n
  PROVE  /\ IsTask(Assigned(t, n)) /\ Assigned(t, n).id = t.id /\ Assigned(t, n).node = n
         /\ Assigned(t, n).state = TaskStateAssigned /\ Assigned(t, n).wanted = t.wanted
         /\ Assigned(t, n).ver = t.ver
<1>1. PICK e, v : e = NoErr /\ v = Asked(t).volume
  OBVIOUS
<1>2. PICK u : u = [t EXCEPT !.state = TaskStateAssigned, !.node = n, !.err = e, !.vol = v]
  OBVIOUS
<1>3. u = Assigned(t, n)
  BY <1>1, <1>2 DEF Assigned
<1>4. TaskStateAssigned \in TaskStateNew..TaskStateDead
  BY DEF TaskStateAssigned, TaskStateNew, TaskStateDead
<1>5. /\ IsTask(u) /\ u.id = t.id /\ u.node = n /\ u.state = TaskStateAssigned
      /\ u.wanted = t.wanted /\ u.ver = t.ver
  BY <1>2, <1>4 DEF IsTask
<1> QED BY <1>3, <1>5

LEMMA ClaimedPicture ==
  ASSUME NEW T, NEW pre, NEW p, PictureOK(T, pre, p), NEW t
  PROVE  /\ PictureOK(T, pre, Claim(p, t)) /\ Claim(p, t).unassigned = p.unassigned
         /\ PictureOK(T, pre, Reserve(p, t)) /\ Reserve(p, t).unassigned = p.unassigned
<1>1. PICK q, r : q = Claim(p, t) /\ r = Reserve(p, t)
  OBVIOUS
<1>2. IsPicture(q) /\ q.unassigned = p.unassigned /\ q.pre = p.pre
  BY <1>1 DEF Claim, PictureOK, IsPicture
<1>3. IsPicture(r) /\ r.unassigned = p.unassigned /\ r.pre = p.pre
  BY <1>1 DEF Reserve, PictureOK, IsPicture
<1> QED BY <1>1, <1>2, <1>3, SamePicture

LEMMA FitOK ==
  ASSUME NEW T, NEW pre, PictureOK(T, pre, s), RunOK(T, pre, s, run), run.phase = "plan",
         NEW i \in DOMAIN run.todo, NEW t, t = run.todo[i], taskFitNode(t)
  PROVE  PictureOK(T, pre, s') /\ RunOK(T, pre, s', run')
<1>1. IsTask(t) /\ t.id = i /\ t.state = TaskStatePending
  BY DEF RunOK, Waiting, Copies, Copy
<1>2. CASE t.node \notin DOMAIN s.nodes
  <2>1. s' = s /\ run' = [run EXCEPT !.todo = Drop(@, i)]
    BY <1>1, <1>2 DEF taskFitNode
  <2> QED BY <2>1, DropOK
<1>3. ASSUME NEW err, Decide(s, t, [t EXCEPT !.err = err])
      PROVE  PictureOK(T, pre, s') /\ RunOK(T, pre, s', run')
  <2>1. PICK new : new = [t EXCEPT !.err = err]
    OBVIOUS
  <2>2. /\ IsTask(new) /\ new.id = i /\ new.state = TaskStatePending /\ new.wanted = t.wanted
        /\ new.ver = t.ver /\ new.node = t.node
    BY <1>1, <2>1 DEF IsTask
  <2>3. new.state >= TaskStatePending
    BY <2>2 DEF TaskStatePending
  <2> QED BY <1>3, <2>1, <2>2, <2>3, DecideOK
<1>4. CASE Decide(Claim(s, Assigned(t, t.node)), t, Assigned(t, t.node))
  <2>1. PICK new : new = Assigned(t, t.node)
    OBVIOUS
  <2>2. /\ IsTask(new) /\ new.id = i /\ new.wanted = t.wanted /\ new.ver = t.ver
        /\ new.node = t.node /\ new.state = TaskStateAssigned
    BY <1>1, <2>1, AssignedTask
  <2>3. new.state >= TaskStatePending
    BY <2>2 DEF TaskStatePending, TaskStateAssigned
  <2>4. PICK p : p = Claim(s, new) /\ PictureOK(T, pre, p) /\ p.unassigned = s.unassigned
    BY ClaimedPicture
  <2> QED BY <1>4, <2>1, <2>2, <2>3, <2>4, DecideOK
<1> QED BY <1>2, <1>3, <1>4 DEF taskFitNode

LEMMA PlaceOK ==
  ASSUME NEW T, NEW pre, PictureOK(T, pre, s), RunOK(T, pre, s, run), run.phase = "plan",
         run.job = "tick", NEW i \in DOMAIN run.todo, NEW t, t = run.todo[i], Place(t)
  PROVE  PictureOK(T, pre, s') /\ RunOK(T, pre, s', run')
<1>1. IsTask(t) /\ t.id = i /\ t.node = None
  BY DEF RunOK, Waiting, Copies, Copy
<1>2. PICK n, new : new = Assigned(t, n) /\ Decide(Claim(Reserve(s, new), new), t, new)
  BY DEF Place
<1>3. /\ IsTask(new) /\ new.id = i /\ new.wanted = t.wanted /\ new.ver = t.ver
      /\ new.state = TaskStateAssigned
  BY <1>1, <1>2, AssignedTask
<1>4. new.state >= TaskStatePending /\ new.state > TaskStatePending
  BY <1>3 DEF TaskStatePending, TaskStateAssigned
<1>5. PICK q : q = Reserve(s, new) /\ PictureOK(T, pre, q) /\ q.unassigned = s.unassigned
  BY ClaimedPicture
<1>6. PICK p : p = Claim(q, new) /\ PictureOK(T, pre, p) /\ p.unassigned = s.unassigned
  BY <1>5, ClaimedPicture
<1> QED BY <1>1, <1>2, <1>3, <1>4, <1>5, <1>6, DecideOK

LEMMA NoNodeOK ==
  ASSUME NEW T, NEW pre, PictureOK(T, pre, s), RunOK(T, pre, s, run), run.phase = "plan",
         run.job = "tick", NEW i \in DOMAIN run.todo, NEW t, t = run.todo[i], noSuitableNode(t)
  PROVE  PictureOK(T, pre, s') /\ RunOK(T, pre, s', run')
<1>1. /\ IsTask(t) /\ t.id = i /\ t.node = None /\ t.state = TaskStatePending
      /\ Copy(T, pre, t)
  BY DEF RunOK, Waiting, Copies, Copy
<1>2. t.state >= TaskStatePending /\ TaskStateDead >= TaskStatePending
  BY <1>1 DEF TaskStatePending, TaskStateDead
<1>3. CASE s' = s /\ run' = [run EXCEPT !.todo = Drop(@, t.id)]
  BY <1>1, <1>3, DropOK
<1>4. CASE Decide(s, t, t)
  BY <1>1, <1>2, <1>4, DecideOK
<1>5. CASE Decide(s, t, [t EXCEPT !.state = TaskStateDead, !.err = NoErr])
  <2>1. PICK new : new = [t EXCEPT !.state = TaskStateDead, !.err = NoErr]
    OBVIOUS
  <2>2. TaskStateDead \in TaskStateNew..TaskStateDead
    BY DEF TaskStateNew, TaskStateDead
  <2>3. /\ IsTask(new) /\ new.id = i /\ new.state = TaskStateDead /\ new.wanted = t.wanted
        /\ new.ver = t.ver /\ new.node = t.node
    BY <1>1, <2>1, <2>2 DEF IsTask
  <2> QED BY <1>2, <1>5, <2>1, <2>3, DecideOK
<1>6. ASSUME NEW err, NEW new, new = [t EXCEPT !.err = err],
             Decide([s EXCEPT !.unassigned = Put(@, t.id, new)], t, new)
      PROVE  PictureOK(T, pre, s') /\ RunOK(T, pre, s', run')
  <2>1. /\ IsTask(new) /\ new.id = i /\ new.state = TaskStatePending /\ new.wanted = t.wanted
        /\ new.ver = t.ver /\ new.node = t.node
    BY <1>1, <1>6 DEF IsTask
  <2>2. Copy(T, pre, new)
    BY <1>1, <2>1 DEF Copy
  <2>3. PICK p : p = [s EXCEPT !.unassigned = Put(@, t.id, new)]
    OBVIOUS
  <2>4. IsPicture(p) /\ p.unassigned = Put(s.unassigned, new.id, new) /\ p.pre = s.pre
    BY <1>1, <2>1, <2>3 DEF PictureOK, IsPicture
  <2>5. Waiting(T, pre, p.unassigned, TRUE)
    BY <1>1, <2>1, <2>2, <2>4, PutWaiting DEF PictureOK
  <2>6. PictureOK(T, pre, p)
    BY <2>4, <2>5 DEF PictureOK
  <2> QED BY <1>1, <1>2, <1>6, <2>1, <2>3, <2>4, <2>6, DecideOK
<1> QED BY <1>3, <1>4, <1>5, <1>6 DEF noSuitableNode

LEMMA PlanDecisions ==
  ASSUME DecisionInv, Plan
  PROVE  DecisionInv' /\ TasksStep(db.tasks, db'.tasks)
<1>1. /\ PictureOK(db.tasks, left.pre, s) /\ RunOK(db.tasks, left.pre, s, run)
      /\ UNCHANGED store /\ run.phase = "plan"
  BY DEF DecisionInv, Plan
<1>2. PICK i, t :
        /\ i \in DOMAIN run.todo /\ t = run.todo[i]
        /\ \/ run.job = "pre" /\ taskFitNode(t)
           \/ run.job = "tick" /\ (Place(t) \/ noSuitableNode(t))
  BY DEF Plan
<1>3. PictureOK(db.tasks, left.pre, s') /\ RunOK(db.tasks, left.pre, s', run')
  BY <1>1, <1>2, FitOK, PlaceOK, NoNodeOK
<1> QED BY <1>1, <1>3, SameStore

-----------------------------------------------------------------------------
(* The scheduler writes                                                     *)

VolumeEvents(vols, V) == {Own("volume", [id |-> v, vol |-> vols[v]]) : v \in V}

LEMMA VolumesTold ==
  ASSUME NEW T, NEW vols, NEW V \in SUBSET DOMAIN Volumes
  PROVE  /\ SetToSeq(VolumeEvents(vols, V)) \in Seq(VolumeEvents(vols, V))
         /\ \A e \in VolumeEvents(vols, V) : EventNew(T, e)
<1>1. IsFiniteSet(VolumeEvents(vols, V))
  <2>1. IsFiniteSet(V)
    BY NodeInfoAssumption, FS_Subset
  <2>2. PICK f : f = [v \in V |-> Own("volume", [id |-> v, vol |-> vols[v]])]
    OBVIOUS
  <2>3. /\ DOMAIN f = V /\ VolumeEvents(vols, V) = {f[v] : v \in DOMAIN f}
        /\ f = [v \in DOMAIN f |-> f[v]]
    BY <2>2 DEF VolumeEvents
  <2> QED BY <2>1, <2>3, ImageFinite
<1>2. \A e \in VolumeEvents(vols, V) : EventNew(T, e)
  BY DEF VolumeEvents, EventNew, EventTypes, Own
<1> QED BY <1>1, <1>2, SetToSeqIn

(* A decision that is not refused was made on the task as it is stored.     *)
LEMMA AppliedForward ==
  ASSUME NEW T, NEW pre, Copies(T, pre, T), NEW i \in DOMAIN T, NEW d, NEW free \in BOOLEAN,
         Decision(T, pre, i, d, free), T[i].ver = d.old.ver
  PROVE  Forward(T[i], NextVersion(d.new))
<1>1. /\ IsTask(T[i]) /\ T[i].id = i /\ IsTask(d.old) /\ IsTask(d.new) /\ d.new.id = i
      /\ T[i].state = d.old.state /\ T[i].wanted = d.old.wanted /\ T[i].node = d.old.node
      /\ d.old.state = TaskStatePending /\ d.new.ver = d.old.ver /\ d.new.wanted = d.old.wanted
      /\ d.new.state >= TaskStatePending
      /\ d.new.node # d.old.node => d.old.node = None /\ d.new.state > TaskStatePending
  BY DEF Decision, Copy, Copies
<1>2. PICK u : u = NextVersion(d.new)
  OBVIOUS
<1>3. /\ IsTask(u) /\ u.id = i /\ u.ver = T[i].ver + 1 /\ u.state = d.new.state
      /\ u.wanted = T[i].wanted /\ u.node = d.new.node
  BY <1>1, <1>2, NextFields
<1>4. u.ver > T[i].ver /\ u.state >= T[i].state
  BY <1>1, <1>3 DEF IsTask
<1>5. u.wanted => T[i].wanted
  BY <1>3, Zenon
<1>6. T[i].node # None => u.node = T[i].node
  BY <1>1, <1>3
<1>7. u.state <= TaskStatePending => u.node = T[i].node
  BY <1>1, <1>3 DEF TaskStatePending, IsTask, TaskStateNew, TaskStateDead
<1> QED BY <1>1, <1>2, <1>3, <1>4, <1>5, <1>6, <1>7 DEF Forward

LEMMA ApplyDecisions ==
  ASSUME DecisionInv, VolumeTypes, Apply
  PROVE  DecisionInv' /\ TasksStep(db.tasks, db'.tasks)
<1> DEFINE ok == DOMAIN run.dec \ (Missing \cup Unchanged \cup Refused)
           new == [i \in ok |-> NextVersion(run.dec[i].new)]
           vols == Published(db, Range(new))
           changed == {v \in DOMAIN vols : vols[v] # db.vols[v]}
           bare == deleteTasks(s, {run.dec[i].new : i \in Missing})
<1>1. /\ db' = [db EXCEPT !.tasks = Overlay(new, @), !.vols = vols]
      /\ s' = [bare EXCEPT !.all = Overlay(new, @),
                           !.unassigned = Overlay(Restrict(new, ok \cap DOMAIN @), @)]
      /\ run' = [run EXCEPT !.phase = "free", !.ok = ok, !.failed = Refused]
      /\ queue' = queue \o SetToSeq({Own("task", t) : t \in Range(new)})
                        \o SetToSeq({Own("volume", [id |-> v, vol |-> vols[v]]) : v \in changed})
      /\ \E x : left' = [left EXCEPT !.stale = x]
      /\ run.phase = "plan"
  BY DEF Apply
<1>2. new = [i \in ok |-> NextVersion(run.dec[i].new)] /\ DOMAIN new = ok
  OBVIOUS
<1>3. ok \subseteq DOMAIN run.dec /\ ok \cap Missing = {} /\ ok \cap Unchanged = {}
      /\ ok \cap Refused = {}
  OBVIOUS
<1>4. changed \subseteq DOMAIN Volumes
  BY DEF Published, VolumeTypes, IsVols
<1>5. PictureOK(db.tasks, left.pre, bare) /\ bare.unassigned = s.unassigned
  BY Deleted DEF DecisionInv
<1> HIDE DEF ok, new, vols, changed, bare
<1>6. /\ Copies(db.tasks, left.pre, db.tasks) /\ QueueOK(db.tasks, left.pre, queue)
      /\ PictureOK(db.tasks, left.pre, s) /\ RunOK(db.tasks, left.pre, s, run)
      /\ IsDb(db)
  BY DEF DecisionInv
<1>7. /\ IsRun(run) /\ run.job \in {"pre", "tick"}
      /\ \A i \in DOMAIN run.dec : Decision(db.tasks, left.pre, i, run.dec[i], run.job = "tick")
  BY <1>1, <1>6 DEF RunOK
<1>8. ASSUME NEW i \in DOMAIN new
      PROVE  i \in DOMAIN db.tasks /\ Forward(db.tasks[i], new[i])
  <2>1. i \in DOMAIN run.dec /\ i \in DOMAIN db.tasks /\ db.tasks[i].ver = run.dec[i].old.ver
    BY <1>2, <1>3, <1>8 DEF Missing, Refused
  <2>2. PICK free \in BOOLEAN : Decision(db.tasks, left.pre, i, run.dec[i], free)
    BY <1>7, <2>1
  <2> QED BY <1>2, <1>6, <1>8, <2>1, <2>2, AppliedForward
<1>9. new = [i \in DOMAIN new |-> new[i]] /\ DOMAIN new \subseteq DOMAIN db.tasks
  BY <1>2, <1>8
<1>10. IsDb(db') /\ db'.tasks = Overlay(new, db.tasks)
  BY <1>1, <1>6 DEF IsDb
<1>11. /\ TasksStep(db.tasks, db'.tasks) /\ DOMAIN db'.tasks = DOMAIN db.tasks
       /\ \A i \in DOMAIN new : i \in DOMAIN db'.tasks /\ db'.tasks[i] = new[i] /\ new[i].id = i
  BY <1>8, <1>9, <1>10, ManyWritten
<1>12. PICK T, pre : T = db'.tasks /\ pre = left.pre
  OBVIOUS
<1>13. Copies(T, pre, T)
  BY <1>6, <1>11, <1>12, StoredCopies
<1>14. EventsNew(T, queue, queue')
  <2>1. PICK E, F : E = TaskEvents(new, TRUE) /\ F = VolumeEvents(vols, changed)
    OBVIOUS
  <2>2. IsFiniteSet(DOMAIN new)
    BY <1>9, StoredFinite, FS_Subset
  <2>3. SetToSeq(E) \in Seq(E) /\ \A e \in E : EventNew(T, e)
    BY <1>9, <1>11, <1>12, <2>1, <2>2, ManyTold
  <2>4. SetToSeq(F) \in Seq(F) /\ \A e \in F : EventNew(T, e)
    BY <1>4, <2>1, VolumesTold
  <2>5. {Own("task", t) : t \in Range(new)} = E
    BY <2>1 DEF TaskEvents, Own
  <2>6. {Own("volume", [id |-> v, vol |-> vols[v]]) : v \in changed} = F
    BY <2>1 DEF VolumeEvents
  <2>7. queue' = (queue \o SetToSeq(E)) \o SetToSeq(F)
    BY <1>1, <2>5, <2>6
  <2>8. Extends(queue, queue', E \cup F)
    <3> SUFFICES ASSUME NEW S, queue \in Seq(S) PROVE queue' \in Seq(S \cup (E \cup F))
      BY DEF Extends
    <3>1. queue \o SetToSeq(E) \in Seq(S \cup E)
      BY <2>3, Extended
    <3>2. queue' \in Seq((S \cup E) \cup F)
      BY <2>4, <2>7, <3>1, Extended
    <3>3. (S \cup E) \cup F = S \cup (E \cup F)
      OBVIOUS
    <3> QED BY <3>2, <3>3
  <2> QED BY <2>3, <2>4, <2>8 DEF EventsNew
<1>15. QueueOK(T, pre, queue')
  BY <1>6, <1>11, <1>12, <1>14, QueueStays
<1>16. PICK una : una = Overlay(Restrict(new, ok \cap DOMAIN s.unassigned), s.unassigned)
  OBVIOUS
<1>17. IsPicture(s') /\ s'.unassigned = una /\ s'.pre = bare.pre
  BY <1>1, <1>5, <1>16 DEF PictureOK, IsPicture
<1>18. /\ DOMAIN una = DOMAIN s.unassigned
       /\ \A i \in DOMAIN una : una[i] = IF i \in ok THEN new[i] ELSE s.unassigned[i]
  BY <1>16 DEF Overlay, Restrict
<1>19. ASSUME NEW i \in DOMAIN una
       PROVE  /\ una[i].id = i /\ Copy(T, pre, una[i])
              /\ una[i].state = TaskStatePending /\ una[i].node = None
  <2>1. /\ i \in DOMAIN s.unassigned /\ s.unassigned[i].id = i
        /\ Copy(db.tasks, pre, s.unassigned[i])
        /\ s.unassigned[i].state = TaskStatePending /\ s.unassigned[i].node = None
    BY <1>6, <1>12, <1>18 DEF PictureOK, Waiting, Copies
  <2>2. CASE i \notin ok
    <3>1. Copy(T, pre, s.unassigned[i])
      BY <1>6, <1>11, <1>12, <2>1, CopyStays
    <3> QED BY <1>18, <2>1, <2>2, <3>1
  <2>3. CASE i \in ok
    <3>1. una[i] = new[i] /\ i \in DOMAIN T /\ T[i] = new[i] /\ new[i].id = i
      BY <1>2, <1>11, <1>12, <1>18, <2>3
    <3>2. Copy(T, pre, new[i])
      BY <1>13, <3>1 DEF Copies
    <3>3. PICK d : d = run.dec[i] /\ Decision(db.tasks, pre, i, d, run.job = "tick")
      BY <1>3, <1>7, <1>12, <2>3
    <3>4. d.old.node = pre[i] /\ pre[i] = None
      BY <2>1, <3>3 DEF Decision, Copy, TaskStatePending
    <3>5. run.job = "tick"
      BY <3>3, <3>4 DEF Decision
    <3>6. d.new.state = TaskStatePending
      BY <1>1, <1>6, <2>1, <3>3, <3>5 DEF RunOK
    <3>7. d.new.node = None /\ IsTask(d.new)
      BY <3>3, <3>4, <3>6 DEF Decision, TaskStatePending
    <3>8. new[i] = NextVersion(d.new)
      BY <1>2, <2>3, <3>3
    <3>9. new[i].state = TaskStatePending /\ new[i].node = None
      BY <3>6, <3>7, <3>8, NextFields
    <3> QED BY <3>1, <3>2, <3>9
  <2> QED BY <2>2, <2>3
<1>20. Waiting(T, pre, una, TRUE)
  BY <1>19 DEF Waiting, Copies
<1>21. Waiting(T, pre, bare.pre, FALSE)
  BY <1>5, <1>6, <1>11, <1>12, WaitingStays DEF PictureOK
<1>22. PictureOK(T, pre, s')
  BY <1>17, <1>20, <1>21 DEF PictureOK
<1>23. /\ IsRun(run') /\ run'.phase = "free" /\ run'.job = run.job /\ run'.dec = run.dec
       /\ run'.failed = Refused /\ Refused \subseteq DOMAIN run.dec
  BY <1>1, <1>7 DEF IsRun, Refused
<1>24. \A i \in DOMAIN run.dec : Decision(T, pre, i, run.dec[i], run.job = "tick")
  BY <1>6, <1>7, <1>11, <1>12, CopyStays DEF Decision
<1>25. RunOK(T, pre, s', run')
  BY <1>7, <1>23, <1>24 DEF RunOK
<1>26. PreSame
  BY <1>1, PreFrame
<1>27. left'.pre = pre /\ {"new", "pre"} \subseteq DOMAIN left'
  BY <1>12, <1>26 DEF PreSame
<1> QED BY <1>10, <1>11, <1>12, <1>13, <1>15, <1>22, <1>25, <1>27 DEF DecisionInv

LEMMA IdleRun ==
  ASSUME NEW a, NEW b, NEW q, q = [Idle EXCEPT !.timer = a, !.tick = b]
  PROVE  IsRun(q) /\ q.phase = "idle" /\ IsRun(Ticked(q)) /\ Ticked(q).phase = "idle"
<1>1. IsRun(q) /\ q.phase = "idle"
  BY DEF Idle, IsRun
<1>2. PICK w : w = [q EXCEPT !.tick = FALSE]
  OBVIOUS
<1>3. IsRun(w) /\ w.phase = "idle"
  BY <1>1, <1>2 DEF IsRun
<1> QED BY <1>1, <1>2, <1>3 DEF Ticked

LEMMA GivenBack ==
  ASSUME NEW q, IsPicture(q), NEW old, NEW new, NEW u, u = GiveBack(q, old, new)
  PROVE  IsPicture(u) /\ u.unassigned = q.unassigned /\ u.pre = q.pre
<1>1. PICK a, n, v : u = [q EXCEPT !.all = a, !.nodes = n, !.vols = v]
  BY DEF GiveBack
<1> QED BY <1>1 DEF IsPicture

LEMMA FinishDecisions ==
  ASSUME DecisionInv, VolumeTypes, Finish
  PROVE  DecisionInv' /\ TasksStep(db.tasks, db'.tasks)
<1> DEFINE vols == Freed(db, s.vols)
           changed == {v \in DOMAIN vols : vols[v] # db.vols[v]}
           again == [i \in run.failed |-> run.dec[i].old]
           undone == GiveBack(s, again, {run.dec[i].new : i \in run.failed})
           done == {i \in run.ok : Live(run.dec[i].new)}
           r == [Idle EXCEPT !.timer = run.timer, !.tick = run.tick]
           p == [undone EXCEPT !.pre = Restrict(@, DOMAIN @ \ done)]
<1>1. /\ run.phase = "free" /\ db' = [db EXCEPT !.vols = vols] /\ left' = left
      /\ queue' = queue \o SetToSeq({Own("volume", [id |-> v, vol |-> vols[v]]) : v \in changed})
      /\ \/ run.job = "tick" /\ s' = [undone EXCEPT !.unassigned = Overlay(again, @)]
            /\ run' = Ticked(r)
         \/ run.job = "pre" /\ (StartTick(p, r) \/ (s' = p /\ run' = r))
  BY DEF Finish
<1>2. changed \subseteq DOMAIN Volumes
  BY DEF Freed, VolumeTypes, IsVols
<1>3. IsRun(r) /\ r.phase = "idle" /\ IsRun(Ticked(r)) /\ Ticked(r).phase = "idle"
  BY IdleRun
<1>4. DOMAIN again = run.failed /\ \A i \in run.failed : again[i] = run.dec[i].old
  OBVIOUS
<1>5. IsPicture(undone) /\ undone.unassigned = s.unassigned /\ undone.pre = s.pre
  <2>1. IsPicture(s)
    BY DEF DecisionInv, PictureOK
  <2> QED BY <2>1, GivenBack
<1> HIDE DEF vols, changed, again, undone, done, r
<1>6. /\ Copies(db.tasks, left.pre, db.tasks) /\ QueueOK(db.tasks, left.pre, queue)
      /\ PictureOK(db.tasks, left.pre, s) /\ RunOK(db.tasks, left.pre, s, run)
  BY DEF DecisionInv
<1>7. IsDb(db') /\ db'.tasks = db.tasks
  BY <1>1, TasksFrame
<1>8. TasksStep(db.tasks, db'.tasks)
  BY <1>7 DEF TasksStep
<1>9. QueueOK(db.tasks, left.pre, queue')
  <2>1. PICK F : F = VolumeEvents(vols, changed)
    OBVIOUS
  <2>2. PICK T : T = db'.tasks
    OBVIOUS
  <2>3. SetToSeq(F) \in Seq(F) /\ \A e \in F : EventNew(T, e)
    BY <1>2, <2>1, VolumesTold
  <2>4. queue' = queue \o SetToSeq(F)
    BY <1>1, <2>1 DEF VolumeEvents
  <2>5. Extends(queue, queue', F)
    BY <2>3, <2>4, Extended DEF Extends
  <2>6. EventsNew(T, queue, queue')
    BY <2>3, <2>5 DEF EventsNew
  <2> QED BY <1>6, <1>7, <1>8, <2>2, <2>6, QueueStays
<1>10. PictureOK(db.tasks, left.pre, undone)
  BY <1>5, <1>6, SamePicture
<1>11. PictureOK(db.tasks, left.pre, s') /\ RunOK(db.tasks, left.pre, s', run')
  <2>1. CASE /\ run.job = "tick" /\ s' = [undone EXCEPT !.unassigned = Overlay(again, @)]
             /\ run' = Ticked(r)
    <3>1. PICK una : una = Overlay(again, s.unassigned)
      OBVIOUS
    <3>2. IsPicture(s') /\ s'.unassigned = una /\ s'.pre = s.pre
      BY <1>5, <2>1, <3>1 DEF IsPicture
    <3>3. Waiting(db.tasks, left.pre, una, TRUE)
      <4> SUFFICES ASSUME NEW i \in DOMAIN una
                   PROVE  /\ una[i].id = i /\ Copy(db.tasks, left.pre, una[i])
                          /\ una[i].state = TaskStatePending /\ una[i].node = None
        BY DEF Waiting, Copies
      <4>1. CASE i \in run.failed
        <5>1. una[i] = run.dec[i].old
          BY <1>4, <3>1, <4>1 DEF Overlay
        <5>2. Decision(db.tasks, left.pre, i, run.dec[i], run.job = "tick")
          BY <1>1, <1>6, <4>1 DEF RunOK
        <5> QED BY <2>1, <5>1, <5>2 DEF Decision
      <4>2. CASE i \notin run.failed
        <5>1. i \in DOMAIN s.unassigned /\ una[i] = s.unassigned[i]
          BY <1>4, <3>1, <4>2 DEF Overlay
        <5> QED BY <1>6, <5>1 DEF PictureOK, Waiting, Copies
      <4> QED BY <4>1, <4>2
    <3>4. PictureOK(db.tasks, left.pre, s')
      BY <1>6, <3>2, <3>3 DEF PictureOK
    <3>5. RunOK(db.tasks, left.pre, s', run')
      BY <1>3, <2>1 DEF RunOK
    <3> QED BY <3>4, <3>5
  <2>2. PICK q, D : q = p /\ D = DOMAIN s.pre \ done
    OBVIOUS
  <2>3. IsPicture(q) /\ q.unassigned = s.unassigned /\ q.pre = Restrict(s.pre, D)
    BY <1>5, <2>2 DEF IsPicture
  <2>4. Waiting(db.tasks, left.pre, q.pre, FALSE)
    BY <1>6, <2>2, <2>3, RestWaiting DEF PictureOK
  <2>5. PictureOK(db.tasks, left.pre, q)
    BY <1>6, <2>3, <2>4 DEF PictureOK
  <2>6. CASE StartTick(p, r)
    BY <1>3, <2>2, <2>5, <2>6, StartTickOK
  <2>7. CASE s' = p /\ run' = r
    BY <1>3, <2>2, <2>5, <2>7 DEF RunOK
  <2> QED BY <1>1, <2>1, <2>6, <2>7
<1> QED BY <1>1, <1>6, <1>7, <1>8, <1>9, <1>11 DEF DecisionInv

(* The picture of a new leader.                                             *)
LEMMA SetupOK ==
  ASSUME NEW d, NEW pre, Copies(d.tasks, pre, d.tasks)
  PROVE  PictureOK(d.tasks, pre, setupTasksList(d))
<1>1. PICK p : p = setupTasksList(d)
  OBVIOUS
<1>2. IsPicture(p)
  BY <1>1 DEF setupTasksList, IsPicture
<1>3. ASSUME NEW i \in DOMAIN p.unassigned
      PROVE  /\ p.unassigned[i].id = i /\ Copy(d.tasks, pre, p.unassigned[i])
             /\ p.unassigned[i].state = TaskStatePending /\ p.unassigned[i].node = None
  <2>1. PICK t \in Range(d.tasks) : t.id = i /\ t.state = TaskStatePending /\ t.node = None
    BY <1>1, <1>3 DEF setupTasksList
  <2>2. p.unassigned[i] = d.tasks[i]
    BY <1>1, <1>3 DEF setupTasksList
  <2> QED BY <2>1, <2>2 DEF Range, Copies
<1>4. ASSUME NEW i \in DOMAIN p.pre
      PROVE  /\ p.pre[i].id = i /\ Copy(d.tasks, pre, p.pre[i])
             /\ p.pre[i].state = TaskStatePending /\ p.pre[i].node # None
  <2>1. PICK t \in Range(d.tasks) : t.id = i /\ t.state = TaskStatePending /\ t.node # None
    BY <1>1, <1>4 DEF setupTasksList
  <2>2. p.pre[i] = d.tasks[i]
    BY <1>1, <1>4 DEF setupTasksList
  <2> QED BY <2>1, <2>2 DEF Range, Copies
<1> QED BY <1>1, <1>2, <1>3, <1>4 DEF PictureOK, Waiting, Copies

LEMMA BegunOK ==
  ASSUME NEW T, NEW pre, NEW p, PictureOK(T, pre, p)
  PROVE  RunOK(T, pre, p, Begun(p))
<1>1. PICK r : r = [Idle EXCEPT !.tick = TRUE]
  OBVIOUS
<1>2. IsRun(r)
  BY <1>1 DEF Idle, IsRun
<1>3. PICK job \in {"pre", "tick"} : job = "pre"
  OBVIOUS
<1>4. Waiting(T, pre, p.pre, job = "tick")
  BY <1>3 DEF PictureOK
<1> QED BY <1>1, <1>2, <1>3, <1>4, PlanningOK DEF Begun

LEMMA LeaderDecisions ==
  ASSUME DecisionInv, Leader
  PROVE  DecisionInv' /\ TasksStep(db.tasks, db'.tasks)
<1>1. /\ s' = setupTasksList(db) /\ run' = Begun(s') /\ queue' = <<>> /\ db' = db
      /\ Spend("leaders") /\ Copies(db.tasks, left.pre, db.tasks) /\ IsDb(db)
  BY DEF Leader, DecisionInv
<1>2. PictureOK(db.tasks, left.pre, s') /\ RunOK(db.tasks, left.pre, s', run')
  BY <1>1, SetupOK, BegunOK
<1>3. QueueOK(db.tasks, left.pre, queue')
  <2>1. queue' \in Seq({})
    BY <1>1
  <2> QED BY <2>1 DEF QueueOK
<1>4. PreSame /\ TasksStep(db.tasks, db'.tasks)
  BY <1>1, PreFrame DEF TasksStep
<1> QED BY <1>1, <1>2, <1>3, <1>4 DEF DecisionInv, PreSame

LEMMA DecisionInit == Init => DecisionInv
<1> SUFFICES ASSUME Init PROVE DecisionInv
  OBVIOUS
<1>1. left \in Scenarios /\ Stored /\ s = setupTasksList(db) /\ run = Begun(s) /\ queue = <<>>
  BY DEF Init, Stored
<1>2. {"new", "pre"} \subseteq DOMAIN left /\ DOMAIN left.of \subseteq Tasks
  BY <1>1, ClusterAssumption
<1>3. /\ IsDb(db)
      /\ db.tasks = [i \in DOMAIN left.of |->
                       [id |-> i, svc |-> left.of[i], state |-> TaskStateNew, wanted |-> TRUE,
                        node |-> left.pre[i], err |-> NoErr, vol |-> None, ver |-> 0]]
  BY <1>1 DEF Stored, IsDb
<1>4. Copies(db.tasks, left.pre, db.tasks)
  <2> SUFFICES ASSUME NEW i \in DOMAIN db.tasks
               PROVE  db.tasks[i].id = i /\ Copy(db.tasks, left.pre, db.tasks[i])
    BY DEF Copies
  <2>1. PICK t, e : /\ t = db.tasks[i] /\ e = NoErr
                    /\ t = [id |-> i, svc |-> left.of[i], state |-> TaskStateNew,
                            wanted |-> TRUE, node |-> left.pre[i], err |-> e, vol |-> None,
                            ver |-> 0]
    BY <1>3
  <2>2. i \in Tasks
    BY <1>2, <1>3
  <2>3. /\ t.id = i /\ t.state = TaskStateNew /\ t.node = left.pre[i] /\ t.ver = 0
        /\ t = [id |-> t.id, svc |-> t.svc, state |-> t.state, wanted |-> t.wanted,
                node |-> t.node, err |-> t.err, vol |-> t.vol, ver |-> t.ver]
    BY <2>1
  <2>4. IsTask(t)
    BY <2>2, <2>3 DEF IsTask, TaskStateNew, TaskStateDead
  <2>5. t.ver <= t.ver
    BY <2>3
  <2>6. t = db.tasks[i]
    BY <2>1
  <2> QED BY <2>3, <2>4, <2>5, <2>6 DEF Copy
<1>5. PictureOK(db.tasks, left.pre, s) /\ RunOK(db.tasks, left.pre, s, run)
  BY <1>1, <1>4, SetupOK, BegunOK
<1>6. QueueOK(db.tasks, left.pre, queue)
  <2>1. queue \in Seq({})
    BY <1>1
  <2> QED BY <2>1 DEF QueueOK
<1> QED BY <1>2, <1>3, <1>4, <1>5, <1>6 DEF DecisionInv

LEMMA DecisionNext ==
  DecisionInv /\ VolumeTypes /\ [Next]_vars => DecisionInv' /\ TasksStep(db.tasks, db'.tasks)
<1> SUFFICES ASSUME DecisionInv, VolumeTypes, [Next]_vars
             PROVE  DecisionInv' /\ TasksStep(db.tasks, db'.tasks)
  OBVIOUS
<1>1. ASSUME World, UNCHANGED <<s, run>>
      PROVE  DecisionInv' /\ TasksStep(db.tasks, db'.tasks)
  BY <1>1, WorldKeeps DEF World
<1>2. CASE Steps
  BY <1>2, HandleDecisions, ScheduleDecisions, PlanDecisions, ApplyDecisions, FinishDecisions
     DEF Steps
<1>3. CASE Leader
  BY <1>3, LeaderDecisions
<1>4. CASE (Manage \/ Agents) /\ UNCHANGED <<enf, s, run>>
  BY <1>1, <1>4, ManageWorld
<1>5. CASE Enforce /\ UNCHANGED <<csi, s, run>>
  BY <1>1, <1>5, EnforceWorld
<1>6. CASE Others /\ UNCHANGED <<csi, enf, s, run>>
  BY <1>1, <1>6, OthersWorld
<1>7. CASE UNCHANGED vars
  <2>1. UNCHANGED <<db, queue, left, s, run>>
    BY <1>7 DEF vars, store
  <2>2. World
    BY <2>1, QuietWorld, PreFrame
  <2> QED BY <1>1, <2>1, <2>2
<1> QED BY <1>2, <1>3, <1>4, <1>5, <1>6, <1>7 DEF Next, Progress

(* The inductive invariant: every copy of a task that waits in the picture  *)
(* or in the queue of events, is being planned or has been decided on is of *)
(* the stored version, and then the same but for the explanation, or of an  *)
(* older one; and a decision moves such a copy forward.                     *)
THEOREM DecisionInvariant == Spec => []DecisionInv
<1>1. VolumeInv => VolumeTypes
  BY DEF VolumeInv
<1> QED BY <1>1, DecisionInit, DecisionNext, VolumeInvariant, PTL DEF Spec

(* applySchedulingDecisions never undoes what others have written since the *)
(* copy was made that a decision rests on, however late the events reach    *)
(* the scheduler: tasks move forward, are assigned once and stay unwanted.  *)
THEOREM DecisionsAreFinal == Spec => DecisionsFinal
<1>1. ASSUME DecisionInv, VolumeTypes, [Next]_vars
      PROVE  [\A i \in DOMAIN db.tasks \cap DOMAIN db'.tasks :
                /\ db'.tasks[i].state >= db.tasks[i].state
                /\ db'.tasks[i].wanted => db.tasks[i].wanted
                /\ db.tasks[i].node # None => db'.tasks[i].node = db.tasks[i].node]_vars
  <2>1. TasksStep(db.tasks, db'.tasks)
    BY <1>1, DecisionNext
  <2>2. \A i \in DOMAIN db.tasks : db.tasks[i].state >= db.tasks[i].state
    <3> SUFFICES ASSUME NEW i \in DOMAIN db.tasks
                 PROVE  db.tasks[i].state >= db.tasks[i].state
      OBVIOUS
    <3>1. IsTask(db.tasks[i])
      BY <1>1, StoreTypes
    <3>2. PICK x : x = db.tasks[i].state
      OBVIOUS
    <3>3. x \in Int
      BY <3>1, <3>2 DEF IsTask, TaskStateNew, TaskStateDead
    <3> QED BY <3>2, <3>3
  <2> QED BY <2>1, <2>2 DEF TasksStep, Forward
<1>2. VolumeInv => VolumeTypes
  BY DEF VolumeInv
<1> QED BY <1>1, <1>2, DecisionInvariant, VolumeInvariant, PTL DEF Spec, DecisionsFinal

=============================================================================
