----------------------- MODULE SchedulerLimitsProofs ------------------------
(***************************************************************************)
(* Proof that the scheduler and the enforcers together keep every limit    *)
(* (WithinLimits of Scheduler), for any number of tasks, nodes, volumes    *)
(* and changes.                                                            *)
(***************************************************************************)
EXTENDS SchedulerPictureProofs

-----------------------------------------------------------------------------
(* The limits of nodes and volumes                                          *)

(* What the picture says of the tasks in the store.                         *)
LEMMA PicLimits ==
  ASSUME NEW l, LeftOK(l), NEW d, NEW q, NEW p, NEW r, Pic(l, d, q, p, r),
         \A v \in l.new : v \notin DOMAIN d.vols
  PROVE  /\ AllOK(l, d.tasks)
         /\ \A n \in DOMAIN d.nodes : NodeOK(l, n, d.nodes[n]) /\ Within(l, n, LiveAt(d.tasks, n))
         /\ \A v \in DOMAIN Volumes : ShareOK(l, d.tasks, v)
<1>1. PICK T, D, E : T = d.tasks /\ D = d.nodes /\ E = Range(q)
  OBVIOUS
<1>2. /\ RoomOK(l) /\ AllOK(l, T) /\ AllOK(l, p.all) /\ TaskPart(l, T, E, p, r)
      /\ NodePart(l, D, E, p.all, p.nodes) /\ VolPart(l, d.vols, E, p.all, p.vols)
  BY <1>1 DEF Pic, Kinds, LeftOK
<1>3. \A e \in E : EventFine(l, T, D, e)
  BY <1>1 DEF Pic, QueueInv, Range
<1>4. \A i : LiveIn(T, i) => LiveIn(T, i) /\ T[i] = T[i]
  OBVIOUS
<1>5. NodePart(l, D, {}, T, NodesOf(D, T))
  BY <1>2, <1>3, <1>4, NodesAnew
<1>6. VolPart(l, d.vols, {}, T, VolsOf(d.vols, T))
  BY <1>2, <1>4, VolsAnew
<1>7. DOMAIN NodesOf(D, T) = DOMAIN D
  BY DEF NodesOf
<1>8. \A n \in DOMAIN D : NodeOK(l, n, D[n]) /\ Within(l, n, LiveAt(T, n))
  BY <1>5, <1>7 DEF NodePart, NodePic
<1>9. \A v \in DOMAIN Volumes : ShareOK(l, T, v)
  BY <1>6 DEF VolPart, VolOK
<1> QED BY <1>1, <1>2, <1>8, <1>9

(* As many tasks as there are IDs of them.                                  *)
LEMMA TasksCounted ==
  ASSUME NEW f, IsFiniteSet(DOMAIN f), NEW S, S \subseteq DOMAIN f
  PROVE  /\ Cardinality({f[i] : i \in S}) <= Cardinality(S)
         /\ Cardinality({f[i] : i \in S}) \in Nat
<1>1. PICK X, g : X = {f[i] : i \in S} /\ g = [i \in S |-> f[i]]
  OBVIOUS
<1>2. IsFiniteSet(S)
  BY FS_Subset
<1>3. g \in Surjection(S, X)
  BY <1>1 DEF Surjection
<1>4. IsFiniteSet(X) /\ Cardinality(X) <= Cardinality(S)
  BY <1>2, <1>3, FS_Surjection
<1>5. Cardinality(X) \in Nat
  BY <1>4, FS_CardinalityType
<1> QED BY <1>1, <1>4, <1>5

(* All alike are one at most.                                               *)
LEMMA AtMostOne ==
  ASSUME NEW X, \A x, y \in X : x = y
  PROVE  Cardinality(X) <= 1
<1>1. CASE X = {}
  BY <1>1, FS_EmptySet
<1>2. CASE X # {}
  <2>1. PICK x : x \in X
    BY <1>2
  <2>2. X = {x}
    BY <2>1
  <2>3. Cardinality({x}) = 1
    BY FS_Singleton
  <2> QED BY <2>2, <2>3
<1> QED BY <1>1, <1>2

LEMMA NodesInLimits ==
  ASSUME Invs, Pic(left, db, queue, s, run)
  PROVE  NodesGuarded
<1>1. PICK l, d, T : l = left /\ d = db /\ T = d.tasks
  OBVIOUS
<1>2. LeftOK(l) /\ AllOK(l, T)
      /\ \A n \in DOMAIN d.nodes : NodeOK(l, n, d.nodes[n]) /\ Within(l, n, LiveAt(T, n))
  BY <1>1, InvTypes, PicLimits
<1>3. SUFFICES ASSUME NEW n \in DOMAIN d.nodes, NEW f, f = LiveAt(T, n)
               PROVE  /\ d.nodes[n].room = l.room[n] => reserved(f) <= d.nodes[n].room
                      /\ \A t, u \in Range(f) : t # u => Ports(t) \cap Ports(u) = {}
                      /\ \A x \in Services :
                           Specs[x].max > 0 =>
                             Cardinality({t \in Range(f) : t.svc = x /\ t.wanted}) <= Specs[x].max
  BY <1>1 DEF NodesGuarded, LiveOn
<1>4. Within(l, n, f) /\ Fine(f)
  BY <1>2, <1>3, LiveAtFine
<1>5. \A t, u \in Range(f) : t # u => Ports(t) \cap Ports(u) = {}
  BY <1>4 DEF Within, Apart, Range
<1>6. ASSUME NEW x \in Services, Specs[x].max > 0
      PROVE  Cardinality({t \in Range(f) : t.svc = x /\ t.wanted}) <= Specs[x].max
  <2>1. PICK S, X : S = ActiveTasks(f, x) /\ X = {t \in Range(f) : t.svc = x /\ t.wanted}
    OBVIOUS
  <2>2. S \subseteq DOMAIN f /\ Cardinality(S) \in Nat
    BY <1>4, <2>1, ActiveIn
  <2>3. X = {f[i] : i \in S}
    BY <2>1 DEF ActiveTasks, Range
  <2>4. IsFiniteSet(DOMAIN f)
    BY <1>4, NodeInfoAssumption, FS_Subset DEF Fine
  <2>5. Cardinality(X) <= Cardinality(S) /\ Cardinality(X) \in Nat
    BY <2>2, <2>3, <2>4, TasksCounted
  <2>6. Cardinality(S) <= Specs[x].max /\ Specs[x].max \in Nat
    BY <1>4, <1>6, <2>1, NodeInfoAssumption DEF Within
  <2> QED BY <2>1, <2>2, <2>5, <2>6
<1> QED BY <1>3, <1>4, <1>5, <1>6 DEF Within

LEMMA VolumesInLimits ==
  ASSUME Invs, Pic(left, db, queue, s, run), NEW v \in DOMAIN Volumes,
         NEW users, users = {t \in Range(db.tasks) : Live(t) /\ t.vol = v /\ Placed(t)}
  PROVE  /\ Volumes[v] = "none" => Cardinality(users) <= 1
         /\ Volumes[v] = "node" => Cardinality({t.node : t \in users}) <= 1
<1>1. PICK l, d, T : l = left /\ d = db /\ T = d.tasks
  OBVIOUS
<1>2. AllOK(l, T) /\ ShareOK(l, T, v)
  BY <1>1, InvTypes, PicLimits
<1>3. \A t \in users : Uses(l, T, t.id, v) /\ t = T[t.id]
  BY <1>1, <1>2 DEF Uses, LiveIn, AllOK, Range, Placed
<1>4. \A t, u \in users : /\ Volumes[v] = "none" => t = u
                          /\ Volumes[v] = "node" => t.node = u.node
  BY <1>2, <1>3 DEF ShareOK
<1>5. PICK X : X = {t.node : t \in users}
  OBVIOUS
<1>6. Volumes[v] = "node" => \A x, y \in X : x = y
  BY <1>4, <1>5
<1> QED BY <1>4, <1>5, <1>6, AtMostOne

-----------------------------------------------------------------------------
(* What the enforcers have yet to look at                                   *)

(* No task is live that was not, or has become wanted.                      *)
Calm(T, U) ==
  \A i : LiveIn(U, i) =>
    /\ LiveIn(T, i) /\ U[i].svc = T[i].svc /\ U[i].node = T[i].node /\ U[i].vol = T[i].vol
    /\ U[i].wanted => T[i].wanted

LEMMA CalmTasks ==
  ASSUME NEW l, NEW m, LeftStep(l, m), NEW T, NEW U, NEW E, NEW F, NEW p, NEW r,
         TaskPart(l, T, E, p, r), Kinds(l, T, p, r), TaskPart(m, U, F, p, r), Kinds(m, U, p, r),
         TasksStep(T, U)
  PROVE  Calm(T, U)
<1>1. SUFFICES ASSUME NEW i, LiveIn(U, i)
               PROVE  /\ LiveIn(T, i) /\ U[i].svc = T[i].svc /\ U[i].node = T[i].node
                      /\ U[i].vol = T[i].vol /\ (U[i].wanted => T[i].wanted)
  BY DEF Calm
<1>2. i \in DOMAIN U /\ i \in DOMAIN T /\ (U[i] = T[i] \/ Forward(T[i], U[i]))
  BY <1>1 DEF LiveIn, TasksStep
<1>3. Held(p, r, i) /\ Follows(p.all[i], T[i]) /\ Follows(p.all[i], U[i])
  BY <1>1, <1>2 DEF TaskPart, HeldOK
<1>4. TaskOK(l, T[i]) /\ TaskOK(m, U[i]) /\ T[i].id = i /\ U[i].id = i /\ m.of = l.of
  BY <1>2 DEF Kinds, AllOK, LeftStep
<1>5. U[i].svc = T[i].svc /\ U[i].node = T[i].node /\ U[i].vol = T[i].vol
  BY <1>3, <1>4 DEF TaskOK, Follows
<1>6. U[i].wanted => T[i].wanted
  BY <1>2 DEF Forward
<1>7. T[i].state \in Nat /\ T[i].state >= TaskStateAssigned /\ T[i].state <= U[i].state
  BY <1>2, <1>3, <1>4 DEF TaskOK, IsTask, Follows, Forward,
       TaskStateNew, TaskStatePending, TaskStateAssigned, TaskStateDead
<1>8. Live(T[i])
  BY <1>1, <1>7 DEF LiveIn, Live, TaskStateAssigned
<1> QED BY <1>2, <1>5, <1>6, <1>8 DEF LiveIn

Draining(W, v) == v \in DOMAIN W /\ W[v].avail = "drain"

(* A wanted task that uses a volume being drained is about to be rejected.  *)
Drains(T, W, V, X) ==
  \A i : LiveIn(T, i) /\ T[i].wanted /\ Draining(W, T[i].vol) => T[i].vol \in V \/ i \in X

VolsCalm(W, Y, V, V2) ==
  V \subseteq V2 /\ \A v : Draining(Y, v) => v \in V2 \/ Draining(W, v)

LEMMA DrainsCalm ==
  ASSUME NEW T, NEW U, Calm(T, U), NEW W, NEW Y, NEW V, NEW V2, VolsCalm(W, Y, V, V2),
         NEW X, Drains(T, W, V, X)
  PROVE  Drains(U, Y, V2, X)
BY DEF Drains, Calm, VolsCalm

-----------------------------------------------------------------------------
(* The wanted tasks of a node but those in X.                               *)
Burden(T, X, n) == Restrict(T, {i \in DOMAIN T : Wanted(T[i], n) /\ i \notin X})

Suits(node, f) ==
  reserved(f) <= node.room /\ \A i \in DOMAIN f : Asked(f[i]).label => node.label

LEMMA BurdenIn ==
  ASSUME NEW l, NEW T, AllOK(l, T), NEW X, NEW n, NEW f, f = Burden(T, X, n)
  PROVE  /\ \A i : i \in DOMAIN f <=> LiveIn(T, i) /\ T[i].node = n /\ T[i].wanted /\ i \notin X
         /\ \A i \in DOMAIN f : f[i] = T[i]
         /\ Fine(f)
<1>1. DOMAIN f = {i \in DOMAIN T : Wanted(T[i], n) /\ i \notin X} /\ \A i \in DOMAIN f : f[i] = T[i]
  BY DEF Burden, Restrict
<1>2. \A i : i \in DOMAIN f <=> LiveIn(T, i) /\ T[i].node = n /\ T[i].wanted /\ i \notin X
  BY <1>1 DEF Wanted, LiveIn
<1>3. Fine(f)
  BY <1>1 DEF Fine, AllOK, TaskOK, IsTask
<1> QED BY <1>1, <1>2, <1>3

(* Fewer tasks, and such as need nothing, need no more.                     *)
LEMMA ReservedLess ==
  ASSUME NEW f, Fine(f), NEW g, Fine(g),
         \A i \in DOMAIN f : Asked(f[i]).need = 0 \/ (i \in DOMAIN g /\ g[i].svc = f[i].svc)
  PROVE  reserved(f) <= reserved(g) /\ reserved(f) \in Nat /\ reserved(g) \in Nat
<1>1. PICK A, B : A = Units(f) /\ B = Units(g)
  OBVIOUS
<1>2. IsFiniteSet(A) /\ IsFiniteSet(B) /\ reserved(f) \in Nat /\ reserved(g) \in Nat
  BY <1>1, UnitsFinite
<1>3. ASSUME NEW u, u \in A PROVE u \in B
  <2>1. PICK i \in DOMAIN f : \E k \in 1..Asked(f[i]).need : u = <<i, k>>
    BY <1>1, <1>3, UnitsIn
  <2>2. PICK k \in 1..Asked(f[i]).need : u = <<i, k>>
    BY <2>1
  <2>3. Asked(f[i]).need # 0
    BY <2>2, NeedType
  <2>4. i \in DOMAIN g /\ Asked(g[i]) = Asked(f[i])
    BY <2>1, <2>3 DEF Asked
  <2>5. k \in 1..Asked(g[i]).need
    BY <2>2, <2>4
  <2> QED BY <1>1, <2>2, <2>4, <2>5, UnitsIn
<1>4. A \subseteq B
  BY <1>3
<1>5. Cardinality(A) <= Cardinality(B)
  BY <1>2, <1>4, FS_Subset
<1> QED BY <1>1, <1>2, <1>5 DEF reserved

(* A node that lacks nothing suits the tasks that are on it.                *)
LEMMA FullSuits ==
  ASSUME NEW l, RoomOK(l), NEW T, AllOK(l, T), NEW n, NEW node, NodeOK(l, n, node),
         Within(l, n, LiveAt(T, n)), ~(node.room < l.room[n] \/ ~node.label), NEW X
  PROVE  Suits(node, Burden(T, X, n))
<1>1. PICK f, g : f = Burden(T, X, n) /\ g = LiveAt(T, n)
  OBVIOUS
<1>2. /\ Fine(f) /\ Fine(g)
      /\ \A i \in DOMAIN f : i \in DOMAIN g /\ f[i] = g[i]
  BY <1>1, BurdenIn, LiveAtFine, LiveAtIn
<1>3. reserved(f) <= reserved(g) /\ reserved(f) \in Nat /\ reserved(g) \in Nat
  BY <1>2, ReservedLess
<1>4. reserved(g) <= l.room[n] /\ l.room[n] \in Nat /\ node.room \in Nat /\ node.room >= l.room[n]
  BY <1>1 DEF Within, RoomOK, NodeOK
<1> QED BY <1>1, <1>3, <1>4 DEF Suits

(* A node on which there is no other task suits as it did.                  *)
LEMMA SuitsLess ==
  ASSUME NEW l, NEW m, NEW T, AllOK(l, T), NEW U, AllOK(m, U), NEW X, NEW Y, NEW n, NEW node,
         node.room \in Nat, Suits(node, Burden(T, X, n)),
         \A i : LiveIn(U, i) /\ U[i].node = n /\ U[i].wanted /\ i \notin Y =>
           LiveIn(T, i) /\ T[i].node = n /\ T[i].wanted /\ i \notin X /\ T[i].svc = U[i].svc
  PROVE  Suits(node, Burden(U, Y, n))
<1>1. PICK f, g : f = Burden(T, X, n) /\ g = Burden(U, Y, n)
  OBVIOUS
<1>2. /\ Fine(f) /\ Fine(g)
      /\ \A i \in DOMAIN g : i \in DOMAIN f /\ f[i].svc = g[i].svc
  BY <1>1, BurdenIn
<1>3. reserved(g) <= reserved(f) /\ reserved(f) \in Nat /\ reserved(g) \in Nat
  BY <1>2, ReservedLess
<1>4. \A i \in DOMAIN g : Asked(g[i]).label => node.label
  BY <1>1, <1>2 DEF Suits, Asked
<1> QED BY <1>1, <1>3, <1>4 DEF Suits

(* A node that lacks something suits its wanted tasks, but for those that   *)
(* are about to be rejected, or is to be looked at.                         *)
Obeys(l, D, T, N, X) ==
  ~l.stale => \A n \in DOMAIN D : \/ D[n].state = "paused" \/ D[n] \in Range(N)
                                  \/ Suits(D[n], Burden(T, X, n))

NodesCalm(m, D, E, N, M) ==
  /\ Range(N) \subseteq Range(M)
  /\ \A n \in DOMAIN E : \/ n \in DOMAIN D /\ E[n] = D[n]
                         \/ E[n].state = "paused" \/ E[n] \in Range(M)
                         \/ ~(E[n].room < m.room[n] \/ ~E[n].label)

(* Whom the enforcer was to reject it will, or need not.                    *)
Still(U, X, Y) == \A i : LiveIn(U, i) /\ U[i].wanted /\ i \in X => i \in Y

LEMMA ObeysCalm ==
  ASSUME NEW l, NEW m, LeftStep(l, m), RoomOK(m), NEW T, AllOK(l, T), NEW U, AllOK(m, U),
         Calm(T, U), NEW D, NEW E, NEW N, NEW M, NodesCalm(m, D, E, N, M),
         \A n \in DOMAIN E : NodeOK(m, n, E[n]) /\ Within(m, n, LiveAt(U, n)),
         NEW X, NEW Y, Still(U, X, Y), Obeys(l, D, T, N, X)
  PROVE  Obeys(m, E, U, M, Y)
<1>1. SUFFICES ASSUME ~m.stale, NEW n \in DOMAIN E, E[n].state # "paused", E[n] \notin Range(M)
               PROVE  Suits(E[n], Burden(U, Y, n))
  BY DEF Obeys
<1>2. ~l.stale
  BY <1>1 DEF LeftStep
<1>3. CASE ~(E[n].room < m.room[n] \/ ~E[n].label)
  BY <1>1, <1>3, FullSuits
<1>4. CASE n \in DOMAIN D /\ E[n] = D[n]
  <2>1. Suits(D[n], Burden(T, X, n))
    BY <1>1, <1>2, <1>4 DEF Obeys, NodesCalm
  <2>2. \A i : LiveIn(U, i) /\ U[i].node = n /\ U[i].wanted /\ i \notin Y =>
           LiveIn(T, i) /\ T[i].node = n /\ T[i].wanted /\ i \notin X /\ T[i].svc = U[i].svc
    BY DEF Calm, Still
  <2>3. PICK node : node = E[n]
    OBVIOUS
  <2>4. node.room \in Nat /\ Suits(node, Burden(T, X, n))
    BY <1>4, <2>1, <2>3 DEF NodeOK
  <2>5. Suits(node, Burden(U, Y, n))
    BY <2>2, <2>4, SuitsLess
  <2> QED BY <2>3, <2>5
<1> QED BY <1>1, <1>3, <1>4 DEF NodesCalm

-----------------------------------------------------------------------------
(* What others do leaves nothing out that the enforcers have to see         *)

IsUpdates(u) == u = [nodes |-> u.nodes, vols |-> u.vols] /\ IsSeq(u.nodes)
IsEnf(x) == x = [unfit |-> x.unfit, users |-> x.users]

Gentle ==
  /\ IsUpdates(updates') /\ VolsCalm(db.vols, db'.vols, updates.vols, updates'.vols)
  /\ NodesCalm(left', db.nodes, db'.nodes, updates.nodes, updates'.nodes)

LEMMA NodesKept ==
  ASSUME NEW m, NEW D, NEW E, Subset(D, E), NEW N
  PROVE  NodesCalm(m, D, E, N, N)
BY DEF NodesCalm, Subset

LEMMA VolsKept ==
  ASSUME NEW W, NEW Y, Subset(W, Y), NEW V
  PROVE  VolsCalm(W, Y, V, V)
BY DEF VolsCalm, Subset, Draining

LEMMA QuietGentle ==
  ASSUME IsUpdates(updates), UNCHANGED updates, Subset(db.nodes, db'.nodes), Subset(db.vols, db'.vols)
  PROVE  Gentle
<1>1. PICK u, d, e, m : u = updates /\ d = db /\ e = db' /\ m = left'
  OBVIOUS
<1>2. IsUpdates(u) /\ u = updates' /\ Subset(d.nodes, e.nodes) /\ Subset(d.vols, e.vols)
  BY <1>1
<1>3. NodesCalm(m, d.nodes, e.nodes, u.nodes, u.nodes) /\ VolsCalm(d.vols, e.vols, u.vols, u.vols)
  BY <1>2, NodesKept, VolsKept
<1> QED BY <1>1, <1>2, <1>3 DEF Gentle

LEMMA SetGentle ==
  ASSUME Invs, IsUpdates(updates), NEW v, NEW vol, SetVolume(v, vol)
  PROVE  Gentle
<1>1. PICK u, w, d, e, m, V : /\ u = updates /\ w = updates' /\ d = db /\ e = db' /\ m = left'
                              /\ V = Drained(e.vols, {v})
  OBVIOUS
<1>2. e.nodes = d.nodes /\ e.vols = Put(d.vols, v, vol)
  <2>1. e = [d EXCEPT !.vols = Put(d.vols, v, vol)] /\ IsDb(d)
    BY <1>1, InvTypes DEF SetVolume
  <2> QED BY <2>1 DEF IsDb
<1>3. w.nodes = u.nodes /\ w.vols = u.vols \cup V /\ IsUpdates(w)
  <2>1. w = [u EXCEPT !.vols = u.vols \cup V] /\ u = [nodes |-> u.nodes, vols |-> u.vols] /\ IsSeq(u.nodes)
    BY <1>1, <1>2 DEF SetVolume, IsUpdates
  <2>2. w = [nodes |-> u.nodes, vols |-> u.vols \cup V]
    BY <2>1
  <2> QED BY <2>1, <2>2 DEF IsUpdates
<1>4. vol.avail = "drain" => v \in V
  BY <1>1, <1>2 DEF Drained, Put
<1>5. VolsCalm(d.vols, e.vols, u.vols, w.vols)
  BY <1>2, <1>3, <1>4 DEF VolsCalm, Draining, Put
<1>6. NodesCalm(m, d.nodes, e.nodes, u.nodes, w.nodes)
  BY <1>2, <1>3 DEF NodesCalm
<1> QED BY <1>1, <1>3, <1>5, <1>6 DEF Gentle

(* The enforcer is told of a node that lacks something.                     *)
LEMMA EnforcedIn ==
  ASSUME NEW N, IsFiniteSet(N), NEW w, w = Enforced(N)
  PROVE  /\ IsSeq(w)
         /\ \A node \in N : node.state # "paused" /\ Lacks(node) => node \in Range(w)
<1>1. PICK S : S = {node \in N : node.state # "paused" /\ Lacks(node)}
  OBVIOUS
<1>2. IsFiniteSet(S) /\ w = SetToSeq(S)
  BY <1>1, FS_Subset DEF Enforced
<1>3. IsSeq(w) /\ \A x \in S : \E a \in DOMAIN w : w[a] = x
  BY <1>2, SetToSeqAll
<1> QED BY <1>1, <1>3 DEF Range

LEMMA UpdatedGentle ==
  ASSUME Invs, IsUpdates(updates), LeftStep(left, left'), NEW node, NodeOK(left, node.id, node),
         SetUpdated(node)
  PROVE  Gentle
<1>1. PICK u, w, d, e, l, m, x : /\ u = updates /\ w = updates' /\ d = db /\ e = db'
                                 /\ l = left /\ m = left' /\ x = Enforced({node})
  OBVIOUS
<1>2. e.vols = d.vols /\ e.nodes = Put(d.nodes, node.id, node)
  <2>1. e = [d EXCEPT !.nodes = Put(d.nodes, node.id, node)] /\ IsDb(d)
    BY <1>1, InvTypes DEF SetUpdated, SetNode, IsDb
  <2> QED BY <2>1 DEF IsDb
<1>3. IsFiniteSet({node})
  BY FS_Singleton
<1>4. IsSeq(x) /\ (node.state # "paused" /\ Lacks(node) => node \in Range(x))
  BY <1>1, <1>3, EnforcedIn
<1>5. w.nodes = u.nodes \o x /\ w.vols = u.vols /\ w = [nodes |-> w.nodes, vols |-> w.vols]
  <2>1. w = [u EXCEPT !.nodes = u.nodes \o x] /\ u = [nodes |-> u.nodes, vols |-> u.vols]
    BY <1>1 DEF SetUpdated, IsUpdates
  <2>2. w = [nodes |-> u.nodes \o x, vols |-> u.vols]
    BY <2>1
  <2> QED BY <2>2
<1>6. PICK N, M : N = u.nodes /\ M = w.nodes
  OBVIOUS
<1>7. IsSeq(N) /\ M = N \o x
  BY <1>1, <1>5, <1>6 DEF IsUpdates
<1>8. IsSeq(M) /\ Range(M) = Range(N) \cup Range(x)
  BY <1>4, <1>7, CatRange
<1>9. m.room[node.id] = l.room[node.id]
  BY <1>1 DEF LeftStep, NodeOK
<1>10. Lacks(node) <=> node.room < m.room[node.id] \/ ~node.label
  BY <1>1, <1>9 DEF Lacks
<1>11. NodesCalm(m, d.nodes, e.nodes, N, M)
  BY <1>2, <1>4, <1>8, <1>10 DEF NodesCalm, Put
<1>12. VolsCalm(d.vols, e.vols, u.vols, w.vols)
  BY <1>2, <1>5 DEF VolsCalm
<1>13. IsUpdates(w)
  BY <1>5, <1>6, <1>8 DEF IsUpdates
<1> QED BY <1>1, <1>6, <1>11, <1>12, <1>13 DEF Gentle

LEMMA StoredGentle ==
  ASSUME Invs, IsUpdates(updates), UNCHANGED updates, NEW x, db' = [db EXCEPT !.tasks = x]
  PROVE  Gentle
<1>1. db'.nodes = db.nodes /\ db'.vols = db.vols
  BY InvTypes DEF IsDb
<1> QED BY <1>1, QuietGentle DEF Subset

LEMMA IdleGentle ==
  ASSUME IsUpdates(updates), UNCHANGED <<db, updates>>
  PROVE  Gentle
BY QuietGentle DEF Subset

LEMMA ManageGentle ==
  ASSUME Invs, IsUpdates(updates), Manage \/ Agents
  PROVE  Gentle
<1>1. CASE UNCHANGED <<db, updates>>
  BY <1>1, IdleGentle
<1>2. ASSUME NEW v, NEW vol, SetVolume(v, vol) PROVE Gentle
  BY <1>2, SetGentle
<1>3. ASSUME NEW v, db' = [db EXCEPT !.vols = Drop(@, v)], UNCHANGED updates PROVE Gentle
  <2>1. db'.nodes = db.nodes /\ db'.vols = Drop(db.vols, v)
    BY <1>3, InvTypes DEF IsDb
  <2> QED BY <1>3, <2>1, QuietGentle DEF Subset, Drop, Restrict
<1>4. CASE Retry
  BY <1>1, <1>4 DEF Retry
<1>5. CASE createVolume
  BY <1>2, <1>4, <1>5 DEF createVolume
<1>6. CASE WriteBack
  BY <1>2, <1>6 DEF WriteBack
<1>7. CASE deleteVolume
  BY <1>1, <1>3, <1>4, <1>7 DEF deleteVolume, store
<1>8. ASSUME NEW v, handleVolume(v) PROVE Gentle
  BY <1>1, <1>8 DEF handleVolume
<1>9. ASSUME NEW n, CallPlugin(n) PROVE Gentle
  BY <1>1, <1>9 DEF CallPlugin
<1>10. ASSUME NEW v, NEW n, AgentUnpublishes(v, n) PROVE Gentle
  BY <1>1, <1>10 DEF AgentUnpublishes, store
<1>11. ASSUME NEW v, NEW n, processUpdates(v, n) PROVE Gentle
  BY <1>2, <1>11 DEF processUpdates
<1> QED BY <1>5, <1>6, <1>7, <1>8, <1>9, <1>10, <1>11 DEF Manage, Agents

LEMMA NodeGentle ==
  ASSUME Invs, IsUpdates(updates), Pic(left, db, queue, s, run), LeftStep(left, left'),
         NEW n \in DOMAIN db.nodes,
         \/ Flip(n) \/ Halt(n) \/ Relabel(n) \/ \E room \in 0..left.room[n] : Resize(n, room)
  PROVE  Gentle
<1>1. PICK old : old = db.nodes[n]
  OBVIOUS
<1>2. NodeOK(left, n, old) /\ old.id = n /\ left.room[n] \in Nat
  BY <1>1, InvTypes DEF Pic, NodePart, NodeOK, LeftOK, RoomOK
<1>3. ASSUME NEW node, SetUpdated(node), node.id = n, NodeOK(left, n, node) PROVE Gentle
  BY <1>3, UpdatedGentle
<1>4. \A x, node : node = [old EXCEPT !.state = x] => node.id = n /\ NodeOK(left, n, node)
  BY <1>2 DEF NodeOK
<1>5. \A x, node : x \in Nat /\ x <= left.room[n] /\ node = [old EXCEPT !.room = x] =>
        node.id = n /\ NodeOK(left, n, node)
  BY <1>2 DEF NodeOK
<1>6. \A x, node : x \in BOOLEAN /\ node = [old EXCEPT !.label = x] =>
        node.id = n /\ NodeOK(left, n, node)
  BY <1>2 DEF NodeOK
<1>7. CASE Flip(n) \/ Halt(n)
  <2>1. PICK x : SetUpdated([old EXCEPT !.state = x])
    BY <1>1, <1>7 DEF Flip, Halt
  <2> QED BY <1>3, <1>4, <2>1
<1>8. CASE Relabel(n)
  <2>1. PICK x : x = ~old.label
    OBVIOUS
  <2>2. x \in BOOLEAN
    BY <2>1
  <2>3. SetUpdated([old EXCEPT !.label = x])
    BY <1>1, <1>8, <2>1 DEF Relabel
  <2> QED BY <1>3, <1>6, <2>2, <2>3
<1>9. ASSUME NEW x \in 0..left.room[n], Resize(n, x) PROVE Gentle
  <2>1. SetUpdated([old EXCEPT !.room = x])
    BY <1>1, <1>9 DEF Resize
  <2>2. x \in Nat /\ x <= left.room[n]
    BY <1>2, <1>9
  <2> QED BY <1>3, <1>5, <2>1, <2>2
<1> QED BY <1>7, <1>8, <1>9

LEMMA JoinGentle ==
  ASSUME Invs, IsUpdates(updates), NEW n, Join(n)
  PROVE  Gentle
<1>1. PICK u, d, e, m, node : /\ u = updates /\ d = db /\ e = db' /\ m = left'
                              /\ node = Node(n, 1)
  OBVIOUS
<1>2. e.vols = d.vols /\ e.nodes = Put(d.nodes, n, node)
  <2>1. node.id = n
    BY <1>1 DEF Node
  <2>2. e = [d EXCEPT !.nodes = Put(d.nodes, n, node)] /\ IsDb(d)
    BY <1>1, <2>1, InvTypes DEF Join, SetNode
  <2> QED BY <2>2 DEF IsDb
<1>3. m.room[n] = 1
  <2>1. "room" \in DOMAIN left
    BY InvTypes DEF LeftOK
  <2> QED BY <1>1, <2>1 DEF Join, Put
<1>4. ~(node.room < m.room[n] \/ ~node.label)
  <2>1. node.room = 1
    BY <1>1 DEF Node
  <2>2. node.label
    BY <1>1 DEF Node
  <2> QED BY <1>3, <2>1, <2>2
<1>5. NodesCalm(m, d.nodes, e.nodes, u.nodes, u.nodes)
  BY <1>2, <1>4 DEF NodesCalm, Put
<1>6. VolsCalm(d.vols, e.vols, u.vols, u.vols)
  BY <1>2 DEF VolsCalm
<1>7. IsUpdates(u) /\ updates' = u
  BY <1>1 DEF Join
<1> QED BY <1>1, <1>5, <1>6, <1>7 DEF Gentle

LEMMA OthersGentle ==
  ASSUME Invs, IsUpdates(updates), Pic(left, db, queue, s, run), LeftStep(left, left'), Others
  PROVE  Gentle
<1>1. ASSUME NEW t, Allocate(t) \/ Stop(t) \/ End(t) \/ Delete(t), UNCHANGED updates PROVE Gentle
  <2>1. PICK x : db' = [db EXCEPT !.tasks = x]
    BY <1>1 DEF Allocate, Stop, End, Delete, Write
  <2> QED BY <1>1, <2>1, StoredGentle
<1>2. ASSUME NEW x, ChangeService(x), UNCHANGED updates PROVE Gentle
  <2>1. db'.nodes = db.nodes /\ db'.vols = db.vols
    BY <1>2, InvTypes DEF ChangeService, IsDb
  <2> QED BY <1>2, <2>1, QuietGentle DEF Subset
<1>3. ASSUME NEW n \in DOMAIN db.nodes, RemoveNode(n) PROVE Gentle
  <2>1. PICK x : db' = [db EXCEPT !.nodes = Drop(@, n), !.tasks = x]
    BY <1>3 DEF RemoveNode
  <2>2. db'.nodes = Drop(db.nodes, n) /\ db'.vols = db.vols
    BY <2>1, InvTypes DEF IsDb
  <2>3. Subset(db.nodes, db'.nodes) /\ Subset(db.vols, db'.vols)
    BY <2>2 DEF Subset, Drop, Restrict
  <2>4. UNCHANGED updates
    BY <1>3 DEF RemoveNode
  <2> QED BY <2>3, <2>4, QuietGentle
<1>4. ASSUME NEW v, CreateVolume(v) PROVE Gentle
  BY <1>4, SetGentle DEF CreateVolume
<1>5. ASSUME NEW v, NEW avail, UpdateVolume(v, avail) PROVE Gentle
  BY <1>5, SetGentle DEF UpdateVolume
<1>6. ASSUME NEW v, RemoveVolume(v) PROVE Gentle
  BY <1>6, SetGentle DEF RemoveVolume
<1> QED BY <1>1, <1>2, <1>3, <1>4, <1>5, <1>6, NodeGentle, JoinGentle DEF Others

-----------------------------------------------------------------------------
(* What a pass has claimed on a node fits the node as the picture has it    *)

FitsIn(N, t) ==
  /\ t.node \in DOMAIN N /\ (Asked(t).label => N[t.node].node.label)
  /\ Asked(t).need > 0 => N[t.node].avail >= 0

ClaimsIn(N, dec) == \A i \in DOMAIN dec : Live(dec[i].new) => FitsIn(N, dec[i].new)

ClaimsFit(p, r) == r.phase = "plan" => ClaimsIn(p.nodes, r.dec)

LEMMA AvailAdded ==
  ASSUME NEW node, NEW f, NEW ni, ni = newNodeInfo(node, f), NEW t, NEW m, m = addTask(ni, t)
  PROVE  m.node = ni.node /\ (m.avail = ni.avail - Asked(t).need \/ m.avail = ni.avail - 0)
<1>1. ni = [node |-> node, tasks |-> ni.tasks, avail |-> ni.avail, ports |-> ni.ports, active |-> ni.active]
  BY DEF newNodeInfo
<1>2. PICK a, n, c, x : /\ m = [ni EXCEPT !.tasks = a, !.active[t.svc] = n, !.avail = ni.avail - x,
                                          !.ports = c]
                        /\ x = IF t.id \in DOMAIN ni.tasks THEN 0 ELSE Asked(t).need
  BY <1>1, ZenonT(40) DEF addTask
<1>3. m.node = ni.node /\ m.avail = ni.avail - x
  BY <1>1, <1>2
<1> QED BY <1>2, <1>3

LEMMA ClaimsAdded ==
  ASSUME NEW l, NEW A, AllOK(l, A), NEW N, NodePic(l, A, N), NEW dec, ClaimsIn(N, dec),
         NEW t, t.node \in DOMAIN N, t.svc \in Services, NEW V, NEW u, u.svc = t.svc,
         Process(N[t.node], V, u), NEW i, NEW old
  PROVE  ClaimsIn(Added(N, t), Put(dec, i, [old |-> old, new |-> t]))
<1>1. PICK n, ni, f, m, M : /\ n = t.node /\ ni = N[n] /\ f = LiveAt(A, n) /\ m = addTask(ni, t)
                            /\ M = Added(N, t)
  OBVIOUS
<1>2. ni = newNodeInfo(ni.node, f) /\ ni.node.room \in Nat /\ Fine(f)
  BY <1>1, LiveAtFine DEF NodePic, NodeOK
<1>3. ni.avail \in Int
  <2>1. reserved(f) \in Nat /\ ni.avail = ni.node.room - reserved(f)
    BY <1>2, UnitsFinite DEF newNodeInfo
  <2> QED BY <1>2, <2>1
<1>4. m.node = ni.node /\ (m.avail = ni.avail - Asked(t).need \/ m.avail = ni.avail - 0)
  BY <1>1, <1>2, AvailAdded
<1>5. Asked(t).need \in Nat
  BY NodeInfoAssumption DEF Asked
<1>6. /\ Asked(t).need > 0 => Asked(t).need <= ni.avail
      /\ Asked(t).label => ni.node.label
  BY <1>1 DEF Process, Check, ReadyFilter, ResourceFilter, ConstraintFilter, HostPortFilter,
                MaxReplicasFilter, VolumesFilter, Filters, Asked
<1>7. DOMAIN M = DOMAIN N /\ M[n] = m /\ \A k \in DOMAIN N : k # n => M[k] = N[k]
  BY <1>1 DEF Added, NodePic
<1>8. FitsIn(M, t)
  BY <1>1, <1>3, <1>4, <1>5, <1>6, <1>7 DEF FitsIn
<1>9. ASSUME NEW x, FitsIn(N, x) PROVE FitsIn(M, x)
  <2>1. CASE x.node # n
    BY <1>7, <1>9, <2>1 DEF FitsIn
  <2>2. CASE x.node = n
    <3>1. ni.avail >= 0 => m.avail >= 0
      BY <1>3, <1>4, <1>5, <1>6
    <3> QED BY <1>1, <1>4, <1>7, <1>9, <2>2, <3>1 DEF FitsIn
  <2> QED BY <2>1, <2>2
<1>10. PICK d2, c : d2 = Put(dec, i, c) /\ c = [old |-> old, new |-> t]
  OBVIOUS
<1>11. c.new = t /\ DOMAIN d2 = DOMAIN dec \cup {i} /\ d2[i] = c
       /\ \A k \in DOMAIN dec : k # i => d2[k] = dec[k]
  BY <1>10 DEF Put
<1>12. ClaimsIn(M, d2)
  BY <1>8, <1>9, <1>11 DEF ClaimsIn
<1> QED BY <1>1, <1>10, <1>12

LEMMA ClaimsNoted ==
  ASSUME NEW N, NEW dec, ClaimsIn(N, dec), NEW t, ~Live(t), NEW i, NEW old
  PROVE  ClaimsIn(N, Put(dec, i, [old |-> old, new |-> t]))
<1>1. PICK d2, c : d2 = Put(dec, i, c) /\ c = [old |-> old, new |-> t]
  OBVIOUS
<1>2. c.new = t /\ DOMAIN d2 = DOMAIN dec \cup {i} /\ d2[i] = c
       /\ \A k \in DOMAIN dec : k # i => d2[k] = dec[k]
  BY <1>1 DEF Put
<1>3. ClaimsIn(N, d2)
  BY <1>2 DEF ClaimsIn
<1> QED BY <1>1, <1>3

LEMMA ClaimsDecided ==
  ASSUME NEW p0, IsPicture(p0), NEW r, IsRun(r), NEW p2, NEW r2, NEW old, NEW new,
         Decided(p0, r, p2, r2, old, new),
         ClaimsIn(p0.nodes, Put(r.dec, old.id, [old |-> old, new |-> new]))
  PROVE  ClaimsIn(p2.nodes, r2.dec)
<1>1. p2.nodes = p0.nodes
  BY DEF Decided, IsPicture
<1>2. r2.dec = Put(r.dec, old.id, [old |-> old, new |-> new])
  BY DEF Decided, IsRun
<1> QED BY <1>1, <1>2

LEMMA ClaimsWait ==
  ASSUME NEW p0, IsPicture(p0), NEW r, IsRun(r), NEW p2, NEW r2, NEW old, NEW new,
         Decided(p0, r, p2, r2, old, new), ~Live(new), ClaimsIn(p0.nodes, r.dec)
  PROVE  ClaimsIn(p2.nodes, r2.dec)
BY ClaimsNoted, ClaimsDecided

LEMMA ClaimsPlaced ==
  ASSUME NEW l, NEW d, NEW q, NEW p, NEW r, NEW i, NEW t, Plans(l, d, q, p, r, i, t),
         ClaimsIn(p.nodes, r.dec), NEW n \in DOMAIN p.nodes, NEW V, Process(p.nodes[n], V, t),
         NEW new, new = Assigned(t, n), NEW p0, IsPicture(p0), p0.nodes = Added(p.nodes, new),
         NEW p2, NEW r2, Decided(p0, r, p2, r2, t, new)
  PROVE  ClaimsIn(p2.nodes, r2.dec)
<1>1. Places(l, t, n, new)
  BY PlacedTask
<1>2. AllOK(l, p.all) /\ NodePic(l, p.all, p.nodes) /\ IsRun(r)
  BY DEF Plans, Pic, Kinds, NodePart
<1>3. new.node = n /\ new.svc = t.svc /\ new.svc \in Services
  BY <1>1 DEF Places, TaskOK
<1>4. PICK A, N, dec : A = p.all /\ N = p.nodes /\ dec = r.dec
  OBVIOUS
<1>5. ClaimsIn(Added(N, new), Put(dec, t.id, [old |-> t, new |-> new]))
  BY <1>2, <1>3, <1>4, ClaimsAdded
<1>6. ClaimsIn(p0.nodes, Put(r.dec, t.id, [old |-> t, new |-> new]))
  BY <1>4, <1>5
<1> QED BY <1>2, <1>6, ClaimsDecided

LEMMA FitClaims ==
  ASSUME NEW l, NEW d, NEW q, NEW i, NEW t, Plans(l, d, q, s, run, i, t), taskFitNode(t),
         ClaimsIn(s.nodes, run.dec)
  PROVE  ClaimsIn((s').nodes, (run').dec)
<1>1. PICK p, r, p2, r2 : p = s /\ r = run /\ p2 = s' /\ r2 = run'
  OBVIOUS
<1>2. /\ Plans(l, d, q, p, r, i, t) /\ TaskOK(l, t) /\ t.state = TaskStatePending /\ IsPicture(p)
      /\ IsRun(r) /\ ClaimsIn(p.nodes, r.dec)
  BY <1>1 DEF Plans
<1> SUFFICES ClaimsIn(p2.nodes, r2.dec)
  BY <1>1
<1>3. CASE t.node \notin DOMAIN p.nodes
  <2>1. p2 = p /\ r2 = [r EXCEPT !.todo = Drop(@, t.id)]
    BY <1>1, <1>3 DEF taskFitNode
  <2>2. r2.dec = r.dec
    BY <1>2, <2>1 DEF IsRun
  <2> QED BY <1>2, <2>1, <2>2
<1>4. CASE t.node \in DOMAIN p.nodes /\ ~Process(p.nodes[t.node], p.vols, t)
  <2>1. PICK new : /\ \E err : new = [t EXCEPT !.err = err]
                   /\ Decided(p, r, p2, r2, t, new)
    BY <1>1, <1>4 DEF taskFitNode, Decide, Decided
  <2>2. ~Live(new)
    BY <1>2, <2>1, WaitTask
  <2> QED BY <1>2, <2>1, <2>2, ClaimsWait
<1>5. CASE t.node \in DOMAIN p.nodes /\ Process(p.nodes[t.node], p.vols, t)
  <2>1. PICK new, n, p0 : /\ n = t.node /\ new = Assigned(t, n) /\ p0 = Claim(p, new)
                          /\ Decided(p0, r, p2, r2, t, new)
    BY <1>1, <1>5 DEF taskFitNode, Decide, Decided
  <2>2. new.node = n
    BY <1>2, <1>5, <2>1, PlacedTask DEF Places
  <2>3. IsPicture(p0) /\ p0.nodes = Added(p.nodes, new)
    BY <1>2, <1>5, <2>1, <2>2, ClaimFields
  <2>4. n \in DOMAIN p.nodes /\ Process(p.nodes[n], p.vols, t)
    BY <1>5, <2>1
  <2> QED BY <1>2, <2>1, <2>3, <2>4, ClaimsPlaced
<1> QED BY <1>3, <1>4, <1>5

LEMMA PlaceClaims ==
  ASSUME NEW l, NEW d, NEW q, NEW i, NEW t, Plans(l, d, q, s, run, i, t), Place(t),
         ClaimsIn(s.nodes, run.dec)
  PROVE  ClaimsIn((s').nodes, (run').dec)
<1>1. PICK p, r, p2, r2 : p = s /\ r = run /\ p2 = s' /\ r2 = run'
  OBVIOUS
<1>2. Plans(l, d, q, p, r, i, t) /\ IsPicture(p) /\ ClaimsIn(p.nodes, r.dec)
  BY <1>1 DEF Plans
<1>3. PICK n \in DOMAIN p.nodes :
        /\ Process(p.nodes[n], p.vols, t)
        /\ Decided(Claim(Reserve(p, Assigned(t, n)), Assigned(t, n)), r, p2, r2, t, Assigned(t, n))
  BY <1>1 DEF Place, Decide, Decided
<1>4. PICK new, p1, p0 : new = Assigned(t, n) /\ p1 = Reserve(p, new) /\ p0 = Claim(p1, new)
  OBVIOUS
<1>5. Decided(p0, r, p2, r2, t, new)
  BY <1>3, <1>4
<1>6. IsPicture(p1) /\ p1.nodes = p.nodes
  BY <1>2, <1>4, ReserveFields
<1>7. new.node = n
  BY <1>2, <1>3, <1>4, PlacedTask DEF Places
<1>8. IsPicture(p0) /\ p0.nodes = Added(p.nodes, new)
  BY <1>3, <1>4, <1>6, <1>7, ClaimFields
<1>9. ClaimsIn(p2.nodes, r2.dec)
  BY <1>2, <1>3, <1>4, <1>5, <1>8, ClaimsPlaced
<1> QED BY <1>1, <1>9

LEMMA NoNodeClaims ==
  ASSUME NEW l, NEW d, NEW q, NEW i, NEW t, Plans(l, d, q, s, run, i, t), noSuitableNode(t),
         ClaimsIn(s.nodes, run.dec)
  PROVE  ClaimsIn((s').nodes, (run').dec)
<1>1. PICK p, r, p2, r2 : p = s /\ r = run /\ p2 = s' /\ r2 = run'
  OBVIOUS
<1>2. /\ TaskOK(l, t) /\ t.state = TaskStatePending /\ IsPicture(p) /\ IsRun(r)
      /\ ClaimsIn(p.nodes, r.dec)
  BY <1>1 DEF Plans
<1>3. \/ p2 = p /\ r2 = [r EXCEPT !.todo = Drop(@, t.id)]
      \/ \E new : /\ new = t \/ new = [t EXCEPT !.state = TaskStateDead, !.err = NoErr]
                  /\ Decided(p, r, p2, r2, t, new)
      \/ \E err : Decided([p EXCEPT !.unassigned = Put(@, t.id, [t EXCEPT !.err = err])], r, p2, r2, t,
                          [t EXCEPT !.err = err])
  BY <1>1 DEF noSuitableNode, Decide, Decided
<1> SUFFICES ClaimsIn(p2.nodes, r2.dec)
  BY <1>1
<1>4. CASE p2 = p /\ r2 = [r EXCEPT !.todo = Drop(@, t.id)]
  <2>1. r2.dec = r.dec
    BY <1>2, <1>4 DEF IsRun
  <2> QED BY <1>2, <1>4, <2>1
<1>5. ASSUME NEW new, new = t \/ new = [t EXCEPT !.state = TaskStateDead, !.err = NoErr],
             Decided(p, r, p2, r2, t, new)
      PROVE  ClaimsIn(p2.nodes, r2.dec)
  <2>1. ~Live(new)
    BY <1>2, <1>5, WaitTask
  <2> QED BY <1>2, <1>5, <2>1, ClaimsWait
<1>6. ASSUME NEW err, Decided([p EXCEPT !.unassigned = Put(@, t.id, [t EXCEPT !.err = err])], r, p2, r2, t,
                              [t EXCEPT !.err = err])
      PROVE  ClaimsIn(p2.nodes, r2.dec)
  <2>1. PICK new : new = [t EXCEPT !.err = err]
    OBVIOUS
  <2>2. PICK p0 : p0 = [p EXCEPT !.unassigned = Put(@, t.id, new)]
    OBVIOUS
  <2>3. Decided(p0, r, p2, r2, t, new)
    BY <1>6, <2>1, <2>2
  <2>4. ~Live(new)
    BY <1>2, <2>1, WaitTask
  <2>5. IsPicture(p0) /\ p0.nodes = p.nodes
    BY <1>2, <2>2 DEF IsPicture
  <2> QED BY <1>2, <2>3, <2>4, <2>5, ClaimsWait
<1> QED BY <1>3, <1>4, <1>5, <1>6

LEMMA NoClaims ==
  ASSUME NEW p, NEW r, r.phase # "plan" \/ r.dec = Empty
  PROVE  ClaimsFit(p, r)
BY EmptyOK DEF ClaimsFit, ClaimsIn

LEMMA PlanClaims ==
  ASSUME Invs, Plan, Pic(left, db, queue, s, run), ClaimsFit(s, run)
  PROVE  ClaimsFit(s', run')
<1>1. PICK i, t : /\ i \in DOMAIN run.todo /\ t = run.todo[i] /\ run.phase = "plan"
                  /\ \/ run.job = "pre" /\ taskFitNode(t)
                     \/ run.job = "tick" /\ (Place(t) \/ noSuitableNode(t))
  BY DEF Plan
<1>2. /\ LeftOK(left) /\ IsPicture(s) /\ IsRun(run) /\ Waiting(db.tasks, left.pre, run.todo, run.job = "tick")
  BY <1>1, InvTypes DEF PictureOK, RunOK
<1>3. t.id = i /\ t.state = TaskStatePending
  BY <1>1, <1>2 DEF Waiting, Copies
<1>4. TaskOK(left, t)
  BY <1>1 DEF Pic, Kinds, AllOK
<1>5. PICK l, d, q : l = left /\ d = db /\ q = queue
  OBVIOUS
<1>6. Plans(l, d, q, s, run, i, t)
  BY <1>1, <1>2, <1>3, <1>4, <1>5 DEF Plans
<1>7. ClaimsIn(s.nodes, run.dec)
  BY <1>1 DEF ClaimsFit
<1>8. ClaimsIn((s').nodes, (run').dec)
  BY <1>1, <1>6, <1>7, FitClaims, PlaceClaims, NoNodeClaims
<1> QED BY <1>8 DEF ClaimsFit

LEMMA ClaimsNext ==
  ASSUME Invs, [Next]_vars, Pic(left, db, queue, s, run), ClaimsFit(s, run)
  PROVE  ClaimsFit(s', run')
<1>1. IsRun(run)
  BY InvTypes DEF RunOK
<1>2. CASE UNCHANGED <<s, run>>
  BY <1>2
<1>3. CASE Handle
  <2>1. PICK r, x : r = run' /\ r = [run EXCEPT !.timer = TRUE, !.tick = x] /\ run.phase = "idle"
    BY <1>3 DEF Handle
  <2>2. r.phase # "plan"
    BY <1>1, <2>1 DEF IsRun
  <2> QED BY <2>1, <2>2, NoClaims
<1>4. ASSUME NEW r, IsRun(r), NEW job, NEW todo, NEW r2, r2 = Planning(r, job, todo)
      PROVE  r2.dec = Empty
  BY <1>4 DEF Planning, IsRun
<1>5. ASSUME NEW r, IsRun(r), NEW p, StartTick(p, r)
      PROVE  ClaimsFit(s', run')
  <2>1. PICK r2 : r2 = run' /\ r2 = Planning(r, "tick", p.unassigned)
    BY <1>5 DEF StartTick
  <2> QED BY <1>4, <1>5, <2>1, NoClaims
<1>6. CASE Schedule
  <2>1. PICK r : r = [run EXCEPT !.timer = FALSE] /\ IsRun(r) /\ r.phase = "idle"
    BY <1>1, <1>6 DEF Schedule, IsRun
  <2>2. CASE run' = Planning(r, "pre", s.pre)
    <3>1. PICK r2 : r2 = run' /\ r2.dec = Empty
      BY <1>4, <2>1, <2>2
    <3> QED BY <3>1, NoClaims
  <2>3. CASE run' = r
    <3>1. r.phase # "plan"
      BY <2>1
    <3> QED BY <2>3, <3>1, NoClaims
  <2> QED BY <1>5, <1>6, <2>1, <2>2, <2>3 DEF Schedule
<1>7. CASE Apply
  <2>1. PICK r, x, y : r = run' /\ r = [run EXCEPT !.phase = "free", !.ok = x, !.failed = y]
    BY <1>7 DEF Apply
  <2>2. r.phase # "plan"
    BY <1>1, <2>1 DEF IsRun
  <2> QED BY <2>1, <2>2, NoClaims
<1>8. CASE Finish
  <2>1. PICK r : r = [Idle EXCEPT !.timer = run.timer, !.tick = run.tick]
    OBVIOUS
  <2>2. IsRun(r) /\ r.phase = "idle"
    BY <2>1 DEF IsRun, Idle
  <2>3. \/ run' = Ticked(r) \/ run' = r
        \/ \E p : StartTick(p, r)
    BY <1>8, <2>1 DEF Finish
  <2>4. PICK r2 : r2 = Ticked(r)
    OBVIOUS
  <2>5. r.phase # "plan" /\ r2.phase # "plan"
    BY <2>2, <2>4 DEF Ticked, IsRun
  <2> QED BY <1>5, <2>2, <2>3, <2>4, <2>5, NoClaims
<1>9. CASE Leader
  <2>1. PICK p, r : p = s' /\ r = run' /\ r = Begun(p)
    BY <1>9 DEF Leader
  <2> QED BY <2>1, BegunRun, NoClaims
<1> QED BY <1>2, <1>3, <1>6, <1>7, <1>8, <1>9, PlanClaims DEF Next, Progress, Steps, vars

-----------------------------------------------------------------------------
(* What the enforcers do                                                    *)

LEMMA CalmSelf ==
  ASSUME NEW T
  PROVE  Calm(T, T)
BY DEF Calm

(* The enforcer has looked at node, and the tasks in Y are to be rejected.  *)
LEMMA LookedSuits ==
  ASSUME NEW l, NEW T, AllOK(l, T), NEW n, NEW node, NodeOK(l, n, node),
         NEW f, f = Restrict(T, {i \in DOMAIN T : Running(T[i]) /\ T[i].node = n}),
         NEW keep, keep \subseteq DOMAIN f, Keeps(node, f, keep)
  PROVE  Suits(node, Burden(T, DOMAIN f \ keep, n))
<1>1. DOMAIN f = {i \in DOMAIN T : Running(T[i]) /\ T[i].node = n} /\ \A i \in DOMAIN f : f[i] = T[i]
  BY DEF Restrict
<1>2. PICK g, h, X : g = Restrict(f, keep) /\ X = DOMAIN f \ keep /\ h = Burden(T, X, n)
  OBVIOUS
<1>3. /\ \A i : i \in DOMAIN h <=> LiveIn(T, i) /\ T[i].node = n /\ T[i].wanted /\ i \notin X
      /\ \A i \in DOMAIN h : h[i] = T[i]
      /\ Fine(h)
  BY <1>2, BurdenIn
<1>4. ASSUME NEW i \in DOMAIN h PROVE i \in keep
  <2>1. i \in DOMAIN T /\ Running(T[i]) /\ T[i].node = n
    BY <1>3, <1>4 DEF LiveIn, Live, Running, TaskStateAssigned, TaskStateDead
  <2> QED BY <1>1, <1>2, <1>3, <2>1
<1>5. Fine(f)
  BY <1>1 DEF Fine, AllOK, TaskOK, IsTask
<1>6. Fine(g) /\ DOMAIN g = keep /\ \A i \in keep : g[i] = f[i]
  BY <1>2, <1>5, RestFine
<1>7. \A i \in DOMAIN h : i \in DOMAIN g /\ g[i] = h[i]
  BY <1>1, <1>3, <1>4, <1>6
<1>8. reserved(h) <= reserved(g) /\ reserved(h) \in Nat /\ reserved(g) \in Nat
  BY <1>3, <1>6, <1>7, ReservedLess
<1>9. node.room - reserved(g) >= 0 /\ node.room \in Nat
  BY <1>2 DEF Keeps, NodeOK
<1>10. \A i \in keep : Asked(f[i]).label => node.label
  BY DEF Keeps
<1>11. \A i \in DOMAIN h : Asked(h[i]).label => node.label
  BY <1>1, <1>3, <1>4, <1>10
<1>12. reserved(h) <= node.room
  BY <1>8, <1>9
<1> QED BY <1>2, <1>11, <1>12 DEF Suits

Guarded(l, d, u, x) ==
  /\ IsUpdates(u) /\ IsEnf(x) /\ Drains(d.tasks, d.vols, u.vols, x.users)
  /\ Obeys(l, d.nodes, d.tasks, u.nodes, x.unfit)

LEMMA GuardedCalm ==
  ASSUME NEW l, NEW m, LeftStep(l, m), LeftOK(m), NEW d, NEW e, AllOK(l, d.tasks),
         NEW w, NEW p2, NEW r2, Pic(m, e, w, p2, r2), \A v \in m.new : v \notin DOMAIN e.vols,
         Calm(d.tasks, e.tasks), NEW u, NEW u2, IsUpdates(u2),
         VolsCalm(d.vols, e.vols, u.vols, u2.vols), NodesCalm(m, d.nodes, e.nodes, u.nodes, u2.nodes),
         NEW x, NEW y, IsEnf(y), Still(e.tasks, x.unfit, y.unfit), Still(e.tasks, x.users, y.users),
         Guarded(l, d, u, x)
  PROVE  Guarded(m, e, u2, y)
<1>1. PICK T, U, D, E, N, M, X, Y : /\ T = d.tasks /\ U = e.tasks /\ D = d.nodes /\ E = e.nodes
                                    /\ N = u.nodes /\ M = u2.nodes /\ X = x.unfit /\ Y = y.unfit
  OBVIOUS
<1>2. /\ AllOK(m, U) /\ RoomOK(m)
      /\ \A n \in DOMAIN E : NodeOK(m, n, E[n]) /\ Within(m, n, LiveAt(U, n))
  BY <1>1, PicLimits DEF LeftOK
<1>3. /\ AllOK(l, T) /\ Calm(T, U) /\ NodesCalm(m, D, E, N, M) /\ Still(U, X, Y)
      /\ Obeys(l, D, T, N, X)
  BY <1>1 DEF Guarded
<1>4. Obeys(m, E, U, M, Y)
  BY <1>2, <1>3, ObeysCalm
<1>5. Drains(U, e.vols, u2.vols, x.users)
  <2>1. Drains(T, d.vols, u.vols, x.users)
    BY <1>1 DEF Guarded
  <2> QED BY <1>3, <2>1, DrainsCalm
<1>6. Drains(U, e.vols, u2.vols, y.users)
  BY <1>1, <1>5 DEF Drains, Still
<1> QED BY <1>1, <1>4, <1>6 DEF Guarded

LEMMA LookedAt ==
  ASSUME NEW l, NEW T, AllOK(l, T), NEW D, \A n \in DOMAIN D : NodeOK(l, n, D[n]),
         NEW N, IsSeq(N), N # <<>>, Obeys(l, D, T, N, {}), NEW node, node = Head(N),
         NEW f, f = Restrict(T, {i \in DOMAIN T : Running(T[i]) /\ T[i].node = node.id}),
         NEW keep, keep \subseteq DOMAIN f, Keeps(node, f, keep)
  PROVE  Obeys(l, D, T, Tail(N), DOMAIN f \ keep)
<1>1. PICK M, Y : M = Tail(N) /\ Y = DOMAIN f \ keep
  OBVIOUS
<1>2. IsSeq(M) /\ \A x \in Range(N) : x = node \/ x \in Range(M)
  <2>1. /\ IsSeq(M) /\ node = N[1]
        /\ \A a \in DOMAIN N : a = 1 \/ (a - 1 \in DOMAIN M /\ M[a - 1] = N[a])
    BY <1>1, Rest
  <2> QED BY <2>1 DEF Range
<1>3. SUFFICES ASSUME ~l.stale, NEW n \in DOMAIN D, D[n].state # "paused", D[n] \notin Range(M)
               PROVE  Suits(D[n], Burden(T, Y, n))
  BY <1>1 DEF Obeys
<1>4. CASE D[n] = node
  <2>1. NodeOK(l, n, node) /\ node.id = n
    BY <1>3, <1>4 DEF NodeOK
  <2>2. f = Restrict(T, {i \in DOMAIN T : Running(T[i]) /\ T[i].node = n})
    BY <2>1
  <2>3. Suits(node, Burden(T, DOMAIN f \ keep, n))
    BY <2>1, <2>2, LookedSuits
  <2> QED BY <1>1, <1>4, <2>3
<1>5. CASE D[n] # node
  <2>1. PICK x : x = D[n] /\ x.room \in Nat
    BY <1>3 DEF NodeOK
  <2>2. Suits(x, Burden(T, {}, n))
    BY <1>2, <1>3, <1>5, <2>1 DEF Obeys
  <2>3. Suits(x, Burden(T, Y, n))
    BY <2>1, <2>2, SuitsLess
  <2> QED BY <2>1, <2>3
<1> QED BY <1>4, <1>5

LEMMA RejectedDead ==
  ASSUME Invs, NEW i \in DOMAIN db.tasks, Rejected(i)
  PROVE  ~LiveIn(db'.tasks, i)
<1>1. PICK t, T, d : /\ t = [db.tasks[i] EXCEPT !.state = TaskStateDead] /\ T = {t} /\ d = db'
  OBVIOUS
<1>2. IsTask(db.tasks[i]) /\ db.tasks[i].id = i
  BY StoreTypes DEF Invs
<1>3. t.id = i /\ IsTask(t) /\ t.state = TaskStateDead
  BY <1>1, <1>2 DEF IsTask, TaskStateNew, TaskStateDead
<1>4. PICK new : /\ d = [db EXCEPT !.tasks = Overlay(new, @)]
                 /\ new = [j \in {u.id : u \in T} |-> NextVersion(CHOOSE u \in T : u.id = j)]
  <2>1. Write(T)
    BY <1>1 DEF Rejected
  <2> QED BY <1>1, <2>1 DEF Write
<1>5. i \in DOMAIN new /\ new[i] = NextVersion(t)
  BY <1>1, <1>3, <1>4
<1>6. d.tasks = Overlay(new, db.tasks)
  BY <1>4, InvTypes DEF IsDb
<1>7. d.tasks[i] = NextVersion(t)
  BY <1>5, <1>6 DEF Overlay
<1>8. ~Live(NextVersion(t))
  BY <1>3, NextMore DEF Live, TaskStateAssigned, TaskStateDead
<1> QED BY <1>1, <1>7, <1>8 DEF LiveIn

-----------------------------------------------------------------------------
(* The guard through every step                                             *)

LEMMA StepFacts ==
  ASSUME Invs, [Next]_vars, left.prompt, Pic(left, db, queue, s, run)
  PROVE  /\ LeftOK(left') /\ LeftStep(left, left') /\ Pic(left', db', queue', s', run')
         /\ TasksStep(db.tasks, db'.tasks) /\ AllOK(left, db.tasks)
         /\ \A v \in left'.new : v \notin DOMAIN db'.vols
<1>1. LeftOK(left') /\ LeftStep(left, left') /\ Pic(left', db', queue', s', run')
  BY StepLeft, StepPic
<1>2. VolumeInv /\ VolumeTypes /\ DecisionInv
  BY DEF Invs, VolumeInv
<1>3. VolumeInv' /\ DecisionInv' /\ TasksStep(db.tasks, db'.tasks)
  BY <1>2, VolumeNext, DecisionNext
<1>4. \A v \in left'.new : v \notin DOMAIN db'.vols
  BY <1>3 DEF VolumeInv, Fresh
<1>5. AllOK(left, db.tasks)
  BY DEF Pic, Kinds
<1> QED BY <1>1, <1>3, <1>4, <1>5

LEMMA StepCalm ==
  ASSUME Invs, [Next]_vars, left.prompt, Pic(left, db, queue, s, run), UNCHANGED <<s, run>>
  PROVE  Calm(db.tasks, db'.tasks)
<1>1. PICK l, m, d, e, q, w, p, r : /\ l = left /\ m = left' /\ d = db /\ e = db' /\ q = queue
                                    /\ w = queue' /\ p = s /\ r = run /\ p = s' /\ r = run'
  OBVIOUS
<1>2. LeftStep(l, m) /\ Pic(l, d, q, p, r) /\ Pic(m, e, w, p, r) /\ TasksStep(d.tasks, e.tasks)
  BY <1>1, StepFacts
<1>3. /\ TaskPart(l, d.tasks, Range(q), p, r) /\ Kinds(l, d.tasks, p, r)
      /\ TaskPart(m, e.tasks, Range(w), p, r) /\ Kinds(m, e.tasks, p, r)
  BY <1>2 DEF Pic
<1>4. Calm(d.tasks, e.tasks)
  BY <1>2, <1>3, CalmTasks
<1> QED BY <1>1, <1>4

LEMMA GentleGuarded ==
  ASSUME Invs, [Next]_vars, left.prompt, Pic(left, db, queue, s, run), Gentle,
         Calm(db.tasks, db'.tasks), IsEnf(enf'),
         Still(db'.tasks, enf.unfit, enf'.unfit), Still(db'.tasks, enf.users, enf'.users),
         Guarded(left, db, updates, enf)
  PROVE  Guarded(left', db', updates', enf')
<1>1. PICK l, m, d, e, w, p, r, u, u2, x, y :
         /\ l = left /\ m = left' /\ d = db /\ e = db' /\ w = queue' /\ p = s' /\ r = run'
         /\ u = updates /\ u2 = updates' /\ x = enf /\ y = enf'
  OBVIOUS
<1>2. /\ LeftStep(l, m) /\ LeftOK(m) /\ AllOK(l, d.tasks) /\ Pic(m, e, w, p, r)
      /\ \A v \in m.new : v \notin DOMAIN e.vols
  BY <1>1, StepFacts
<1>3. /\ IsUpdates(u2) /\ VolsCalm(d.vols, e.vols, u.vols, u2.vols)
      /\ NodesCalm(m, d.nodes, e.nodes, u.nodes, u2.nodes)
  BY <1>1 DEF Gentle
<1>4. /\ Calm(d.tasks, e.tasks) /\ IsEnf(y) /\ Still(e.tasks, x.unfit, y.unfit)
      /\ Still(e.tasks, x.users, y.users) /\ Guarded(l, d, u, x)
  BY <1>1
<1>5. Guarded(m, e, u2, y)
  BY <1>2, <1>3, <1>4, GuardedCalm
<1> QED BY <1>1, <1>5

LEMMA WorldGuarded ==
  ASSUME Invs, left.prompt, Pic(left, db, queue, s, run), Guarded(left, db, updates, enf),
         \/ (Manage \/ Agents) /\ UNCHANGED <<enf, s, run>>
         \/ Others /\ UNCHANGED <<csi, enf, s, run>>
  PROVE  Guarded(left', db', updates', enf')
<1>1. [Next]_vars /\ UNCHANGED <<enf, s, run>>
  BY DEF Next, Progress
<1>2. IsUpdates(updates) /\ IsEnf(enf')
  BY <1>1 DEF Guarded
<1>3. Gentle
  BY <1>1, <1>2, StepFacts, ManageGentle, OthersGentle
<1>4. Still(db'.tasks, enf.unfit, enf'.unfit) /\ Still(db'.tasks, enf.users, enf'.users)
  BY <1>1 DEF Still
<1> QED BY <1>1, <1>2, <1>3, <1>4, StepCalm, GentleGuarded

(* A task is rejected, or found to be rejected or no longer wanted.         *)
LEMMA RejectGuarded ==
  ASSUME Invs, left.prompt, Pic(left, db, queue, s, run), Guarded(left, db, updates, enf),
         UNCHANGED <<csi, s, run>>, NEW i,
         \/ i \in enf.unfit /\ RejectUnfit(i)
         \/ i \in enf.users /\ RejectUser(i)
  PROVE  Guarded(left', db', updates', enf')
<1>1. [Next]_vars
  BY DEF Next, Progress, Enforce
<1>2. IsUpdates(updates) /\ UNCHANGED updates /\ IsEnf(enf)
  BY DEF RejectUnfit, RejectUser, Guarded
<1>3. CASE i \in DOMAIN db.tasks /\ Rejected(i)
  <2>1. PICK x : db' = [db EXCEPT !.tasks = x]
    BY <1>3 DEF Rejected, Write
  <2>2. Gentle
    BY <1>2, <2>1, StoredGentle
  <2>3. ~LiveIn(db'.tasks, i)
    BY <1>3, RejectedDead
  <2>4. \/ enf' = [enf EXCEPT !.unfit = @ \ {i}]
        \/ enf' = [enf EXCEPT !.users = @ \ {i}]
    BY DEF RejectUnfit, RejectUser
  <2>5. /\ IsEnf(enf') /\ enf'.unfit \in {enf.unfit, enf.unfit \ {i}}
        /\ enf'.users \in {enf.users, enf.users \ {i}}
    BY <1>2, <2>4 DEF IsEnf
  <2>6. Still(db'.tasks, enf.unfit, enf'.unfit) /\ Still(db'.tasks, enf.users, enf'.users)
    BY <2>3, <2>5 DEF Still
  <2> QED BY <1>1, <2>2, <2>5, <2>6, StepCalm, GentleGuarded
<1>4. CASE UNCHANGED db /\ ~(i \in DOMAIN db.tasks /\ Live(db.tasks[i]) /\ db.tasks[i].wanted)
  <2>1. Gentle
    BY <1>2, <1>4, IdleGentle
  <2>2. ~(LiveIn(db'.tasks, i) /\ db'.tasks[i].wanted)
    BY <1>4 DEF LiveIn
  <2>4. \/ enf' = [enf EXCEPT !.unfit = @ \ {i}]
        \/ enf' = [enf EXCEPT !.users = @ \ {i}]
    BY DEF RejectUnfit, RejectUser
  <2>5. /\ IsEnf(enf') /\ enf'.unfit \in {enf.unfit, enf.unfit \ {i}}
        /\ enf'.users \in {enf.users, enf.users \ {i}}
    BY <1>2, <2>4 DEF IsEnf
  <2>6. Still(db'.tasks, enf.unfit, enf'.unfit) /\ Still(db'.tasks, enf.users, enf'.users)
    BY <2>2, <2>5 DEF Still
  <2> QED BY <1>1, <2>1, <2>5, <2>6, StepCalm, GentleGuarded
<1> QED BY <1>3, <1>4 DEF RejectUnfit, RejectUser, Running, Live, TaskStateAssigned, TaskStateDead

LEMMA LookGuarded ==
  ASSUME Invs, Pic(left, db, queue, s, run), Guarded(left, db, updates, enf), rejectNoncompliantTasks
  PROVE  Guarded(left', db', updates', enf')
<1>1. PICK l, d, u, x, u2, y, T, D, N : /\ l = left /\ d = db /\ u = updates /\ x = enf
                                        /\ u2 = updates' /\ y = enf'
                                        /\ T = db.tasks /\ D = db.nodes /\ N = updates.nodes
  OBVIOUS
<1>2. PICK node, f, keep : /\ node = Head(N) /\ keep \in SUBSET DOMAIN f /\ Keeps(node, f, keep)
                           /\ f = Restrict(T, {i \in DOMAIN T : Running(T[i]) /\ T[i].node = node.id})
                           /\ y = [x EXCEPT !.unfit = DOMAIN f \ keep]
  <2> DEFINE node0 == Head(updates.nodes)
             tasks == Restrict(db.tasks, {i \in DOMAIN db.tasks :
                                             Running(db.tasks[i]) /\ db.tasks[i].node = node0.id})
  <2>1. PICK keep \in SUBSET DOMAIN tasks :
          Keeps(node0, tasks, keep) /\ enf' = [enf EXCEPT !.unfit = DOMAIN tasks \ keep]
    BY DEF rejectNoncompliantTasks
  <2>2. node0 = Head(N)
        /\ tasks = Restrict(T, {i \in DOMAIN T : Running(T[i]) /\ T[i].node = node0.id})
    BY <1>1
  <2> HIDE DEF node0, tasks
  <2>3. y = [x EXCEPT !.unfit = DOMAIN tasks \ keep]
    BY <1>1, <2>1
  <2>4. keep \in SUBSET DOMAIN tasks /\ Keeps(node0, tasks, keep)
    BY <2>1
  <2> QED BY <2>2, <2>3, <2>4
<1>3. /\ N # <<>> /\ x.unfit = {} /\ u2 = [u EXCEPT !.nodes = Tail(N)] /\ UNCHANGED <<left, db>>
  BY <1>1 DEF rejectNoncompliantTasks
<1>4. AllOK(l, T) /\ \A n \in DOMAIN D : NodeOK(l, n, D[n])
  <2>1. LeftOK(left) /\ \A v \in left.new : v \notin DOMAIN db.vols
    BY InvTypes
  <2> QED BY <1>1, <2>1, PicLimits
<1>5. IsUpdates(u) /\ IsEnf(x) /\ Drains(d.tasks, d.vols, u.vols, x.users) /\ Obeys(l, D, T, N, {})
  BY <1>1, <1>3 DEF Guarded
<1>6. IsSeq(N)
  BY <1>1, <1>5 DEF IsUpdates
<1>7. Obeys(l, D, T, Tail(N), DOMAIN f \ keep)
  BY <1>2, <1>3, <1>4, <1>5, <1>6, LookedAt
<1>8. u2.nodes = Tail(N) /\ u2.vols = u.vols /\ IsUpdates(u2)
  <2>1. IsSeq(Tail(N))
    BY <1>3, <1>6, Rest
  <2> QED BY <1>3, <1>5, <2>1 DEF IsUpdates
<1>9. y.unfit = DOMAIN f \ keep /\ y.users = x.users /\ IsEnf(y)
  BY <1>2, <1>5 DEF IsEnf
<1>10. Guarded(l, d, u2, y)
  BY <1>1, <1>5, <1>7, <1>8, <1>9 DEF Guarded
<1> QED BY <1>1, <1>3, <1>10

LEMMA UsersGuarded ==
  ASSUME Invs, Pic(left, db, queue, s, run), Guarded(left, db, updates, enf),
         NEW v, rejectVolumeUsers(v)
  PROVE  Guarded(left', db', updates', enf')
<1>1. PICK l, d, u, x, u2, y, T : /\ l = left /\ d = db /\ u = updates /\ x = enf
                                  /\ u2 = updates' /\ y = enf' /\ T = db.tasks
  OBVIOUS
<1>2. PICK S : S = {t.id : t \in {t \in Range(T) : Running(t) /\ t.vol = v}}
  OBVIOUS
<1>3. /\ x.users = {} /\ y = [x EXCEPT !.users = S] /\ u2 = [u EXCEPT !.vols = @ \ {v}]
      /\ UNCHANGED <<left, db>>
  BY <1>1, <1>2 DEF rejectVolumeUsers
<1>4. /\ IsUpdates(u) /\ IsEnf(x) /\ Drains(T, d.vols, u.vols, {})
      /\ Obeys(l, d.nodes, T, u.nodes, x.unfit)
  BY <1>1, <1>3 DEF Guarded
<1>5. u2.nodes = u.nodes /\ u2.vols = u.vols \ {v} /\ IsUpdates(u2)
  BY <1>3, <1>4 DEF IsUpdates
<1>6. y.users = S /\ y.unfit = x.unfit /\ IsEnf(y)
  BY <1>3, <1>4 DEF IsEnf
<1>7. \A i : LiveIn(T, i) /\ T[i].wanted /\ T[i].vol = v => i \in S
  <2>1. AllOK(l, T)
    BY <1>1 DEF Pic, Kinds
  <2>2. SUFFICES ASSUME NEW i, LiveIn(T, i), T[i].wanted, T[i].vol = v PROVE i \in S
    OBVIOUS
  <2>3. PICK t : t = T[i] /\ t \in Range(T) /\ t.id = i /\ Running(t) /\ t.vol = v
    BY <2>1, <2>2 DEF AllOK, LiveIn, Live, Running, Range, TaskStateAssigned, TaskStateDead
  <2> QED BY <1>2, <2>3
<1>8. Drains(T, d.vols, u2.vols, S)
  BY <1>4, <1>5, <1>7 DEF Drains
<1>9. Guarded(l, d, u2, y)
  BY <1>1, <1>4, <1>5, <1>6, <1>8 DEF Guarded
<1> QED BY <1>1, <1>3, <1>9

LEMMA EnforceGuarded ==
  ASSUME Invs, left.prompt, Pic(left, db, queue, s, run), Guarded(left, db, updates, enf),
         Enforce, UNCHANGED <<csi, s, run>>
  PROVE  Guarded(left', db', updates', enf')
BY LookGuarded, UsersGuarded, RejectGuarded DEF Enforce

LEMMA AvailKept ==
  ASSUME NEW d, IsVols(d.vols), NEW X, NEW vs, NEW T, X = Freed(d, vs) \/ X = Published(d, T)
  PROVE  \A v : v \in DOMAIN X <=> v \in DOMAIN d.vols /\ X[v].avail = d.vols[v].avail
<1>1. DOMAIN X = DOMAIN d.vols
  BY DEF Freed, Published
<1>2. ASSUME NEW v \in DOMAIN d.vols PROVE X[v].avail = d.vols[v].avail
  <2>1. PICK vol : vol = d.vols[v]
    OBVIOUS
  <2>2. \E x : X[v] = [vol EXCEPT !.pub = x]
    BY <2>1 DEF Freed, Published
  <2>3. vol \in Vol
    BY <2>1 DEF IsVols
  <2> QED BY <2>1, <2>2, <2>3 DEF Vol
<1> QED BY <1>1, <1>2

LEMMA FinishGuarded ==
  ASSUME Invs, left.prompt, Pic(left, db, queue, s, run), Guarded(left, db, updates, enf), Finish
  PROVE  Guarded(left', db', updates', enf')
<1>1. [Next]_vars
  BY DEF Next, Progress, Steps
<1>2. PICK X, V, d, e, l, u, u2 :
         /\ X = Freed(d, s.vols) /\ d = db /\ e = db' /\ l = left /\ u = updates /\ u2 = updates'
         /\ e = [d EXCEPT !.vols = X] /\ u2 = [u EXCEPT !.vols = @ \cup V]
         /\ UNCHANGED <<left, enf>>
  BY DEF Finish
<1>3. IsDb(d) /\ IsVols(d.vols) /\ \A v \in l.new : v \notin DOMAIN d.vols
  BY <1>2, InvTypes DEF VolumeTypes
<1>4. e.tasks = d.tasks /\ e.nodes = d.nodes /\ e.vols = X
  BY <1>2, <1>3 DEF IsDb
<1>5. \A v \in DOMAIN X : v \in DOMAIN d.vols /\ X[v].avail = d.vols[v].avail
  BY <1>2, <1>3, AvailKept
<1>6. IsUpdates(u2) /\ u2.nodes = u.nodes /\ u.vols \subseteq u2.vols
  BY <1>2 DEF Guarded, IsUpdates
<1>7. VolsCalm(d.vols, e.vols, u.vols, u2.vols)
  BY <1>4, <1>5, <1>6 DEF VolsCalm, Draining
<1>8. NodesCalm(left', d.nodes, e.nodes, u.nodes, u2.nodes)
  <2>1. Subset(d.nodes, e.nodes)
    BY <1>4 DEF Subset
  <2> QED BY <1>6, <2>1, NodesKept
<1>9. Gentle
  BY <1>2, <1>6, <1>7, <1>8 DEF Gentle
<1>10. Calm(db.tasks, db'.tasks)
  BY <1>2, <1>4, CalmSelf
<1>11. IsEnf(enf') /\ Still(db'.tasks, enf.unfit, enf'.unfit) /\ Still(db'.tasks, enf.users, enf'.users)
  BY <1>2 DEF Guarded, Still
<1> QED BY <1>1, <1>9, <1>10, <1>11, GentleGuarded

LEMMA LeaderGuarded ==
  ASSUME Invs, left.prompt, Pic(left, db, queue, s, run), Leader
  PROVE  Guarded(left', db', updates', enf')
<1>1. [Next]_vars
  BY DEF Next, Progress
<1>2. PICK l, m, d, u, y, N : /\ l = left /\ m = left' /\ d = db /\ u = updates' /\ y = enf'
                              /\ N = Enforced(Range(d.nodes))
                              /\ u = [nodes |-> N, vols |-> Drained(d.vols, DOMAIN d.vols)]
                              /\ y = NoTasks /\ UNCHANGED db
  BY DEF Leader, EnforceAnew
<1>3. LeftOK(m) /\ LeftStep(l, m) /\ Pic(m, d, queue', s', run') /\ \A v \in m.new : v \notin DOMAIN d.vols
  BY <1>1, <1>2, StepFacts
<1>4. /\ AllOK(m, d.tasks) /\ RoomOK(m)
      /\ \A n \in DOMAIN d.nodes : NodeOK(m, n, d.nodes[n]) /\ Within(m, n, LiveAt(d.tasks, n))
  BY <1>3, PicLimits DEF LeftOK
<1>5. \A n \in DOMAIN d.nodes : NodeOK(l, n, d.nodes[n])
  BY <1>2, InvTypes, PicLimits
<1>6. IsFiniteSet(Range(d.nodes))
  <2>1. PICK S, g : S = DOMAIN d.nodes /\ g = [n \in S |-> d.nodes[n]]
    OBVIOUS
  <2>2. IsFiniteSet(S)
    BY <1>4, <2>1, NodeInfoAssumption, FS_Subset DEF NodeOK, RoomOK
  <2>3. DOMAIN g = S /\ g = [n \in DOMAIN g |-> g[n]]
    BY <2>1
  <2>4. IsFiniteSet({g[n] : n \in DOMAIN g})
    BY <2>2, <2>3, ImageFinite
  <2>5. {g[n] : n \in DOMAIN g} = Range(d.nodes)
    BY <2>1 DEF Range
  <2> QED BY <2>4, <2>5
<1>7. IsSeq(N) /\ \A node \in Range(d.nodes) : node.state # "paused" /\ Lacks(node) => node \in Range(N)
  BY <1>2, <1>6, EnforcedIn
<1>8. u.nodes = N /\ u.vols = Drained(d.vols, DOMAIN d.vols) /\ IsUpdates(u)
  BY <1>2, <1>7 DEF IsUpdates
<1>9. IsEnf(y) /\ y.unfit = {} /\ y.users = {}
  BY <1>2 DEF IsEnf, NoTasks
<1>10. Drains(d.tasks, d.vols, u.vols, y.users)
  BY <1>8 DEF Drains, Draining, Drained
<1>11. Obeys(m, d.nodes, d.tasks, u.nodes, y.unfit)
  <2>1. SUFFICES ASSUME NEW n \in DOMAIN d.nodes, NEW node, node = d.nodes[n], node.state # "paused",
                        node \notin Range(N)
                 PROVE  Suits(node, Burden(d.tasks, {}, n))
    BY <1>8, <1>9 DEF Obeys
  <2>2. ~Lacks(node)
    BY <1>7, <2>1 DEF Range
  <2>3. NodeOK(m, n, node) /\ NodeOK(l, n, node) /\ Within(m, n, LiveAt(d.tasks, n))
    BY <1>4, <1>5, <2>1
  <2>4. ~(node.room < m.room[n] \/ ~node.label)
    BY <1>2, <1>3, <2>2, <2>3 DEF Lacks, NodeOK, LeftStep
  <2> QED BY <1>4, <2>3, <2>4, FullSuits
<1>12. Guarded(m, d, u, y)
  BY <1>8, <1>9, <1>10, <1>11 DEF Guarded
<1> QED BY <1>2, <1>12

-----------------------------------------------------------------------------
(* What is written was decided on a picture that counts every task there is *)

(* The tasks in ok are written, A and N being the picture.                  *)
Commits(T, U, A, N, ok) ==
  /\ \A i : LiveIn(U, i) /\ i \notin ok => LiveIn(T, i) /\ U[i] = T[i]
  /\ \A i : LiveIn(U, i) => LiveIn(A, i) /\ A[i].svc = U[i].svc /\ A[i].node = U[i].node
  /\ \A i \in ok : LiveIn(U, i) => FitsIn(N, U[i])

(* Where the node lacks something, the decision knew.                       *)
Aware(m, D, U, N, ok) ==
  ~m.stale => \A i \in ok : LiveIn(U, i) /\ U[i].node \in DOMAIN D =>
                \/ D[U[i].node] = N[U[i].node].node
                \/ ~(D[U[i].node].room < m.room[U[i].node] \/ ~D[U[i].node].label)

(* A node that gets a task it has the resources for has those of all.       *)
LEMMA CommitFits ==
  ASSUME NEW l, NEW m, NEW T, AllOK(l, T), NEW U, AllOK(m, U), NEW A, AllOK(l, A),
         NEW N, NodePic(l, A, N), NEW ok, Commits(T, U, A, N, ok), NEW n \in DOMAIN N,
         NEW node, node = N[n].node, NEW X, Suits(node, Burden(T, X, n))
  PROVE  Suits(node, Burden(U, X, n))
<1>1. PICK f, g, h : f = Burden(U, X, n) /\ g = Burden(T, X, n) /\ h = LiveAt(A, n)
  OBVIOUS
<1>2. /\ \A i : i \in DOMAIN f <=> LiveIn(U, i) /\ U[i].node = n /\ U[i].wanted /\ i \notin X
      /\ \A i \in DOMAIN f : f[i] = U[i]
      /\ Fine(f)
  BY <1>1, BurdenIn
<1>3. /\ \A i : i \in DOMAIN g <=> LiveIn(T, i) /\ T[i].node = n /\ T[i].wanted /\ i \notin X
      /\ \A i \in DOMAIN g : g[i] = T[i]
      /\ Fine(g)
  BY <1>1, BurdenIn
<1>4. /\ \A i : i \in DOMAIN h <=> LiveIn(A, i) /\ A[i].node = n
      /\ \A i \in DOMAIN h : h[i] = A[i]
      /\ Fine(h)
  BY <1>1, LiveAtIn, LiveAtFine
<1>5. \A i \in DOMAIN f : i \notin ok => i \in DOMAIN g /\ g[i] = f[i]
  BY <1>2, <1>3 DEF Commits
<1>6. \A i \in DOMAIN f : i \in DOMAIN h /\ h[i].svc = f[i].svc
  BY <1>2, <1>4 DEF Commits
<1>7. \A i \in DOMAIN f : i \in ok => FitsIn(N, f[i]) /\ f[i].node = n
  BY <1>2 DEF Commits
<1>8. reserved(g) <= node.room /\ \A i \in DOMAIN g : Asked(g[i]).label => node.label
  BY <1>1 DEF Suits
<1>9. \A i \in DOMAIN f : Asked(f[i]).label => node.label
  BY <1>5, <1>7, <1>8 DEF FitsIn
<1>10. node.room \in Nat /\ N[n] = newNodeInfo(node, h)
  BY <1>1 DEF NodePic, NodeOK
<1>11. reserved(f) <= node.room
  <2>1. CASE \E i \in DOMAIN f : i \in ok /\ Asked(f[i]).need > 0
    <3>1. N[n].avail >= 0
      BY <1>7, <2>1 DEF FitsIn
    <3>2. N[n].avail = node.room - reserved(h)
      BY <1>10 DEF newNodeInfo
    <3>3. reserved(f) <= reserved(h) /\ reserved(f) \in Nat /\ reserved(h) \in Nat
      BY <1>2, <1>4, <1>6, ReservedLess
    <3>4. PICK a, b, c : a = node.room /\ b = reserved(h) /\ c = reserved(f)
      OBVIOUS
    <3>5. a \in Nat
      BY <1>10, <3>4
    <3>6. a - b >= 0
      BY <3>1, <3>2, <3>4
    <3>7. c <= b /\ b \in Nat /\ c \in Nat
      BY <3>3, <3>4
    <3>8. c <= a
      BY <3>5, <3>6, <3>7
    <3> QED BY <3>4, <3>8
  <2>2. CASE \A i \in DOMAIN f : i \in ok => ~(Asked(f[i]).need > 0)
    <3>1. \A i \in DOMAIN f : Asked(f[i]).need = 0 \/ (i \in DOMAIN g /\ g[i].svc = f[i].svc)
      <4> SUFFICES ASSUME NEW i \in DOMAIN f
                   PROVE  Asked(f[i]).need = 0 \/ (i \in DOMAIN g /\ g[i].svc = f[i].svc)
        OBVIOUS
      <4>1. Asked(f[i]).need \in Nat
        BY <1>2, NeedType
      <4> QED BY <1>5, <2>2, <4>1
    <3>2. reserved(f) <= reserved(g) /\ reserved(f) \in Nat /\ reserved(g) \in Nat
      BY <1>2, <1>3, <3>1, ReservedLess
    <3> QED BY <1>8, <1>10, <3>2
  <2> QED BY <2>1, <2>2
<1> QED BY <1>1, <1>9, <1>11 DEF Suits

LEMMA ObeysCommit ==
  ASSUME NEW l, NEW m, LeftStep(l, m), RoomOK(m), NEW T, AllOK(l, T), NEW U, AllOK(m, U),
         NEW A, AllOK(l, A), NEW N, NodePic(l, A, N), NEW ok, Commits(T, U, A, N, ok),
         NEW D, \A n \in DOMAIN D : NodeOK(m, n, D[n]) /\ Within(m, n, LiveAt(U, n)),
         Aware(m, D, U, N, ok), NEW M, NEW X, Obeys(l, D, T, M, X)
  PROVE  Obeys(m, D, U, M, X)
<1>1. SUFFICES ASSUME ~m.stale, NEW n \in DOMAIN D, NEW node, node = D[n],
                      node.state # "paused", node \notin Range(M)
               PROVE  Suits(node, Burden(U, X, n))
  BY DEF Obeys
<1>2. Suits(node, Burden(T, X, n))
  BY <1>1 DEF Obeys, LeftStep
<1>3. NodeOK(m, n, node) /\ Within(m, n, LiveAt(U, n)) /\ node.room \in Nat
  BY <1>1 DEF NodeOK
<1>4. CASE ~(node.room < m.room[n] \/ ~node.label)
  BY <1>3, <1>4, FullSuits
<1>5. CASE \A i \in ok : ~(LiveIn(U, i) /\ U[i].node = n)
  <2>1. \A i : LiveIn(U, i) /\ U[i].node = n /\ U[i].wanted /\ i \notin X =>
          LiveIn(T, i) /\ T[i].node = n /\ T[i].wanted /\ i \notin X /\ T[i].svc = U[i].svc
    BY <1>5 DEF Commits
  <2> QED BY <1>2, <1>3, <2>1, SuitsLess
<1>6. CASE /\ node.room < m.room[n] \/ ~node.label
           /\ \E i \in ok : LiveIn(U, i) /\ U[i].node = n
  <2>1. PICK i \in ok : LiveIn(U, i) /\ U[i].node = n
    BY <1>6
  <2>2. n \in DOMAIN N
    BY <2>1 DEF Commits, FitsIn
  <2>3. node = N[n].node
    BY <1>1, <1>6, <2>1 DEF Aware
  <2> QED BY <1>2, <2>2, <2>3, CommitFits
<1> QED BY <1>4, <1>5, <1>6

LEMMA DrainsCommit ==
  ASSUME NEW T, NEW U, NEW A, NEW N, NEW ok, Commits(T, U, A, N, ok), NEW W, NEW Y,
         \A v : Draining(Y, v) => Draining(W, v),
         \A i \in ok : LiveIn(U, i) => ~Draining(W, U[i].vol),
         NEW V, NEW X, Drains(T, W, V, X)
  PROVE  Drains(U, Y, V, X)
BY DEF Commits, Drains

LEMMA ApplyCommits ==
  ASSUME Invs, Pic(left, db, queue, s, run), ClaimsFit(s, run), Apply
  PROVE  \E ok :
           /\ Commits(db.tasks, db'.tasks, s.all, s.nodes, ok)
           /\ db'.nodes = db.nodes /\ Aware(left', db.nodes, db'.tasks, s.nodes, ok)
           /\ \A v : Draining(db'.vols, v) => Draining(db.vols, v)
           /\ \A i \in ok : LiveIn(db'.tasks, i) => ~Draining(db.vols, db'.tasks[i].vol)
<1> DEFINE ok == DOMAIN run.dec \ (Missing \cup Unchanged \cup Refused)
           new == [i \in ok |-> NextVersion(run.dec[i].new)]
           vols == Published(db, Range(new))
           stale == \E t \in Range(new) :
                      /\ Live(t) /\ t.node \in DOMAIN db.nodes
                      /\ Lacks(db.nodes[t.node])
                      /\ db.nodes[t.node] # s.nodes[t.node].node
<1>1. /\ db' = [db EXCEPT !.tasks = Overlay(new, @), !.vols = vols] /\ run.phase = "plan"
      /\ left' = [left EXCEPT !.stale = left.stale \/ stale]
  BY DEF Apply
<1>2. new = [i \in ok |-> NextVersion(run.dec[i].new)] /\ DOMAIN new = ok
      /\ ok = DOMAIN run.dec \ (Missing \cup Unchanged \cup Refused)
  OBVIOUS
<1>3. vols = Published(db, Range(new))
  OBVIOUS
<1>4. ~stale => \A t \in Range(new) :
        ~(/\ Live(t) /\ t.node \in DOMAIN db.nodes /\ Lacks(db.nodes[t.node])
          /\ db.nodes[t.node] # s.nodes[t.node].node)
  OBVIOUS
<1> HIDE DEF ok, new, vols, stale
<1>5. PICK l, m, d, e, A, N, dec, T, U :
         /\ l = left /\ m = left' /\ d = db /\ e = db' /\ A = s.all /\ N = s.nodes /\ dec = run.dec
         /\ T = db.tasks /\ U = db'.tasks
  OBVIOUS
<1>6. /\ IsDb(d) /\ IsVols(d.vols) /\ LeftOK(l) /\ RunOK(T, l.pre, s, run)
      /\ \A v \in l.new : v \notin DOMAIN d.vols
  BY <1>5, InvTypes DEF VolumeTypes
<1>7. U = Overlay(new, T) /\ e.nodes = d.nodes /\ e.vols = vols
  BY <1>1, <1>5, <1>6 DEF IsDb
<1>8. AllOK(l, T) /\ AllOK(l, A) /\ \A i \in DOMAIN dec : TaskOK(l, dec[i].new) /\ dec[i].new.id = i
  <2>1. Kinds(l, T, s, run)
    BY <1>5 DEF Pic
  <2>2. \A i \in DOMAIN dec : dec[i].new.id = i
    BY <1>1, <1>5, <1>6 DEF RunOK, Decision
  <2> QED BY <1>1, <1>5, <2>1, <2>2 DEF Kinds
<1>9. TaskPart(l, T, Range(queue), s, run)
  BY <1>5 DEF Pic
<1>10. \A i \in ok : /\ i \in DOMAIN dec /\ i \in DOMAIN T /\ i \in DOMAIN U /\ U[i] = new[i]
                     /\ new[i] = NextVersion(dec[i].new)
  BY <1>2, <1>5, <1>7 DEF Missing, Overlay
<1>11. \A i \in ok : /\ U[i].svc = dec[i].new.svc /\ U[i].node = dec[i].new.node
                     /\ U[i].vol = dec[i].new.vol /\ (Live(U[i]) <=> Live(dec[i].new))
  <2> SUFFICES ASSUME NEW i \in ok
               PROVE  /\ U[i].svc = dec[i].new.svc /\ U[i].node = dec[i].new.node
                      /\ U[i].vol = dec[i].new.vol /\ (Live(U[i]) <=> Live(dec[i].new))
    OBVIOUS
  <2>1. PICK t, u : t = dec[i].new /\ u = U[i]
    OBVIOUS
  <2>2. TaskOK(l, t) /\ u = NextVersion(t)
    BY <1>8, <1>10, <2>1
  <2>3. u.svc = t.svc /\ u.node = t.node /\ u.vol = t.vol /\ (Live(u) <=> Live(t))
    BY <2>2, NextOK
  <2> QED BY <2>1, <2>3
<1>12. \A i : LiveIn(U, i) /\ i \notin ok => LiveIn(T, i) /\ U[i] = T[i]
  BY <1>2, <1>7 DEF LiveIn, Overlay
<1>13. ASSUME NEW i, LiveIn(U, i)
       PROVE  LiveIn(A, i) /\ A[i].svc = U[i].svc /\ A[i].node = U[i].node
  <2>1. CASE i \in ok
    <3>1. Claimed(run, i)
      BY <1>1, <1>5, <1>10, <1>11, <1>13, <2>1 DEF Claimed, LiveIn
    <3>2. i \in DOMAIN A /\ A[i] = dec[i].new
      BY <1>5, <1>9, <3>1 DEF TaskPart
    <3> QED BY <1>11, <1>13, <2>1, <3>2 DEF LiveIn
  <2>2. CASE i \notin ok
    <3>1. LiveIn(T, i) /\ U[i] = T[i]
      BY <1>12, <1>13, <2>2
    <3>2. Held(s, run, i) /\ HeldOK(T, Range(queue), s, run, i)
      BY <1>9, <3>1 DEF TaskPart
    <3>3. LiveIn(A, i) /\ Follows(A[i], T[i])
      BY <1>5, <3>1, <3>2 DEF Held, HeldOK, LiveIn
    <3> QED BY <1>8, <3>1, <3>3 DEF Follows, AllOK, TaskOK, LiveIn
  <2> QED BY <2>1, <2>2
<1>14. \A i \in ok : LiveIn(U, i) => FitsIn(N, U[i])
  <2> SUFFICES ASSUME NEW i \in ok, LiveIn(U, i) PROVE FitsIn(N, U[i])
    OBVIOUS
  <2>1. PICK t, u : t = dec[i].new /\ u = U[i]
    OBVIOUS
  <2>2. Live(t) /\ i \in DOMAIN dec /\ u.node = t.node /\ u.svc = t.svc
    BY <1>10, <1>11, <2>1 DEF LiveIn
  <2>3. FitsIn(N, t)
    BY <1>1, <1>5, <2>1, <2>2 DEF ClaimsFit, ClaimsIn
  <2>4. FitsIn(N, u)
    BY <2>2, <2>3 DEF FitsIn, Asked
  <2> QED BY <2>1, <2>4
<1>15. Commits(T, U, A, N, ok)
  BY <1>12, <1>13, <1>14 DEF Commits
<1>16. Aware(m, d.nodes, U, N, ok)
  <2>1. m.stale = (l.stale \/ stale) /\ m.room = l.room
    BY <1>1, <1>5, <1>6 DEF LeftOK
  <2>2. \A n \in DOMAIN d.nodes : NodeOK(l, n, d.nodes[n])
    BY <1>5, <1>6, PicLimits
  <2>3. SUFFICES ASSUME ~stale, NEW i \in ok, LiveIn(U, i), U[i].node \in DOMAIN d.nodes
                 PROVE  \/ d.nodes[U[i].node] = N[U[i].node].node
                        \/ ~(d.nodes[U[i].node].room < m.room[U[i].node] \/ ~d.nodes[U[i].node].label)
    BY <2>1 DEF Aware
  <2>4. PICK u, n, node : u = U[i] /\ n = u.node /\ node = d.nodes[n]
    OBVIOUS
  <2>5. u \in Range(new) /\ Live(u)
    BY <1>2, <1>10, <2>3, <2>4 DEF Range, LiveIn
  <2>6. node = N[n].node \/ ~Lacks(node)
    BY <1>4, <1>5, <2>3, <2>4, <2>5
  <2>7. node.id = n
    BY <2>2, <2>3, <2>4 DEF NodeOK
  <2>8. node = N[n].node \/ ~(node.room < m.room[n] \/ ~node.label)
    BY <1>5, <2>1, <2>6, <2>7 DEF Lacks
  <2> QED BY <2>4, <2>8
<1>17. \A v : Draining(e.vols, v) => Draining(d.vols, v)
  <2>1. PICK X, S : X = vols /\ S = Range(new) /\ X = Published(d, S)
    BY <1>3, <1>5
  <2>2. \A v : v \in DOMAIN X <=> v \in DOMAIN d.vols /\ X[v].avail = d.vols[v].avail
    BY <1>6, <2>1, AvailKept
  <2> QED BY <1>7, <2>1, <2>2 DEF Draining
<1>18. \A i \in ok : LiveIn(U, i) => ~Draining(d.vols, U[i].vol)
  <2> SUFFICES ASSUME NEW i \in ok, Draining(d.vols, U[i].vol) PROVE FALSE
    OBVIOUS
  <2>1. PICK t, v : t = dec[i].new /\ v = t.vol /\ v = U[i].vol
    BY <1>11
  <2>2. v \in DOMAIN d.vols /\ d.vols[v].avail = "drain" /\ v # None
    BY <1>6, <2>1, NodeInfoAssumption DEF Draining, IsVols
  <2>3. Usable(t)
    BY <1>2, <1>5, <2>1 DEF Refused
  <2> QED BY <1>5, <2>1, <2>2, <2>3 DEF Usable, hasVolume
<1> QED BY <1>5, <1>7, <1>15, <1>16, <1>17, <1>18

LEMMA ApplyGuarded ==
  ASSUME Invs, left.prompt, Pic(left, db, queue, s, run), ClaimsFit(s, run),
         Guarded(left, db, updates, enf), Apply
  PROVE  Guarded(left', db', updates', enf')
<1>1. [Next]_vars /\ UNCHANGED <<updates, enf>>
  BY DEF Next, Progress, Steps, Apply
<1>2. PICK l, m, d, e, T, U, A, N, D, u, x :
         /\ l = left /\ m = left' /\ d = db /\ e = db' /\ T = db.tasks /\ U = db'.tasks
         /\ A = s.all /\ N = s.nodes /\ D = db.nodes /\ u = updates /\ x = enf
  OBVIOUS
<1>3. PICK ok : /\ Commits(T, U, A, N, ok) /\ e.nodes = D /\ Aware(m, D, U, N, ok)
                /\ \A v : Draining(e.vols, v) => Draining(d.vols, v)
                /\ \A i \in ok : LiveIn(U, i) => ~Draining(d.vols, U[i].vol)
  BY <1>2, ApplyCommits
<1>4. /\ LeftStep(l, m) /\ LeftOK(m) /\ Pic(m, e, queue', s', run') /\ AllOK(l, T)
      /\ \A v \in m.new : v \notin DOMAIN e.vols
  BY <1>1, <1>2, StepFacts
<1>5. /\ AllOK(m, U) /\ RoomOK(m)
      /\ \A n \in DOMAIN D : NodeOK(m, n, D[n]) /\ Within(m, n, LiveAt(U, n))
  <2>1. AllOK(m, e.tasks)
        /\ \A n \in DOMAIN e.nodes : NodeOK(m, n, e.nodes[n]) /\ Within(m, n, LiveAt(e.tasks, n))
    BY <1>4, PicLimits
  <2> QED BY <1>2, <1>3, <1>4, <2>1 DEF LeftOK
<1>6. AllOK(l, A) /\ NodePic(l, A, N)
  BY <1>2 DEF Pic, Kinds, NodePart
<1>7. /\ IsUpdates(u) /\ IsEnf(x) /\ Drains(T, d.vols, u.vols, x.users)
      /\ Obeys(l, D, T, u.nodes, x.unfit)
  BY <1>2 DEF Guarded
<1>8. Obeys(m, D, U, u.nodes, x.unfit)
  BY <1>3, <1>4, <1>5, <1>6, <1>7, ObeysCommit
<1>9. Drains(U, e.vols, u.vols, x.users)
  BY <1>3, <1>7, DrainsCommit
<1>10. Guarded(m, e, u, x)
  BY <1>2, <1>3, <1>7, <1>8, <1>9 DEF Guarded
<1> QED BY <1>1, <1>2, <1>10

-----------------------------------------------------------------------------
(* The limits are kept                                                      *)

(* What the enforcers have yet to look at or to reject, and what the        *)
(* scheduler has claimed and not written.                                   *)
LimitInv == left.prompt => ClaimsFit(s, run) /\ Guarded(left, db, updates, enf)

LEMMA LimitInit == Init => LimitInv
<1> SUFFICES ASSUME Init PROVE ClaimsFit(s, run) /\ Guarded(left, db, updates, enf)
  BY DEF LimitInv
<1>1. PICK l, d, p, r, u, x : /\ l = left /\ d = db /\ p = s /\ r = run /\ u = updates /\ x = enf
                              /\ r = Begun(p)
  BY DEF Init
<1>2. /\ u = [nodes |-> <<>>, vols |-> {}] /\ x = [unfit |-> {}, users |-> {}]
      /\ d.nodes = [n \in DOMAIN l.room |-> Node(n, l.room[n])]
      /\ d.vols = [v \in DOMAIN Volumes \ l.new |-> [NewVolume EXCEPT !.info = TRUE]]
  BY <1>1 DEF Init, Stored, NoTasks
<1>3. LeftOK(l) /\ Pic(l, d, queue, p, r) /\ \A v \in l.new : v \notin DOMAIN d.vols
  BY <1>1, <1>2, InitPic
<1>4. ClaimsFit(p, r)
  BY <1>1, BegunRun, NoClaims
<1>5. IsUpdates(u) /\ IsEnf(x) /\ u.nodes = <<>> /\ x.unfit = {}
  BY <1>2, EmptyRange DEF IsUpdates, IsEnf
<1>6. Drains(d.tasks, d.vols, u.vols, x.users)
  <2>1. PICK vol : vol = [NewVolume EXCEPT !.info = TRUE]
    OBVIOUS
  <2>2. vol.avail = "active"
    BY <2>1 DEF NewVolume
  <2>3. \A v : ~Draining(d.vols, v)
    BY <1>2, <2>1, <2>2 DEF Draining
  <2> QED BY <2>3 DEF Drains
<1>7. Obeys(l, d.nodes, d.tasks, <<>>, {})
  <2>1. SUFFICES ASSUME NEW n \in DOMAIN d.nodes, NEW node, node = d.nodes[n]
                 PROVE  Suits(node, Burden(d.tasks, {}, n))
    BY DEF Obeys
  <2>2. /\ AllOK(l, d.tasks) /\ RoomOK(l) /\ NodeOK(l, n, node) /\ Within(l, n, LiveAt(d.tasks, n))
    BY <1>3, <2>1, PicLimits DEF LeftOK
  <2>3. PICK a : a = l.room[n] /\ node = Node(n, a) /\ a \in Nat
    BY <1>2, <2>1, <2>2 DEF RoomOK, NodeOK
  <2>4. node.room = a /\ node.label
    BY <2>3 DEF Node
  <2>5. ~(node.room < l.room[n] \/ ~node.label)
    BY <2>3, <2>4
  <2> QED BY <2>2, <2>5, FullSuits
<1>8. Guarded(l, d, u, x)
  BY <1>5, <1>6, <1>7 DEF Guarded
<1> QED BY <1>1, <1>4, <1>8

LEMMA LimitNext ==
  VolumeInv /\ DecisionInv /\ PictureInv /\ LimitInv /\ [Next]_vars => LimitInv'
<1> SUFFICES ASSUME VolumeInv, DecisionInv, PictureInv, LimitInv, [Next]_vars, (left.prompt)'
             PROVE  ClaimsFit(s', run') /\ Guarded(left', db', updates', enf')
  BY DEF LimitInv
<1>1. Invs
  BY DEF Invs, PictureInv
<1>2. left.prompt
  <2>1. LeftStep(left, left')
    BY <1>1, StepLeft
  <2> QED BY <2>1 DEF LeftStep
<1>3. Pic(left, db, queue, s, run) /\ ClaimsFit(s, run) /\ Guarded(left, db, updates, enf)
  BY <1>2 DEF PictureInv, LimitInv
<1>4. ClaimsFit(s', run')
  BY <1>1, <1>3, ClaimsNext
<1>5. CASE Handle \/ Schedule \/ Plan \/ UNCHANGED vars
  <2>1. UNCHANGED <<left, db, updates, enf>>
    BY <1>5 DEF Handle, Schedule, Plan, vars, store
  <2> QED BY <1>3, <1>4, <2>1
<1>6. CASE Apply \/ Finish \/ Leader
  BY <1>1, <1>2, <1>3, <1>4, <1>6, ApplyGuarded, FinishGuarded, LeaderGuarded
<1>7. CASE \/ (Manage \/ Agents) /\ UNCHANGED <<enf, s, run>>
           \/ Others /\ UNCHANGED <<csi, enf, s, run>>
  BY <1>1, <1>2, <1>3, <1>4, <1>7, WorldGuarded
<1>8. CASE Enforce /\ UNCHANGED <<csi, s, run>>
  BY <1>1, <1>2, <1>3, <1>4, <1>8, EnforceGuarded
<1> QED BY <1>5, <1>6, <1>7, <1>8 DEF Next, Progress, Steps

LEMMA LimitsKept ==
  ASSUME Invs, Pic(left, db, queue, s, run), Guarded(left, db, updates, enf)
  PROVE  WithinLimits
<1>1. NodesGuarded
  BY NodesInLimits
<1>2. /\ Drains(db.tasks, db.vols, updates.vols, enf.users)
      /\ Obeys(left, db.nodes, db.tasks, updates.nodes, enf.unfit)
  BY DEF Guarded
<1>3. NodesObeyed
  <2>1. SUFFICES ASSUME updates.nodes = <<>>, enf.unfit = {}, ~left.stale, NEW n \in DOMAIN db.nodes,
                        db.nodes[n].state # "paused",
                        NEW wanted, wanted = {i \in DOMAIN db.tasks : Wanted(db.tasks[i], n)}
                 PROVE  /\ reserved(Restrict(db.tasks, wanted)) <= db.nodes[n].room
                        /\ \A i \in wanted : Asked(db.tasks[i]).label => db.nodes[n].label
    BY DEF NodesObeyed
  <2>2. PICK f, node, T : /\ T = db.tasks /\ f = Burden(T, {}, n) /\ node = db.nodes[n]
    OBVIOUS
  <2>3. Suits(node, f)
    BY <1>2, <2>1, <2>2, EmptyRange DEF Obeys
  <2>4. f = Restrict(T, wanted)
    <3>1. wanted = {i \in DOMAIN T : Wanted(T[i], n) /\ i \notin {}}
      BY <2>1, <2>2
    <3> QED BY <2>2, <3>1 DEF Burden
  <2>5. \A i \in wanted : i \in DOMAIN f /\ f[i] = T[i]
    BY <2>1, <2>2, <2>4 DEF Restrict
  <2> QED BY <2>2, <2>3, <2>4, <2>5 DEF Suits
<1>4. VolumesGuarded
  <2>1. SUFFICES ASSUME NEW v \in DOMAIN Volumes, NEW users,
                        users = {t \in Range(db.tasks) : Live(t) /\ t.vol = v /\ Placed(t)}
                 PROVE  /\ Volumes[v] = "none" => Cardinality(users) <= 1
                        /\ Volumes[v] = "node" => Cardinality({t.node : t \in users}) <= 1
                        /\ Drained(db.vols, {v}) # {} /\ v \notin updates.vols /\ enf.users = {} =>
                             \A t \in Range(db.tasks) : ~(Live(t) /\ t.wanted /\ t.vol = v)
    BY DEF VolumesGuarded
  <2>2. /\ Volumes[v] = "none" => Cardinality(users) <= 1
        /\ Volumes[v] = "node" => Cardinality({t.node : t \in users}) <= 1
    BY <2>1, VolumesInLimits
  <2>3. ASSUME Drained(db.vols, {v}) # {}, v \notin updates.vols, enf.users = {},
               NEW t \in Range(db.tasks), Live(t), t.wanted, t.vol = v
        PROVE  FALSE
    <3>1. PICK i : LiveIn(db.tasks, i) /\ db.tasks[i] = t
      BY <2>3 DEF Range, LiveIn
    <3>2. Draining(db.vols, v)
      BY <2>3 DEF Drained, Draining
    <3> QED BY <1>2, <2>3, <3>1, <3>2 DEF Drains
  <2> QED BY <2>2, <2>3
<1> QED BY <1>1, <1>3, <1>4 DEF WithinLimits

(* A prompt scheduler's decisions keep every limit: what a node has, its    *)
(* host ports, the replicas of a service there (filter.go) and who may      *)
(* share a volume (checkVolume), although the picture they are made on is   *)
(* behind the store and the store may refuse some of them; and what changes *)
(* the limits reaches the enforcers, however their looks, one task at a     *)
(* time, interleave with decisions and changes of the leader.               *)
THEOREM LimitsAlwaysKept == Spec /\ left.prompt => []WithinLimits
<1>1. VolumeInv /\ DecisionInv /\ PictureInv /\ LimitInv /\ left.prompt => WithinLimits
  BY LimitsKept DEF Invs, PictureInv, LimitInv
<1>2. Spec => []LimitInv
  BY LimitInit, LimitNext, PictureInvariant, VolumeInvariant, DecisionInvariant, PTL DEF Spec
<1> QED BY <1>1, <1>2, AlwaysPrompt, PictureInvariant, VolumeInvariant, DecisionInvariant, PTL

=============================================================================
