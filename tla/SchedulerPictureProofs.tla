----------------------- MODULE SchedulerPictureProofs -----------------------
(***************************************************************************)
(* Proofs about the scheduler's picture of the cluster: what it counts on  *)
(* each node and volume is, but for events it has yet to handle and        *)
(* decisions it has yet to write, what the store says, for any number of   *)
(* tasks, nodes and volumes and of steps of the rest of the swarm.         *)
(***************************************************************************)
EXTENDS SchedulerProofs

-----------------------------------------------------------------------------
(* What a set of tasks has on a node                                        *)

Fine(f) ==
  /\ DOMAIN f \subseteq Tasks
  /\ \A i \in DOMAIN f : f[i].svc \in Services /\ f[i].wanted \in BOOLEAN

(* Two functions that count the same.                                       *)
Alike(f, g) ==
  /\ DOMAIN f = DOMAIN g
  /\ \A i \in DOMAIN f : f[i].svc = g[i].svc /\ f[i].wanted = g[i].wanted

LEMMA NeedType ==
  ASSUME NEW f, Fine(f), NEW i \in DOMAIN f
  PROVE  Asked(f[i]).need \in Nat
BY NodeInfoAssumption DEF Fine, Asked

LEMMA UnitsIn ==
  ASSUME NEW f, NEW u
  PROVE  u \in Units(f) <=>
           \E i \in DOMAIN f : \E k \in 1..Asked(f[i]).need : u = <<i, k>>
BY DEF Units

LEMMA UnitsFinite ==
  ASSUME NEW f, Fine(f)
  PROVE  IsFiniteSet(Units(f)) /\ reserved(f) \in Nat
<1>1. IsFiniteSet(DOMAIN f)
  BY NodeInfoAssumption, FS_Subset DEF Fine
<1>2. PICK g : g = [i \in DOMAIN f |-> {i} \X (1..Asked(f[i]).need)]
  OBVIOUS
<1>3. ASSUME NEW i \in DOMAIN f PROVE IsFiniteSet(g[i])
  <2>1. IsFiniteSet(1..Asked(f[i]).need)
    BY NeedType, FS_Interval
  <2>2. IsFiniteSet({i} \X (1..Asked(f[i]).need))
    BY <2>1, FS_Singleton, FS_Product
  <2> QED BY <1>2, <2>2
<1>4. PICK G : G = {g[i] : i \in DOMAIN g}
  OBVIOUS
<1>5. IsFiniteSet(G)
  <2>1. DOMAIN g = DOMAIN f /\ g = [x \in DOMAIN g |-> g[x]]
    BY <1>2
  <2> QED BY <1>1, <1>4, <2>1, ImageFinite
<1>6. \A A \in G : IsFiniteSet(A)
  BY <1>2, <1>3, <1>4
<1>7. Units(f) = UNION G
  BY <1>2, <1>4 DEF Units
<1>8. IsFiniteSet(Units(f))
  BY <1>5, <1>6, <1>7, FS_UNION
<1> QED BY <1>8, FS_CardinalityType DEF reserved

LEMMA UnitsAlike ==
  ASSUME NEW f, NEW g, Alike(f, g)
  PROVE  /\ reserved(f) = reserved(g) /\ usedHostPorts(f) = usedHostPorts(g)
         /\ \A x : ActiveTasks(f, x) = ActiveTasks(g, x)
<1>1. \A i \in DOMAIN f : Asked(f[i]) = Asked(g[i]) /\ Ports(f[i]) = Ports(g[i])
  BY DEF Alike, Asked, Ports
<1>2. Units(f) = Units(g)
  BY <1>1 DEF Alike, Units
<1>3. usedHostPorts(f) = usedHostPorts(g)
  BY <1>1 DEF Alike, usedHostPorts
<1>4. \A x : ActiveTasks(f, x) = ActiveTasks(g, x)
  BY DEF Alike, ActiveTasks
<1> QED BY <1>2, <1>3, <1>4 DEF reserved

LEMMA RestFine ==
  ASSUME NEW f, Fine(f), NEW S \in SUBSET DOMAIN f
  PROVE  /\ Fine(Restrict(f, S)) /\ DOMAIN Restrict(f, S) = S
         /\ \A i \in S : Restrict(f, S)[i] = f[i]
BY DEF Fine, Restrict

(* What is counted in two parts adds up.                                    *)
LEMMA UnitsSplit ==
  ASSUME NEW f, Fine(f), NEW S \in SUBSET DOMAIN f
  PROVE  reserved(f) = reserved(Restrict(f, S)) + reserved(Restrict(f, DOMAIN f \ S))
<1>1. PICK g : g = Restrict(f, S)
  OBVIOUS
<1>2. PICK h : h = Restrict(f, DOMAIN f \ S)
  OBVIOUS
<1>3. Fine(g) /\ DOMAIN g = S /\ \A i \in S : g[i] = f[i]
  BY <1>1, RestFine
<1>4. Fine(h) /\ DOMAIN h = DOMAIN f \ S /\ \A i \in DOMAIN f \ S : h[i] = f[i]
  BY <1>2, RestFine
<1>5. Units(f) = Units(g) \cup Units(h)
  <2>1. ASSUME NEW u \in Units(f) PROVE u \in Units(g) \cup Units(h)
    BY <1>3, <1>4, <2>1, UnitsIn
  <2>2. ASSUME NEW u \in Units(g) \cup Units(h) PROVE u \in Units(f)
    BY <1>3, <1>4, <2>2, UnitsIn
  <2> QED BY <2>1, <2>2
<1>6. Units(g) \cap Units(h) = {}
  <2> SUFFICES ASSUME NEW u \in Units(g), u \in Units(h) PROVE FALSE
    OBVIOUS
  <2>1. PICK i, k : i \in DOMAIN g /\ u = <<i, k>>
    BY UnitsIn
  <2>2. PICK j, l : j \in DOMAIN h /\ u = <<j, l>>
    BY UnitsIn
  <2> QED BY <1>3, <1>4, <2>1, <2>2
<1>7. /\ IsFiniteSet(Units(g)) /\ IsFiniteSet(Units(h))
      /\ reserved(g) \in Nat /\ reserved(h) \in Nat
  BY <1>3, <1>4, UnitsFinite
<1>8. Cardinality(Units(f)) = Cardinality(Units(g)) + Cardinality(Units(h)) - 0
  BY <1>5, <1>6, <1>7, FS_Union, FS_EmptySet
<1> QED BY <1>1, <1>2, <1>7, <1>8 DEF reserved

LEMMA UnitsOne ==
  ASSUME NEW f, Fine(f), NEW i, DOMAIN f = {i}
  PROVE  reserved(f) = Asked(f[i]).need
<1>1. Asked(f[i]).need \in Nat
  BY NeedType
<1>2. Units(f) = {i} \X (1..Asked(f[i]).need)
  <2>1. PICK U : U = {i} \X (1..Asked(f[i]).need)
    OBVIOUS
  <2>2. {{j} \X (1..Asked(f[j]).need) : j \in DOMAIN f} = {U}
    BY <2>1
  <2>3. UNION {U} = U
    OBVIOUS
  <2> QED BY <2>1, <2>2, <2>3 DEF Units
<1>3. IsFiniteSet(1..Asked(f[i]).need) /\ Cardinality(1..Asked(f[i]).need) = Asked(f[i]).need
  BY <1>1, FS_Interval
<1>4. Cardinality(Units(f)) = 1 * Asked(f[i]).need
  <2>1. IsFiniteSet({i}) /\ Cardinality({i}) = 1
    BY FS_Singleton
  <2>2. PICK U : U = 1..Asked(f[i]).need
    OBVIOUS
  <2>3. Cardinality({i} \X U) = Cardinality({i}) * Cardinality(U)
    BY <1>3, <2>1, <2>2, FS_Product
  <2> QED BY <1>2, <1>3, <2>1, <2>2, <2>3
<1> QED BY <1>1, <1>4 DEF reserved

LEMMA ActiveIn ==
  ASSUME NEW f, Fine(f), NEW x
  PROVE  /\ ActiveTasks(f, x) \subseteq DOMAIN f /\ IsFiniteSet(ActiveTasks(f, x))
         /\ Cardinality(ActiveTasks(f, x)) \in 0..Cardinality(Tasks)
<1>1. ActiveTasks(f, x) \subseteq DOMAIN f /\ DOMAIN f \subseteq Tasks
  BY DEF ActiveTasks, Fine
<1>2. IsFiniteSet(Tasks) /\ Cardinality(Tasks) \in Nat
  BY NodeInfoAssumption, FS_CardinalityType
<1>3. IsFiniteSet(ActiveTasks(f, x)) /\ Cardinality(ActiveTasks(f, x)) <= Cardinality(Tasks)
  BY <1>1, <1>2, FS_Subset
<1>4. Cardinality(ActiveTasks(f, x)) \in Nat
  BY <1>3, FS_CardinalityType
<1> QED BY <1>1, <1>2, <1>3, <1>4

-----------------------------------------------------------------------------
(* What is known of a node                                                  *)

(* No host port is used twice.                                              *)
Apart(f) == \A i, j \in DOMAIN f : i # j => Ports(f[i]) \cap Ports(f[j]) = {}

LEMMA InfoAlike ==
  ASSUME NEW node, NEW f, NEW g, Alike(f, g)
  PROVE  newNodeInfo(node, f) = newNodeInfo(node, g)
<1>1. /\ reserved(f) = reserved(g) /\ usedHostPorts(f) = usedHostPorts(g)
      /\ \A x : ActiveTasks(f, x) = ActiveTasks(g, x)
  BY UnitsAlike
<1>2. [i \in DOMAIN f |-> [svc |-> f[i].svc, wanted |-> f[i].wanted]]
        = [i \in DOMAIN g |-> [svc |-> g[i].svc, wanted |-> g[i].wanted]]
  BY DEF Alike
<1>3. [x \in Services |-> Cardinality(ActiveTasks(f, x))]
        = [x \in Services |-> Cardinality(ActiveTasks(g, x))]
  BY <1>1
<1> QED BY <1>1, <1>2, <1>3 DEF newNodeInfo

LEMMA InfoTasks ==
  ASSUME NEW node, NEW f, Fine(f)
  PROVE  /\ newNodeInfo(node, f).tasks
              = [i \in DOMAIN f |-> [svc |-> f[i].svc, wanted |-> f[i].wanted]]
         /\ Fine(newNodeInfo(node, f).tasks) /\ Alike(f, newNodeInfo(node, f).tasks)
<1>1. PICK g : g = [i \in DOMAIN f |-> [svc |-> f[i].svc, wanted |-> f[i].wanted]]
  OBVIOUS
<1>2. newNodeInfo(node, f).tasks = g
  BY <1>1 DEF newNodeInfo
<1>3. Fine(g) /\ Alike(f, g)
  BY <1>1 DEF Fine, Alike
<1> QED BY <1>1, <1>2, <1>3

LEMMA InfoRecord ==
  ASSUME NEW a, NEW b, NEW c, NEW d, NEW e, NEW ni,
         ni = [node |-> a, tasks |-> b, avail |-> c, ports |-> d, active |-> e]
  PROVE  /\ ni.node = a /\ ni.tasks = b /\ ni.avail = c /\ ni.ports = d /\ ni.active = e
         /\ \A w, x, y, z, m :
              \/ m = [ni EXCEPT !.tasks = w, !.active = x, !.ports = y, !.avail = z]
              \/ m = [ni EXCEPT !.tasks = w, !.active = x, !.avail = z, !.ports = y]
              => m = [node |-> a, tasks |-> w, avail |-> z, ports |-> y, active |-> x]
         /\ \A y, z, m :
              m = [ni EXCEPT !.node = y, !.avail = z]
              => m = [node |-> y, tasks |-> b, avail |-> z, ports |-> d, active |-> e]
<1>1. ni.node = a /\ ni.tasks = b /\ ni.avail = c /\ ni.ports = d /\ ni.active = e
  OBVIOUS
<1>2. DOMAIN ni = {"node", "tasks", "avail", "ports", "active"}
  OBVIOUS
<1>3. ASSUME NEW m, DOMAIN m = {"node", "tasks", "avail", "ports", "active"},
             m = [k \in DOMAIN m |-> m[k]]
      PROVE  m = [node |-> m.node, tasks |-> m.tasks, avail |-> m.avail,
                  ports |-> m.ports, active |-> m.active]
  BY <1>3
<1>4. ASSUME NEW w, NEW x, NEW y, NEW z, NEW m,
             \/ m = [ni EXCEPT !.tasks = w, !.active = x, !.ports = y, !.avail = z]
             \/ m = [ni EXCEPT !.tasks = w, !.active = x, !.avail = z, !.ports = y]
      PROVE  m = [node |-> a, tasks |-> w, avail |-> z, ports |-> y, active |-> x]
  <2>1. /\ DOMAIN m = {"node", "tasks", "avail", "ports", "active"}
        /\ m = [k \in DOMAIN m |-> m[k]]
        /\ m.node = a /\ m.tasks = w /\ m.avail = z /\ m.ports = y /\ m.active = x
    BY <1>1, <1>2, <1>4
  <2> QED BY <1>3, <2>1
<1>5. ASSUME NEW y, NEW z, NEW m, m = [ni EXCEPT !.node = y, !.avail = z]
      PROVE  m = [node |-> y, tasks |-> b, avail |-> z, ports |-> d, active |-> e]
  <2>1. /\ DOMAIN m = {"node", "tasks", "avail", "ports", "active"}
        /\ m = [k \in DOMAIN m |-> m[k]]
        /\ m.node = y /\ m.tasks = b /\ m.avail = z /\ m.ports = d /\ m.active = e
    BY <1>1, <1>2, <1>5
  <2> QED BY <1>3, <2>1
<1> QED BY <1>1, <1>4, <1>5

LEMMA InfoRemove ==
  ASSUME NEW node, node.room \in Int, NEW f, Fine(f), Apart(f), NEW T
  PROVE  removeTasks(newNodeInfo(node, f), T)
           = newNodeInfo(node, Restrict(f, DOMAIN f \ {t.id : t \in T}))
<1>1. PICK ids : ids = {t.id : t \in T}
  OBVIOUS
<1>2. PICK g : g = newNodeInfo(node, f).tasks
  OBVIOUS
<1>3. /\ g = [i \in DOMAIN f |-> [svc |-> f[i].svc, wanted |-> f[i].wanted]]
      /\ Fine(g) /\ Alike(f, g)
  BY <1>2, InfoTasks
<1>4. PICK gone : gone = DOMAIN g \cap ids
  OBVIOUS
<1>5. PICK old : old = Restrict(g, gone)
  OBVIOUS
<1>6. PICK h : h = Restrict(f, DOMAIN f \ ids)
  OBVIOUS
<1>7. DOMAIN g = DOMAIN f /\ gone \subseteq DOMAIN f /\ DOMAIN f \ gone = DOMAIN f \ ids
  BY <1>3, <1>4 DEF Alike
<1>8. Fine(h) /\ DOMAIN h = DOMAIN f \ ids /\ \A i \in DOMAIN h : h[i] = f[i]
  BY <1>6, RestFine
<1>9. Fine(old) /\ DOMAIN old = gone /\ \A i \in gone : old[i] = g[i]
  BY <1>3, <1>5, <1>7, RestFine
<1>10. PICK were : were = Restrict(f, gone)
  OBVIOUS
<1>11. Fine(were) /\ DOMAIN were = gone /\ \A i \in gone : were[i] = f[i]
  BY <1>7, <1>10, RestFine
<1>12. Alike(were, old)
  BY <1>3, <1>7, <1>9, <1>11 DEF Alike
<1>13. PICK tasks : tasks = Restrict(g, DOMAIN g \ gone)
  OBVIOUS
<1>14. tasks = [i \in DOMAIN h |-> [svc |-> h[i].svc, wanted |-> h[i].wanted]]
  BY <1>3, <1>7, <1>8, <1>13 DEF Restrict
<1>15. reserved(f) = reserved(old) + reserved(h)
  BY <1>6, <1>7, <1>10, <1>12, UnitsSplit, UnitsAlike
<1>16. reserved(f) \in Nat /\ reserved(old) \in Nat /\ reserved(h) \in Nat
  BY <1>8, <1>9, UnitsFinite
<1>17. (node.room - reserved(f)) + reserved(old) = node.room - reserved(h)
  BY <1>15, <1>16
<1>18. usedHostPorts(f) \ usedHostPorts(old) = usedHostPorts(h)
  <2>1. usedHostPorts(old) = usedHostPorts(were)
    BY <1>12, UnitsAlike
  <2>2. ASSUME NEW p \in usedHostPorts(f), p \notin usedHostPorts(were)
        PROVE  p \in usedHostPorts(h)
    BY <1>7, <1>8, <1>11, <2>2 DEF usedHostPorts
  <2>3. ASSUME NEW p \in usedHostPorts(h)
        PROVE  p \in usedHostPorts(f) /\ p \notin usedHostPorts(were)
    BY <1>7, <1>8, <1>11, <2>3 DEF usedHostPorts, Apart
  <2> QED BY <2>1, <2>2, <2>3
<1>19. ASSUME NEW x \in Services
       PROVE  Cardinality(ActiveTasks(f, x)) - Cardinality(ActiveTasks(old, x))
                = Cardinality(ActiveTasks(h, x))
  <2>1. ActiveTasks(old, x) = ActiveTasks(were, x)
    BY <1>12, UnitsAlike
  <2>2. /\ ActiveTasks(h, x) = ActiveTasks(f, x) \ ActiveTasks(were, x)
        /\ ActiveTasks(f, x) \cap ActiveTasks(were, x) = ActiveTasks(were, x)
    BY <1>7, <1>8, <1>11 DEF ActiveTasks
  <2>3. /\ IsFiniteSet(ActiveTasks(f, x)) /\ Cardinality(ActiveTasks(f, x)) \in Nat
        /\ IsFiniteSet(ActiveTasks(were, x)) /\ Cardinality(ActiveTasks(were, x)) \in Nat
    BY <1>11, ActiveIn, FS_CardinalityType
  <2>4. PICK A, B : A = ActiveTasks(f, x) /\ B = ActiveTasks(were, x)
    OBVIOUS
  <2>5. Cardinality(A \ B) = Cardinality(A) - Cardinality(A \cap B)
    BY <2>3, <2>4, FS_Difference
  <2> QED BY <2>1, <2>2, <2>4, <2>5
<1>20. PICK active : active = [x \in Services |-> Cardinality(ActiveTasks(f, x))]
  OBVIOUS
<1>21. [x \in Services |-> active[x] - Cardinality(ActiveTasks(old, x))]
         = [x \in Services |-> Cardinality(ActiveTasks(h, x))]
  BY <1>19, <1>20
<1>22. newNodeInfo(node, f) = [node |-> node, tasks |-> g, avail |-> node.room - reserved(f),
                               ports |-> usedHostPorts(f), active |-> active]
  BY <1>3, <1>20 DEF newNodeInfo
<1>23. newNodeInfo(node, h) = [node |-> node, tasks |-> tasks,
                               avail |-> node.room - reserved(h), ports |-> usedHostPorts(h),
                               active |-> [x \in Services |-> Cardinality(ActiveTasks(h, x))]]
  BY <1>14 DEF newNodeInfo
<1>24. removeTasks(newNodeInfo(node, f), T)
         = [node |-> node, tasks |-> tasks,
            avail |-> (node.room - reserved(f)) + reserved(old),
            ports |-> usedHostPorts(f) \ usedHostPorts(old),
            active |-> [x \in Services |-> active[x] - Cardinality(ActiveTasks(old, x))]]
  <2>1. PICK ni : ni = newNodeInfo(node, f)
    OBVIOUS
  <2>2. /\ ni = [node |-> node, tasks |-> g, avail |-> node.room - reserved(f),
                 ports |-> usedHostPorts(f), active |-> active]
        /\ ni.tasks = g
    BY <1>2, <1>22, <2>1
  <2>3. removeTasks(ni, T) =
          [ni EXCEPT !.tasks = Restrict(ni.tasks, DOMAIN ni.tasks \ gone),
                     !.active = [x \in Services |->
                                   ni.active[x] - Cardinality(ActiveTasks(old, x))],
                     !.ports = ni.ports \ usedHostPorts(old),
                     !.avail = ni.avail + reserved(old)]
    BY <1>1, <1>4, <1>5, <2>2 DEF removeTasks
  <2>4. ni.active = active /\ ni.ports = usedHostPorts(f) /\ ni.avail = node.room - reserved(f)
    BY <2>2
  <2>5. removeTasks(ni, T) =
          [ni EXCEPT !.tasks = tasks,
                     !.active = [x \in Services |->
                                   active[x] - Cardinality(ActiveTasks(old, x))],
                     !.ports = usedHostPorts(f) \ usedHostPorts(old),
                     !.avail = (node.room - reserved(f)) + reserved(old)]
    BY <1>13, <2>2, <2>3, <2>4
  <2>6. PICK m, x, y, z :
          /\ m = removeTasks(ni, T)
          /\ x = [v \in Services |-> active[v] - Cardinality(ActiveTasks(old, v))]
          /\ y = usedHostPorts(f) \ usedHostPorts(old)
          /\ z = (node.room - reserved(f)) + reserved(old)
    OBVIOUS
  <2>7. m = [ni EXCEPT !.tasks = tasks, !.active = x, !.ports = y, !.avail = z]
    BY <2>5, <2>6
  <2>8. m = [node |-> node, tasks |-> tasks, avail |-> z, ports |-> y, active |-> x]
    BY <2>2, <2>7, InfoRecord
  <2> QED BY <2>1, <2>6, <2>8
<1>25. removeTasks(newNodeInfo(node, f), T) = newNodeInfo(node, h)
  BY <1>17, <1>18, <1>21, <1>23, <1>24
<1> QED BY <1>1, <1>6, <1>25

LEMMA PutFine ==
  ASSUME NEW f, Fine(f), NEW t, t.id \in Tasks, t.svc \in Services, t.wanted \in BOOLEAN
  PROVE  /\ Fine(Put(f, t.id, t)) /\ DOMAIN Put(f, t.id, t) = DOMAIN f \cup {t.id}
         /\ Put(f, t.id, t)[t.id] = t
         /\ \A i \in DOMAIN f : i # t.id => Put(f, t.id, t)[i] = f[i]
BY DEF Put, Fine

LEMMA ReservedPut ==
  ASSUME NEW f, Fine(f), NEW t, t.id \in Tasks, t.svc \in Services, t.wanted \in BOOLEAN
  PROVE  /\ t.id \in DOMAIN f /\ f[t.id].svc = t.svc =>
              reserved(Put(f, t.id, t)) = reserved(f)
         /\ t.id \notin DOMAIN f =>
              reserved(Put(f, t.id, t)) = reserved(f) + Asked(t).need
<1>1. PICK h : h = Put(f, t.id, t)
  OBVIOUS
<1>2. /\ Fine(h) /\ DOMAIN h = DOMAIN f \cup {t.id} /\ h[t.id] = t
      /\ \A i \in DOMAIN f : i # t.id => h[i] = f[i]
  BY <1>1, PutFine
<1>3. ASSUME t.id \in DOMAIN f, f[t.id].svc = t.svc PROVE reserved(h) = reserved(f)
  <2>1. DOMAIN f = DOMAIN h /\ \A i \in DOMAIN f : h[i].svc = f[i].svc
    BY <1>2, <1>3
  <2>2. Units(f) = Units(h)
    BY <2>1, UnitsIn DEF Asked, Units
  <2> QED BY <2>2 DEF reserved
<1>4. ASSUME t.id \notin DOMAIN f PROVE reserved(h) = reserved(f) + Asked(t).need
  <2>1. PICK g : g = Restrict(h, {t.id})
    OBVIOUS
  <2>2. PICK k : k = Restrict(h, DOMAIN h \ {t.id})
    OBVIOUS
  <2>3. Fine(g) /\ DOMAIN g = {t.id} /\ g[t.id] = t
    BY <1>2, <2>1, RestFine
  <2>4. DOMAIN k = DOMAIN h \ {t.id} /\ \A i \in DOMAIN k : k[i] = h[i]
    BY <1>2, <2>2, RestFine
  <2>5. Alike(f, k)
    BY <1>2, <1>4, <2>4 DEF Alike
  <2>6. reserved(h) = reserved(g) + reserved(k)
    BY <1>2, <2>1, <2>2, UnitsSplit
  <2>7. reserved(k) = reserved(f) /\ reserved(g) = Asked(t).need
    BY <2>3, <2>5, UnitsAlike, UnitsOne
  <2>8. reserved(f) \in Nat /\ Asked(t).need \in Nat
    BY <2>3, UnitsFinite, NeedType
  <2> QED BY <2>6, <2>7, <2>8
<1> QED BY <1>1, <1>3, <1>4

LEMMA ActivePut ==
  ASSUME NEW f, Fine(f), NEW t, t.id \in Tasks, t.svc \in Services, t.wanted \in BOOLEAN,
         t.id \in DOMAIN f => f[t.id].svc = t.svc, NEW x
  PROVE  /\ x # t.svc => ActiveTasks(Put(f, t.id, t), x) = ActiveTasks(f, x)
         /\ t.wanted => ActiveTasks(Put(f, t.id, t), t.svc) = ActiveTasks(f, t.svc) \cup {t.id}
         /\ ~t.wanted => ActiveTasks(Put(f, t.id, t), t.svc) = ActiveTasks(f, t.svc) \ {t.id}
         /\ t.id \in ActiveTasks(f, t.svc) <=> t.id \in DOMAIN f /\ f[t.id].wanted
<1>1. PICK h : h = Put(f, t.id, t)
  OBVIOUS
<1>2. /\ DOMAIN h = DOMAIN f \cup {t.id} /\ h[t.id] = t
      /\ \A i \in DOMAIN f : i # t.id => h[i] = f[i]
  BY <1>1 DEF Put
<1>3. x # t.svc => ActiveTasks(h, x) = ActiveTasks(f, x)
  BY <1>2 DEF ActiveTasks
<1>4. t.wanted => ActiveTasks(h, t.svc) = ActiveTasks(f, t.svc) \cup {t.id}
  BY <1>2 DEF ActiveTasks
<1>5. ~t.wanted => ActiveTasks(h, t.svc) = ActiveTasks(f, t.svc) \ {t.id}
  BY <1>2 DEF ActiveTasks
<1>6. t.id \in ActiveTasks(f, t.svc) <=> t.id \in DOMAIN f /\ f[t.id].wanted
  BY Zenon DEF ActiveTasks
<1> QED BY <1>1, <1>3, <1>4, <1>5, <1>6

LEMMA InfoAdd ==
  ASSUME NEW node, node.room \in Int, NEW f, Fine(f),
         NEW t, t.id \in Tasks, t.svc \in Services, t.wanted \in BOOLEAN,
         t.id \in DOMAIN f => f[t.id].svc = t.svc
  PROVE  addTask(newNodeInfo(node, f), t) = newNodeInfo(node, Put(f, t.id, t))
<1>1. PICK h : h = Put(f, t.id, t)
  OBVIOUS
<1>2. /\ Fine(h) /\ DOMAIN h = DOMAIN f \cup {t.id} /\ h[t.id] = t
      /\ \A i \in DOMAIN f : i # t.id => h[i] = f[i]
  BY <1>1, PutFine
<1>3. PICK ni, g, active :
        /\ ni = newNodeInfo(node, f) /\ g = ni.tasks
        /\ active = [x \in Services |-> Cardinality(ActiveTasks(f, x))]
  OBVIOUS
<1>4. /\ g = [i \in DOMAIN f |-> [svc |-> f[i].svc, wanted |-> f[i].wanted]]
      /\ Fine(g) /\ Alike(f, g) /\ DOMAIN g = DOMAIN f
  BY <1>3, InfoTasks DEF Alike
<1>5. ni = [node |-> node, tasks |-> g, avail |-> node.room - reserved(f),
            ports |-> usedHostPorts(f), active |-> active]
  BY <1>3, <1>4 DEF newNodeInfo
<1>6. /\ ni.tasks = g /\ ni.active = active /\ ni.ports = usedHostPorts(f)
      /\ ni.avail = node.room - reserved(f)
  BY <1>5, InfoRecord
<1>7. PICK n :
        n = (IF t.wanted THEN 1 ELSE 0) - (IF t.id \in DOMAIN f /\ f[t.id].wanted THEN 1 ELSE 0)
  OBVIOUS
<1>8. PICK w, x, y, z :
        /\ w = Put(g, t.id, [svc |-> t.svc, wanted |-> t.wanted])
        /\ x = [active EXCEPT ![t.svc] = active[t.svc] + n]
        /\ y = usedHostPorts(f) \cup (IF t.id \in DOMAIN f THEN {} ELSE Ports(t))
        /\ z = (node.room - reserved(f)) - (IF t.id \in DOMAIN f THEN 0 ELSE Asked(t).need)
  OBVIOUS
<1>9. PICK m : m = addTask(ni, t)
  OBVIOUS
<1>10. m = [ni EXCEPT !.tasks = w, !.active = x, !.avail = z, !.ports = y]
  <2>1. t.id \in DOMAIN ni.tasks /\ ni.tasks[t.id].wanted
          <=> t.id \in DOMAIN f /\ f[t.id].wanted
    BY <1>4, <1>6
  <2>2. t.id \in DOMAIN ni.tasks <=> t.id \in DOMAIN f
    BY <1>4, <1>6
  <2>3. m = [ni EXCEPT !.tasks = Put(ni.tasks, t.id, [svc |-> t.svc, wanted |-> t.wanted]),
                       !.active = [ni.active EXCEPT ![t.svc] = ni.active[t.svc] + n],
                       !.avail = ni.avail - (IF t.id \in DOMAIN ni.tasks THEN 0 ELSE Asked(t).need),
                       !.ports = ni.ports \cup (IF t.id \in DOMAIN ni.tasks THEN {} ELSE Ports(t))]
    BY <1>7, <1>9, <2>1 DEF addTask
  <2> QED BY <1>6, <1>8, <2>2, <2>3
<1>11. m = [node |-> node, tasks |-> w, avail |-> z, ports |-> y, active |-> x]
  BY <1>5, <1>10, InfoRecord
<1>12. w = [i \in DOMAIN h |-> [svc |-> h[i].svc, wanted |-> h[i].wanted]]
  BY <1>2, <1>4, <1>8 DEF Put
<1>13. z = node.room - reserved(h)
  <2>1. CASE t.id \in DOMAIN f
    <3>1. reserved(h) = reserved(f) /\ reserved(f) \in Nat
      BY <1>1, <2>1, ReservedPut, UnitsFinite
    <3> QED BY <1>8, <2>1, <3>1
  <2>2. CASE t.id \notin DOMAIN f
    <3>1. /\ reserved(h) = reserved(f) + Asked(t).need /\ reserved(f) \in Nat
          /\ Asked(t).need \in Nat
      BY <1>1, <1>2, <2>2, ReservedPut, UnitsFinite, NeedType
    <3> QED BY <1>8, <2>2, <3>1
  <2> QED BY <2>1, <2>2
<1>14. y = usedHostPorts(h)
  <2>1. CASE t.id \in DOMAIN f
    <3>1. DOMAIN f = DOMAIN h /\ \A i \in DOMAIN f : Ports(h[i]) = Ports(f[i])
      BY <1>2, <2>1 DEF Ports, Asked
    <3> QED BY <1>8, <2>1, <3>1 DEF usedHostPorts
  <2>2. CASE t.id \notin DOMAIN f
    BY <1>2, <1>8, <2>2 DEF usedHostPorts
  <2> QED BY <2>1, <2>2
<1>15. x = [v \in Services |-> Cardinality(ActiveTasks(h, v))]
  <2>1. ASSUME NEW v \in Services, v # t.svc PROVE ActiveTasks(h, v) = ActiveTasks(f, v)
    BY <1>1, <2>1, ActivePut
  <2>2. PICK A : A = ActiveTasks(f, t.svc)
    OBVIOUS
  <2>3. IsFiniteSet(A) /\ Cardinality(A) \in Nat
    BY <2>2, ActiveIn, FS_CardinalityType
  <2>5. n = (IF t.wanted THEN 1 ELSE 0) - (IF t.id \in A THEN 1 ELSE 0)
    <3>1. t.id \in A <=> t.id \in DOMAIN f /\ f[t.id].wanted
      BY <2>2, ActivePut
    <3> QED BY <1>7, <3>1
  <2>4. Cardinality(ActiveTasks(h, t.svc)) = Cardinality(A) + n
    <3>1. CASE t.wanted
      <4>1. ActiveTasks(h, t.svc) = A \cup {t.id}
        BY <1>1, <2>2, <3>1, ActivePut
      <4>2. Cardinality(A \cup {t.id}) = IF t.id \in A THEN Cardinality(A) ELSE Cardinality(A) + 1
        BY <2>3, FS_AddElement
      <4> QED BY <2>3, <2>5, <3>1, <4>1, <4>2
    <3>2. CASE ~t.wanted
      <4>1. ActiveTasks(h, t.svc) = A \ {t.id}
        BY <1>1, <2>2, <3>2, ActivePut
      <4>2. Cardinality(A \ {t.id}) = IF t.id \in A THEN Cardinality(A) - 1 ELSE Cardinality(A)
        BY <2>3, FS_RemoveElement
      <4> QED BY <2>3, <2>5, <3>2, <4>1, <4>2
    <3> QED BY <3>1, <3>2
  <2> QED BY <1>3, <1>8, <2>1, <2>2, <2>4
<1>16. m = newNodeInfo(node, h)
  BY <1>11, <1>12, <1>13, <1>14, <1>15 DEF newNodeInfo
<1> QED BY <1>1, <1>3, <1>9, <1>16

(* The node has changed.                                                    *)
Renewed(ni, node) == [ni EXCEPT !.node = node, !.avail = node.room - reserved(ni.tasks)]

LEMMA InfoUpdate ==
  ASSUME NEW old, NEW node, node.room \in Int, NEW f, Fine(f)
  PROVE  Renewed(newNodeInfo(old, f), node) = newNodeInfo(node, f)
<1>1. PICK ni, g, active :
        /\ ni = newNodeInfo(old, f) /\ g = ni.tasks
        /\ active = [x \in Services |-> Cardinality(ActiveTasks(f, x))]
  OBVIOUS
<1>2. Alike(f, g) /\ g = [i \in DOMAIN f |-> [svc |-> f[i].svc, wanted |-> f[i].wanted]]
  BY <1>1, InfoTasks
<1>3. reserved(g) = reserved(f)
  BY <1>2, UnitsAlike
<1>4. ni = [node |-> old, tasks |-> g, avail |-> old.room - reserved(f),
            ports |-> usedHostPorts(f), active |-> active]
  BY <1>1, <1>2 DEF newNodeInfo
<1>5. PICK z, m : /\ z = node.room - reserved(ni.tasks)
                  /\ m = [ni EXCEPT !.node = node, !.avail = z]
  OBVIOUS
<1>6. m = [node |-> node, tasks |-> g, avail |-> z, ports |-> usedHostPorts(f),
           active |-> active]
  BY <1>4, <1>5, InfoRecord
<1>7. m = newNodeInfo(node, f)
  BY <1>1, <1>2, <1>3, <1>5, <1>6 DEF newNodeInfo
<1> QED BY <1>1, <1>5, <1>7 DEF Renewed

-----------------------------------------------------------------------------
(* The tasks known and what is counted on the nodes                         *)

(* A task or a copy of one in scenario l.                                   *)
TaskOK(l, t) ==
  /\ IsTask(t) /\ t.id \in DOMAIN l.of /\ t.svc = l.of[t.id] /\ t.svc \in Services
  /\ t.wanted \in BOOLEAN /\ t.node \in Nodes \cup {None}
  /\ t.state <= TaskStatePending => t.node = l.pre[t.id]
  /\ Live(t) => t.node \in Nodes /\ t.vol = Asked(t).volume

AllOK(l, f) == \A i \in DOMAIN f : f[i].id = i /\ TaskOK(l, f[i])

LiveIn(A, i) == i \in DOMAIN A /\ Live(A[i])

NodeOK(l, n, node) ==
  /\ node.id = n /\ n \in DOMAIN l.room /\ node.room \in Nat /\ node.room <= l.room[n]
  /\ node.label \in BOOLEAN /\ {"state", "label", "room"} \subseteq DOMAIN node

(* What the tasks in f have on node n is within the limits.                 *)
Within(l, n, f) ==
  /\ Apart(f) /\ reserved(f) <= l.room[n]
  /\ \A x \in Services :
       Specs[x].max > 0 => Cardinality(ActiveTasks(f, x)) <= Specs[x].max

RoomOK(l) == DOMAIN l.room \subseteq Nodes /\ \A n \in DOMAIN l.room : l.room[n] \in Nat

(* The nodes N are counted right for the tasks A.                           *)
NodePic(l, A, N) ==
  /\ N = [n \in DOMAIN N |-> N[n]]
  /\ \A n \in DOMAIN N :
       /\ NodeOK(l, n, N[n].node) /\ N[n] = newNodeInfo(N[n].node, LiveAt(A, n))
       /\ Within(l, n, LiveAt(A, n))

(* The tasks assigned in B are those assigned in A, but for S.              *)
Lost(A, B, S) ==
  \A i \in Tasks :
    /\ LiveIn(B, i) <=> LiveIn(A, i) /\ i \notin S
    /\ LiveIn(B, i) => /\ B[i].svc = A[i].svc /\ B[i].wanted = A[i].wanted
                       /\ B[i].node = A[i].node /\ B[i].vol = A[i].vol

LEMMA LiveAtIn ==
  ASSUME NEW A, NEW n
  PROVE  /\ \A i : i \in DOMAIN LiveAt(A, n) <=> LiveIn(A, i) /\ A[i].node = n
         /\ \A i \in DOMAIN LiveAt(A, n) : LiveAt(A, n)[i] = A[i]
BY DEF LiveAt, LiveIn, Restrict

LEMMA LiveAtFine ==
  ASSUME NEW l, NEW A, AllOK(l, A), NEW n
  PROVE  Fine(LiveAt(A, n))
<1>1. \A i \in DOMAIN A : i \in Tasks /\ A[i].svc \in Services /\ A[i].wanted \in BOOLEAN
  BY DEF AllOK, TaskOK, IsTask
<1> QED BY <1>1, LiveAtIn DEF Fine, LiveIn

LEMMA WithinLess ==
  ASSUME NEW l, NEW n, l.room[n] \in Nat, NEW f, Fine(f), Within(l, n, f),
         NEW g, Fine(g), DOMAIN g \subseteq DOMAIN f,
         \A i \in DOMAIN g : g[i].svc = f[i].svc /\ (g[i].wanted => f[i].wanted)
  PROVE  Within(l, n, g)
<1>1. \A i \in DOMAIN g : Asked(g[i]) = Asked(f[i]) /\ Ports(g[i]) = Ports(f[i])
  BY DEF Asked, Ports
<1>2. Apart(g)
  BY <1>1 DEF Apart, Within
<1>3. reserved(g) <= l.room[n]
  <2>1. Units(g) \subseteq Units(f)
    BY <1>1, UnitsIn
  <2>2. /\ IsFiniteSet(Units(f)) /\ reserved(f) \in Nat /\ reserved(g) \in Nat
    BY UnitsFinite
  <2>3. Cardinality(Units(g)) <= Cardinality(Units(f))
    BY <2>1, <2>2, FS_Subset
  <2> QED BY <2>2, <2>3 DEF Within, reserved
<1>4. ASSUME NEW x \in Services, Specs[x].max > 0
      PROVE  Cardinality(ActiveTasks(g, x)) <= Specs[x].max
  <2>1. ActiveTasks(g, x) \subseteq ActiveTasks(f, x)
    BY DEF ActiveTasks
  <2>2. /\ IsFiniteSet(ActiveTasks(f, x)) /\ IsFiniteSet(ActiveTasks(g, x))
        /\ Cardinality(ActiveTasks(f, x)) \in Nat /\ Cardinality(ActiveTasks(g, x)) \in Nat
    BY ActiveIn, FS_CardinalityType
  <2>3. Cardinality(ActiveTasks(g, x)) <= Cardinality(ActiveTasks(f, x))
    BY <2>1, <2>2, FS_Subset
  <2>4. Cardinality(ActiveTasks(f, x)) <= Specs[x].max /\ Specs[x].max \in Nat
    BY <1>4, NodeInfoAssumption DEF Within
  <2> QED BY <2>2, <2>3, <2>4
<1> QED BY <1>2, <1>3, <1>4 DEF Within

LEMMA LostAt ==
  ASSUME NEW l, NEW A, AllOK(l, A), NEW B, AllOK(l, B), NEW S, Lost(A, B, S), NEW n
  PROVE  Alike(LiveAt(B, n), Restrict(LiveAt(A, n), DOMAIN LiveAt(A, n) \ S))
<1>1. PICK f, g : f = LiveAt(A, n) /\ g = LiveAt(B, n)
  OBVIOUS
<1>2. Fine(f) /\ Fine(g)
  BY <1>1, LiveAtFine
<1>3. PICK h : h = Restrict(f, DOMAIN f \ S)
  OBVIOUS
<1>4. DOMAIN h = DOMAIN f \ S /\ \A i \in DOMAIN h : h[i] = f[i]
  BY <1>2, <1>3, RestFine
<1>5. ASSUME NEW i \in DOMAIN g
      PROVE  i \in DOMAIN h /\ g[i].svc = h[i].svc /\ g[i].wanted = h[i].wanted
  <2>1. i \in Tasks /\ LiveIn(B, i) /\ B[i].node = n /\ g[i] = B[i]
    BY <1>1, <1>2, <1>5, LiveAtIn DEF Fine
  <2>2. /\ LiveIn(A, i) /\ i \notin S /\ B[i].svc = A[i].svc /\ B[i].wanted = A[i].wanted
        /\ A[i].node = n
    BY <2>1 DEF Lost
  <2>3. i \in DOMAIN f /\ f[i] = A[i]
    BY <1>1, <2>2, LiveAtIn
  <2> QED BY <1>4, <2>1, <2>2, <2>3
<1>6. ASSUME NEW i \in DOMAIN h PROVE i \in DOMAIN g
  <2>1. i \in Tasks /\ LiveIn(A, i) /\ A[i].node = n /\ i \notin S
    BY <1>1, <1>2, <1>4, <1>6, LiveAtIn DEF Fine
  <2>2. LiveIn(B, i) /\ B[i].node = n
    BY <2>1 DEF Lost
  <2> QED BY <1>1, <2>2, LiveAtIn
<1>7. DOMAIN g = DOMAIN h
  BY <1>5, <1>6
<1> QED BY <1>1, <1>3, <1>5, <1>7 DEF Alike

LEMMA NodesLost ==
  ASSUME NEW l, RoomOK(l), NEW A, AllOK(l, A), NEW B, AllOK(l, B), NEW N, NodePic(l, A, N),
         NEW T, Lost(A, B, {t.id : t \in T}),
         \A t \in T : LiveIn(A, t.id) => t.node = A[t.id].node
  PROVE  NodePic(l, B, Removed(N, T)) /\ DOMAIN Removed(N, T) = DOMAIN N
         /\ \A n \in DOMAIN N : Removed(N, T)[n].node = N[n].node
<1>1. PICK M : M = Removed(N, T)
  OBVIOUS
<1>2. M = [n \in DOMAIN N |-> removeTasks(N[n], {t \in T : t.node = n})]
  BY <1>1 DEF Removed
<1>3. DOMAIN M = DOMAIN N /\ M = [n \in DOMAIN M |-> M[n]]
  BY <1>2
<1>4. ASSUME NEW n \in DOMAIN N
      PROVE  /\ M[n] = newNodeInfo(N[n].node, LiveAt(B, n)) /\ M[n].node = N[n].node
             /\ NodeOK(l, n, N[n].node) /\ Within(l, n, LiveAt(B, n))
  <2>1. PICK f, g, node : f = LiveAt(A, n) /\ g = LiveAt(B, n) /\ node = N[n].node
    OBVIOUS
  <2>2. /\ Fine(f) /\ Fine(g) /\ NodeOK(l, n, node) /\ N[n] = newNodeInfo(node, f)
        /\ Within(l, n, f) /\ node.room \in Int /\ Apart(f)
    BY <2>1, LiveAtFine DEF NodePic, NodeOK, Within
  <2>3. PICK S, here : S = {t.id : t \in T} /\ here = {t \in T : t.node = n}
    OBVIOUS
  <2>4. DOMAIN f \ {t.id : t \in here} = DOMAIN f \ S
    <3>1. ASSUME NEW i \in DOMAIN f, i \in S PROVE i \in {t.id : t \in here}
      <4>1. PICK t \in T : t.id = i
        BY <2>3, <3>1
      <4>2. LiveIn(A, i) /\ A[i].node = n
        BY <2>1, <3>1, LiveAtIn
      <4> QED BY <2>3, <4>1, <4>2
    <3>2. \A i \in {t.id : t \in here} : i \in S
      BY <2>3
    <3> QED BY <3>1, <3>2
  <2>5. PICK h : h = Restrict(f, DOMAIN f \ S)
    OBVIOUS
  <2>6. removeTasks(newNodeInfo(node, f), here) = newNodeInfo(node, h)
    BY <2>2, <2>4, <2>5, InfoRemove
  <2>7. Alike(g, h)
    BY <2>1, <2>3, <2>5, LostAt
  <2>8. M[n] = newNodeInfo(node, g)
    BY <1>2, <2>2, <2>3, <2>6, <2>7, InfoAlike
  <2>9. M[n].node = node
    BY <2>8 DEF newNodeInfo
  <2>10. DOMAIN h \subseteq DOMAIN f /\ \A i \in DOMAIN h : h[i] = f[i]
    BY <2>2, <2>5, RestFine
  <2>11. /\ DOMAIN g \subseteq DOMAIN f
         /\ \A i \in DOMAIN g : g[i].svc = f[i].svc /\ (g[i].wanted => f[i].wanted)
    BY <2>7, <2>10 DEF Alike
  <2>12. l.room[n] \in Nat
    BY <2>2 DEF RoomOK, NodeOK
  <2>13. Within(l, n, g)
    BY <2>2, <2>11, <2>12, WithinLess
  <2> QED BY <2>1, <2>2, <2>8, <2>9, <2>13
<1>5. NodePic(l, B, M)
  BY <1>3, <1>4 DEF NodePic
<1> QED BY <1>1, <1>3, <1>4, <1>5

LEMMA NodesSame ==
  ASSUME NEW l, RoomOK(l), NEW A, AllOK(l, A), NEW B, AllOK(l, B), NEW N, NodePic(l, A, N),
         Lost(A, B, {})
  PROVE  NodePic(l, B, N)
<1> SUFFICES ASSUME NEW n \in DOMAIN N
             PROVE  /\ NodeOK(l, n, N[n].node) /\ N[n] = newNodeInfo(N[n].node, LiveAt(B, n))
                    /\ Within(l, n, LiveAt(B, n))
  BY DEF NodePic
<1>1. PICK f, g, node : f = LiveAt(A, n) /\ g = LiveAt(B, n) /\ node = N[n].node
  OBVIOUS
<1>2. /\ Fine(f) /\ Fine(g) /\ NodeOK(l, n, node) /\ N[n] = newNodeInfo(node, f)
      /\ Within(l, n, f)
  BY <1>1, LiveAtFine DEF NodePic
<1>3. PICK h : h = Restrict(f, DOMAIN f \ {})
  OBVIOUS
<1>4. DOMAIN h = DOMAIN f /\ \A i \in DOMAIN h : h[i] = f[i]
  BY <1>2, <1>3, RestFine
<1>5. Alike(g, h)
  BY <1>1, <1>3, LostAt
<1>6. Alike(f, g)
  BY <1>4, <1>5 DEF Alike
<1>7. N[n] = newNodeInfo(node, g)
  BY <1>2, <1>6, InfoAlike
<1>8. Within(l, n, g)
  <2>1. l.room[n] \in Nat
    BY <1>2 DEF RoomOK, NodeOK
  <2>2. /\ DOMAIN g \subseteq DOMAIN f
        /\ \A i \in DOMAIN g : g[i].svc = f[i].svc /\ (g[i].wanted => f[i].wanted)
    BY <1>6 DEF Alike
  <2> QED BY <1>2, <2>1, <2>2, WithinLess
<1> QED BY <1>1, <1>2, <1>7, <1>8

(* The tasks on a node when one more is known.                              *)
LEMMA LiveAtPut ==
  ASSUME NEW l, NEW A, AllOK(l, A), NEW t, TaskOK(l, t), Live(t), NEW n,
         LiveIn(A, t.id) => A[t.id].node = t.node
  PROVE  /\ AllOK(l, Put(A, t.id, t))
         /\ n = t.node => LiveAt(Put(A, t.id, t), n) = Put(LiveAt(A, n), t.id, t)
         /\ n # t.node => LiveAt(Put(A, t.id, t), n) = LiveAt(A, n)
<1>1. PICK B : B = Put(A, t.id, t)
  OBVIOUS
<1>2. /\ DOMAIN B = DOMAIN A \cup {t.id} /\ B[t.id] = t
      /\ \A i \in DOMAIN A : i # t.id => B[i] = A[i]
  BY <1>1 DEF Put
<1>3. AllOK(l, B)
  BY <1>2 DEF AllOK
<1>4. ASSUME n = t.node PROVE LiveAt(B, n) = Put(LiveAt(A, n), t.id, t)
  <2>1. {i \in DOMAIN B : Live(B[i]) /\ B[i].node = n}
          = {i \in DOMAIN A : Live(A[i]) /\ A[i].node = n} \cup {t.id}
    BY <1>2, <1>4 DEF LiveIn
  <2> QED BY <1>2, <2>1 DEF LiveAt, Put, Restrict
<1>5. ASSUME n # t.node PROVE LiveAt(B, n) = LiveAt(A, n)
  <2>1. {i \in DOMAIN B : Live(B[i]) /\ B[i].node = n}
          = {i \in DOMAIN A : Live(A[i]) /\ A[i].node = n}
    BY <1>2, <1>5 DEF LiveIn
  <2>2. t.id \notin {i \in DOMAIN A : Live(A[i]) /\ A[i].node = n}
    BY <1>5 DEF LiveIn
  <2> QED BY <1>2, <2>1, <2>2 DEF LiveAt, Restrict
<1> QED BY <1>1, <1>3, <1>4, <1>5

(* The nodes when task t is added to its own, if that is known.             *)

LEMMA NodesAdded ==
  ASSUME NEW l, RoomOK(l), NEW A, AllOK(l, A), NEW N, NodePic(l, A, N),
         NEW t, TaskOK(l, t), Live(t),
         LiveIn(A, t.id) => A[t.id].node = t.node,
         t.node \in DOMAIN N => Within(l, t.node, Put(LiveAt(A, t.node), t.id, t))
  PROVE  NodePic(l, Put(A, t.id, t), Added(N, t)) /\ DOMAIN Added(N, t) = DOMAIN N
         /\ \A n \in DOMAIN N : Added(N, t)[n].node = N[n].node
<1>1. PICK B, M : B = Put(A, t.id, t) /\ M = Added(N, t)
  OBVIOUS
<1>2. /\ N = [n \in DOMAIN N |-> N[n]] /\ DOMAIN M = DOMAIN N
      /\ M = [n \in DOMAIN M |-> M[n]]
      /\ \A n \in DOMAIN N : n # t.node => M[n] = N[n]
      /\ t.node \in DOMAIN N => M[t.node] = addTask(N[t.node], t)
  BY <1>1 DEF Added, NodePic
<1>3. ASSUME NEW n \in DOMAIN N
      PROVE  /\ M[n] = newNodeInfo(N[n].node, LiveAt(B, n)) /\ M[n].node = N[n].node
             /\ NodeOK(l, n, N[n].node) /\ Within(l, n, LiveAt(B, n))
  <2>1. PICK f, node : f = LiveAt(A, n) /\ node = N[n].node
    OBVIOUS
  <2>2. /\ Fine(f) /\ NodeOK(l, n, node) /\ N[n] = newNodeInfo(node, f)
        /\ Within(l, n, f) /\ node.room \in Int
    BY <2>1, LiveAtFine DEF NodePic, NodeOK
  <2>3. CASE n # t.node
    <3>1. LiveAt(B, n) = f /\ M[n] = N[n]
      BY <1>1, <1>2, <2>1, <2>3, LiveAtPut
    <3> QED BY <2>1, <2>2, <3>1
  <2>4. CASE n = t.node
    <3>1. LiveAt(B, n) = Put(f, t.id, t) /\ Within(l, n, Put(f, t.id, t))
      BY <1>1, <2>1, <2>4, LiveAtPut
    <3>2. t.id \in Tasks /\ t.svc \in Services /\ t.wanted \in BOOLEAN
      BY DEF TaskOK, IsTask
    <3>3. t.id \in DOMAIN f => f[t.id].svc = t.svc
      BY <2>1, LiveAtIn DEF LiveIn, AllOK, TaskOK
    <3>4. addTask(newNodeInfo(node, f), t) = newNodeInfo(node, Put(f, t.id, t))
      BY <2>2, <3>2, <3>3, InfoAdd
    <3>5. M[n] = newNodeInfo(node, Put(f, t.id, t))
      BY <1>2, <2>2, <2>4, <3>4
    <3>6. M[n].node = node
      BY <3>5 DEF newNodeInfo
    <3> QED BY <2>1, <2>2, <3>1, <3>5, <3>6
  <2> QED BY <2>3, <2>4
<1>4. NodePic(l, B, M)
  BY <1>2, <1>3 DEF NodePic
<1> QED BY <1>1, <1>2, <1>3, <1>4

(* A task that is assigned already is written again.                        *)
LEMMA NodesUpdated ==
  ASSUME NEW l, RoomOK(l), NEW A, AllOK(l, A), NEW N, NodePic(l, A, N),
         NEW t, TaskOK(l, t), Live(t), LiveIn(A, t.id), A[t.id].node = t.node,
         t.wanted => A[t.id].wanted
  PROVE  NodePic(l, Put(A, t.id, t), Added(N, t)) /\ DOMAIN Added(N, t) = DOMAIN N
         /\ \A n \in DOMAIN N : Added(N, t)[n].node = N[n].node
<1>1. ASSUME t.node \in DOMAIN N
      PROVE  Within(l, t.node, Put(LiveAt(A, t.node), t.id, t))
  <2>1. PICK f, g : f = LiveAt(A, t.node) /\ g = Put(f, t.id, t)
    OBVIOUS
  <2>2. Fine(f) /\ Within(l, t.node, f) /\ l.room[t.node] \in Nat
    BY <1>1, <2>1, LiveAtFine DEF NodePic, NodeOK, RoomOK
  <2>3. t.id \in DOMAIN f /\ f[t.id] = A[t.id] /\ f[t.id].svc = t.svc
    BY <2>1, LiveAtIn DEF LiveIn, AllOK, TaskOK
  <2>4. t.id \in Tasks /\ t.svc \in Services /\ t.wanted \in BOOLEAN
    BY DEF TaskOK, IsTask
  <2>5. /\ Fine(g) /\ DOMAIN g = DOMAIN f /\ g[t.id] = t
        /\ \A i \in DOMAIN f : i # t.id => g[i] = f[i]
    BY <2>1, <2>2, <2>3, <2>4, PutFine
  <2>6. \A i \in DOMAIN g : g[i].svc = f[i].svc /\ (g[i].wanted => f[i].wanted)
    BY <2>3, <2>5
  <2> QED BY <2>1, <2>2, <2>5, <2>6, WithinLess
<1> QED BY <1>1, NodesAdded

(* A task is claimed for a node that passes the filters.                    *)
LEMMA NodesClaimed ==
  ASSUME NEW l, RoomOK(l), NEW A, AllOK(l, A), NEW N, NodePic(l, A, N),
         NEW t, TaskOK(l, t), Live(t), ~LiveIn(A, t.id), t.node \in DOMAIN N,
         NEW V, NEW u, u.svc = t.svc, Process(N[t.node], V, u)
  PROVE  NodePic(l, Put(A, t.id, t), Added(N, t)) /\ DOMAIN Added(N, t) = DOMAIN N
         /\ \A n \in DOMAIN N : Added(N, t)[n].node = N[n].node
<1>1. PICK n, f, g, node : n = t.node /\ f = LiveAt(A, t.node) /\ g = Put(f, t.id, t)
                            /\ node = N[n].node
  OBVIOUS
<1>2. /\ Fine(f) /\ Within(l, n, f) /\ l.room[n] \in Nat /\ node.room \in Nat
      /\ node.room <= l.room[n] /\ N[n] = newNodeInfo(node, f)
  BY <1>1, LiveAtFine DEF NodePic, NodeOK, RoomOK
<1>3. t.id \notin DOMAIN f
  BY <1>1, LiveAtIn
<1>4. t.id \in Tasks /\ t.svc \in Services /\ t.wanted \in BOOLEAN
  BY DEF TaskOK, IsTask
<1>5. /\ Fine(g) /\ DOMAIN g = DOMAIN f \cup {t.id} /\ g[t.id] = t
      /\ \A i \in DOMAIN f : i # t.id => g[i] = f[i]
  <2>1. /\ Fine(Put(f, t.id, t)) /\ DOMAIN Put(f, t.id, t) = DOMAIN f \cup {t.id}
        /\ Put(f, t.id, t)[t.id] = t
        /\ \A i \in DOMAIN f : i # t.id => Put(f, t.id, t)[i] = f[i]
    BY <1>2, <1>4, PutFine, SMTT(20)
  <2> QED BY <1>1, <2>1
<1>6. /\ N[n].avail = node.room - reserved(f) /\ N[n].ports = usedHostPorts(f)
      /\ N[n].active[t.svc] = Cardinality(ActiveTasks(f, t.svc))
  BY <1>2, <1>4 DEF newNodeInfo
<1>7. Asked(u) = Asked(t) /\ Ports(u) = Ports(t)
  BY DEF Asked, Ports
<1>8. /\ Asked(t).need > 0 => Asked(t).need <= N[n].avail
      /\ Ports(t) \cap N[n].ports = {}
      /\ Asked(t).max > 0 => N[n].active[t.svc] < Asked(t).max
  <2>1. \A f1 \in Filters : Check(f1, N[n], V, u)
    BY <1>1 DEF Process
  <2>2. Check("resources", N[n], V, u) /\ Check("port", N[n], V, u) /\ Check("replicas", N[n], V, u)
    BY <2>1 DEF Filters
  <2> QED BY <1>7, <2>2 DEF Check, ResourceFilter, HostPortFilter, MaxReplicasFilter
<1>9. Apart(g)
  <2> SUFFICES ASSUME NEW i \in DOMAIN g, NEW j \in DOMAIN g, i # j
               PROVE  Ports(g[i]) \cap Ports(g[j]) = {}
    BY DEF Apart
  <2>1. \A k \in DOMAIN f : Ports(f[k]) \cap Ports(t) = {}
    BY <1>6, <1>8 DEF usedHostPorts
  <2>2. CASE i = t.id
    BY <1>5, <2>1, <2>2
  <2>3. CASE j = t.id
    BY <1>5, <2>1, <2>3
  <2>4. CASE i # t.id /\ j # t.id
    BY <1>2, <1>5, <2>4 DEF Within, Apart
  <2> QED BY <2>2, <2>3, <2>4
<1>10. reserved(g) <= l.room[n]
  <2>1. /\ reserved(g) = reserved(f) + Asked(t).need /\ reserved(f) \in Nat
        /\ Asked(t).need \in Nat
    BY <1>1, <1>2, <1>3, <1>4, <1>5, ReservedPut, UnitsFinite, NeedType
  <2>2. reserved(f) <= l.room[n]
    BY <1>2 DEF Within
  <2> QED BY <1>2, <1>6, <1>8, <2>1, <2>2
<1>11. ASSUME NEW x \in Services, Specs[x].max > 0
       PROVE  Cardinality(ActiveTasks(g, x)) <= Specs[x].max
  <2>1. Cardinality(ActiveTasks(f, x)) <= Specs[x].max /\ Specs[x].max \in Nat
    BY <1>2, <1>11, NodeInfoAssumption DEF Within
  <2>2. CASE x # t.svc
    <3>1. ActiveTasks(g, x) = ActiveTasks(f, x)
      BY <1>1, <1>2, <1>3, <1>4, <2>2, ActivePut
    <3> QED BY <2>1, <3>1
  <2>3. CASE x = t.svc
    <3>1. PICK A1 : A1 = ActiveTasks(f, x)
      OBVIOUS
    <3>2. IsFiniteSet(A1) /\ Cardinality(A1) \in Nat /\ Cardinality(A1) < Specs[x].max
      BY <1>2, <1>6, <1>8, <1>11, <2>3, <3>1, ActiveIn, FS_CardinalityType DEF Asked
    <3>3. ActiveTasks(g, x) = A1 \cup {t.id} \/ ActiveTasks(g, x) = A1 \ {t.id}
      BY <1>1, <1>2, <1>3, <1>4, <2>3, <3>1, ActivePut
    <3>4. Cardinality(A1 \cup {t.id}) \in {Cardinality(A1), Cardinality(A1) + 1}
      <4>1. Cardinality(A1 \cup {t.id})
              = IF t.id \in A1 THEN Cardinality(A1) ELSE Cardinality(A1) + 1
        BY <3>2, FS_AddElement
      <4> QED BY <4>1
    <3>5. Cardinality(A1 \ {t.id}) \in {Cardinality(A1), Cardinality(A1) - 1}
      <4>1. Cardinality(A1 \ {t.id})
              = IF t.id \in A1 THEN Cardinality(A1) - 1 ELSE Cardinality(A1)
        BY <3>2, FS_RemoveElement
      <4> QED BY <4>1
    <3>6. Cardinality(ActiveTasks(g, x)) \in Nat
      BY <1>5, ActiveIn, FS_CardinalityType
    <3>7. PICK c, k, m : /\ c = Cardinality(A1) /\ k = Cardinality(ActiveTasks(g, x))
                         /\ m = Specs[x].max
      OBVIOUS
    <3>8. k \in {c, c + 1, c - 1}
      BY <3>3, <3>4, <3>5, <3>7
    <3>9. c \in Nat /\ m \in Nat /\ c < m
      BY <2>1, <3>2, <3>7
    <3>10. k <= m
      BY <3>8, <3>9
    <3> QED BY <3>7, <3>10
  <2> QED BY <2>2, <2>3
<1>12. Within(l, n, g)
  BY <1>9, <1>10, <1>11 DEF Within
<1> QED BY <1>1, <1>12, NodesAdded

-----------------------------------------------------------------------------
(* The queue of events                                                      *)

IsSeq(q) == \E S : q \in Seq(S)

(* w has the elements of q, n in number, and then those of r.               *)
Joined(q, n, r, w) ==
  /\ IsSeq(w) /\ n \in Nat
  /\ \A a \in DOMAIN q : a \in Nat /\ a <= n /\ a \in DOMAIN w /\ w[a] = q[a]
  /\ \A a \in DOMAIN r : a \in Nat /\ a > 0 /\ n + a \in DOMAIN w /\ w[n + a] = r[a]
  /\ \A a \in DOMAIN w : \/ a \in DOMAIN q /\ w[a] = q[a]
                         \/ \E b \in DOMAIN r : a = n + b /\ w[a] = r[b]

LEMMA Cat ==
  ASSUME NEW q, IsSeq(q), NEW r, IsSeq(r), NEW w, w = q \o r
  PROVE  \E n : Joined(q, n, r, w)
<1>1. PICK S : q \in Seq(S)
  BY DEF IsSeq
<1>2. PICK R : r \in Seq(R)
  BY DEF IsSeq
<1>3. q \in Seq(S \cup R) /\ r \in Seq(S \cup R)
  BY <1>1, <1>2
<1>4. w \in Seq(S \cup R) /\ Len(w) = Len(q) + Len(r) /\ Len(q) \in Nat /\ Len(r) \in Nat
      /\ DOMAIN w = 1..Len(w) /\ DOMAIN q = 1..Len(q) /\ DOMAIN r = 1..Len(r)
  BY <1>3
<1>5. \A a \in 1..Len(w) : w[a] = IF a <= Len(q) THEN q[a] ELSE r[a - Len(q)]
  BY <1>3
<1>6. IsSeq(w)
  BY <1>4 DEF IsSeq
<1>7. \A a \in DOMAIN q : a \in Nat /\ a <= Len(q) /\ a \in DOMAIN w /\ w[a] = q[a]
  BY <1>4, <1>5
<1>8. \A a \in DOMAIN r : /\ a \in Nat /\ a > 0 /\ Len(q) + a \in DOMAIN w
                          /\ w[Len(q) + a] = r[a]
  BY <1>4, <1>5
<1>9. ASSUME NEW a \in DOMAIN w, a \notin DOMAIN q
      PROVE  \E b \in DOMAIN r : a = Len(q) + b /\ w[a] = r[b]
  <2>1. a - Len(q) \in DOMAIN r /\ a = Len(q) + (a - Len(q)) /\ w[a] = r[a - Len(q)]
    BY <1>4, <1>5, <1>9
  <2> QED BY <2>1
<1>10. Joined(q, Len(q), r, w)
  BY <1>4, <1>6, <1>7, <1>8, <1>9 DEF Joined
<1> QED BY <1>10

LEMMA Rest ==
  ASSUME NEW q, IsSeq(q), q # <<>>, NEW w, w = Tail(q)
  PROVE  /\ IsSeq(w) /\ 1 \in DOMAIN q /\ Head(q) = q[1]
         /\ \A a \in DOMAIN q : a \in Nat /\ a >= 1
         /\ \A a \in DOMAIN w : a \in Nat /\ a >= 1 /\ a + 1 \in DOMAIN q /\ w[a] = q[a + 1]
         /\ \A a \in DOMAIN q : a = 1 \/ (a - 1 \in DOMAIN w /\ w[a - 1] = q[a])
<1>1. PICK S : q \in Seq(S)
  BY DEF IsSeq
<1>2. /\ w \in Seq(S) /\ Len(w) = Len(q) - 1 /\ Len(q) \in Nat /\ Len(q) > 0
      /\ DOMAIN w = 1..Len(w) /\ DOMAIN q = 1..Len(q) /\ Head(q) = q[1]
  BY <1>1
<1>3. \A a \in 1..Len(w) : w[a] = q[a + 1]
  BY <1>1, <1>2
<1> QED BY <1>2, <1>3 DEF IsSeq

LEMMA One ==
  ASSUME NEW q, IsSeq(q), NEW e
  PROVE  /\ Append(q, e) = q \o <<e>> /\ IsSeq(<<e>>) /\ DOMAIN <<e>> = {1} /\ <<e>>[1] = e
<1>1. PICK S : q \in Seq(S)
  BY DEF IsSeq
<1>2. q \in Seq(S \cup {e}) /\ <<e>> \in Seq(S \cup {e})
  BY <1>1
<1>3. Append(q, e) = q \o <<e>>
  BY <1>2
<1> QED BY <1>2, <1>3 DEF IsSeq

(* SetToSeq lists every element once.                                       *)
LEMMA SetToSeqAll ==
  ASSUME NEW S, IsFiniteSet(S), NEW r, r = SetToSeq(S)
  PROVE  /\ IsSeq(r) /\ \A a \in DOMAIN r : r[a] \in S
         /\ \A a, b \in DOMAIN r : r[a] = r[b] => a = b
         /\ \A x \in S : \E a \in DOMAIN r : r[a] = x
<1>1. PICK n : n = Cardinality(S)
  OBVIOUS
<1>2. n \in Nat
  BY <1>1, FS_CardinalityType
<1>3. PICK f \in Bijection(1..n, S) : TRUE
  BY <1>1, FS_CardinalityType DEF ExistsBijection
<1>4. f \in [1..n -> S] /\ IsInjective(f)
  BY <1>3 DEF Bijection, Injection, IsInjective
<1>5. r \in [1..n -> S] /\ IsInjective(r)
  BY <1>1, <1>4 DEF SetToSeq
<1>6. \A a, b \in 1..n : r[a] = r[b] => a = b
  BY <1>5 DEF IsInjective
<1>7. r \in Injection(1..n, S)
  BY <1>5, <1>6 DEF Injection, IsInjective
<1>8. IsFiniteSet(1..n) /\ Cardinality(1..n) = n
  <2>1. IsFiniteSet(1..n) /\ Cardinality(1..n) = IF 1 > n THEN 0 ELSE n - 1 + 1
    BY <1>2, FS_Interval
  <2> QED BY <1>2, <2>1
<1>9. \A x \in S : \E a \in 1..n : r[a] = x
  <2>1. r \in Surjection(1..n, S)
    <3>1. Cardinality(1..n) = Cardinality(S) <=> r \in Surjection(1..n, S)
      BY <1>7, FS_Injection
    <3> QED BY <1>1, <1>8, <3>1
  <2> QED BY <2>1 DEF Surjection
<1>10. r \in Seq(S) /\ DOMAIN r = 1..n
  BY <1>2, <1>5
<1> QED BY <1>5, <1>6, <1>9, <1>10 DEF IsSeq

ofTask(e) == e.type \in {"task", "gone"}
ofNode(e) == e.type \in {"node", "nodegone"}
NodeOf(e) == IF e.type = "node" THEN e.obj.id ELSE e.obj
About(e, i) == ofTask(e) /\ e.obj.id = i
AboutNode(e, n) == ofNode(e) /\ NodeOf(e) = n

(* d comes before e.                                                        *)
Pair(d, e) ==
  /\ ofTask(d) /\ ofTask(e) /\ d.obj.id = e.obj.id =>
       /\ d.type = "task" /\ (e.type = "task" => d.obj.ver < e.obj.ver)
       /\ d.obj.state <= e.obj.state /\ (e.obj.wanted => d.obj.wanted)
  /\ ofNode(d) /\ ofNode(e) /\ NodeOf(d) = NodeOf(e) => d.type = "node"

Ordered(q) == \A a, b \in DOMAIN q : a < b => Pair(q[a], q[b])

(* An event says what is in the store now.                                  *)
CurrentTask(T, e) ==
  /\ e.obj.id \in DOMAIN T => e.type = "task" /\ e.obj = T[e.obj.id]
  /\ e.obj.id \notin DOMAIN T => e.type = "gone"
CurrentNode(D, e) ==
  /\ NodeOf(e) \in DOMAIN D => e.type = "node" /\ e.obj = D[NodeOf(e)]
  /\ NodeOf(e) \notin DOMAIN D => e.type = "nodegone"

(* The last event of a task or a node does.                                 *)
TasksConclude(T, q) ==
  \A a \in DOMAIN q :
    ofTask(q[a]) => \/ CurrentTask(T, q[a])
                    \/ \E b \in DOMAIN q : a < b /\ About(q[b], q[a].obj.id)
NodesConclude(D, q) ==
  \A a \in DOMAIN q :
    ofNode(q[a]) => \/ CurrentNode(D, q[a])
                    \/ \E b \in DOMAIN q : a < b /\ AboutNode(q[b], NodeOf(q[a]))

(* The task may be u by now, when an event says it was t.                   *)
Earlier(t, u) == t.ver <= u.ver /\ t.state <= u.state /\ (u.wanted => t.wanted)

EventFine(l, T, D, e) ==
  /\ e.type \in EventTypes
  /\ ofTask(e) => /\ TaskOK(l, e.obj)
                  /\ e.obj.id \in DOMAIN T => e.type = "task" /\ Earlier(e.obj, T[e.obj.id])
  /\ e.type = "node" => NodeOK(l, e.obj.id, e.obj)
  /\ e.type = "nodegone" => e.obj \in DOMAIN l.room /\ e.obj \notin DOMAIN D

QueueInv(l, T, D, q) ==
  /\ IsSeq(q) /\ \A a \in DOMAIN q : EventFine(l, T, D, q[a])
  /\ Ordered(q) /\ TasksConclude(T, q) /\ NodesConclude(D, q)

(* The first event is handled.                                              *)
LEMMA QueueTail ==
  ASSUME NEW l, NEW T, NEW D, NEW q, QueueInv(l, T, D, q), q # <<>>, NEW w, w = Tail(q),
         NEW e, e = Head(q)
  PROVE  /\ QueueInv(l, T, D, w) /\ e \in Range(q) /\ EventFine(l, T, D, e)
         /\ Range(w) \subseteq Range(q) /\ \A d \in Range(q) : d = e \/ d \in Range(w)
         /\ \A d \in Range(w) : Pair(e, d)
         /\ ofTask(e) => CurrentTask(T, e) \/ \E d \in Range(w) : About(d, e.obj.id)
         /\ ofNode(e) => CurrentNode(D, e) \/ \E d \in Range(w) : AboutNode(d, NodeOf(e))
<1>1. /\ IsSeq(q) /\ (\A a \in DOMAIN q : EventFine(l, T, D, q[a]))
      /\ Ordered(q) /\ TasksConclude(T, q) /\ NodesConclude(D, q)
  BY DEF QueueInv
<1>2. /\ IsSeq(w) /\ 1 \in DOMAIN q /\ e = q[1]
      /\ \A a \in DOMAIN q : a \in Nat /\ a >= 1
      /\ \A a \in DOMAIN w : a \in Nat /\ a >= 1 /\ a + 1 \in DOMAIN q /\ w[a] = q[a + 1]
      /\ \A a \in DOMAIN q : a = 1 \/ (a - 1 \in DOMAIN w /\ w[a - 1] = q[a])
  <2>1. Head(q) = q[1]
    BY <1>1, Rest
  <2>2. /\ IsSeq(w) /\ 1 \in DOMAIN q
        /\ \A a \in DOMAIN q : a \in Nat /\ a >= 1
        /\ \A a \in DOMAIN w : a \in Nat /\ a >= 1 /\ a + 1 \in DOMAIN q /\ w[a] = q[a + 1]
        /\ \A a \in DOMAIN q : a = 1 \/ (a - 1 \in DOMAIN w /\ w[a - 1] = q[a])
    <3>1. IsSeq(q)
      BY <1>1
    <3>2. IsSeq(w) /\ 1 \in DOMAIN q
      BY <3>1, Rest
    <3>3. \A a \in DOMAIN q : a \in Nat /\ a >= 1
      BY <3>1, Rest
    <3>4. \A a \in DOMAIN w : a \in Nat /\ a >= 1 /\ a + 1 \in DOMAIN q /\ w[a] = q[a + 1]
      BY <3>1, Rest
    <3>5. \A a \in DOMAIN q : a = 1 \/ (a - 1 \in DOMAIN w /\ w[a - 1] = q[a])
      BY <3>1, Rest
    <3> QED BY <3>2, <3>3, <3>4, <3>5
  <2>3. e = q[1]
    BY <2>1
  <2> QED BY <2>2, <2>3
<1>3. \A a \in DOMAIN w : EventFine(l, T, D, w[a])
  BY <1>1, <1>2
<1>4. Ordered(w)
  <2> SUFFICES ASSUME NEW a \in DOMAIN w, NEW b \in DOMAIN w, a < b PROVE Pair(w[a], w[b])
    BY DEF Ordered
  <2>1. a + 1 \in DOMAIN q /\ b + 1 \in DOMAIN q /\ a + 1 < b + 1
    BY <1>2
  <2> QED BY <1>1, <1>2, <2>1 DEF Ordered
<1>5. ASSUME NEW a \in DOMAIN q, NEW b \in DOMAIN q, a < b
      PROVE  b - 1 \in DOMAIN w /\ w[b - 1] = q[b] /\ (a # 1 => a - 1 < b - 1)
  BY <1>2, <1>5
<1>6. TasksConclude(T, w)
  <2> SUFFICES ASSUME NEW a \in DOMAIN w, ofTask(w[a]), ~CurrentTask(T, w[a])
               PROVE  \E b \in DOMAIN w : a < b /\ About(w[b], w[a].obj.id)
    BY DEF TasksConclude
  <2>1. a \in Nat /\ a >= 1 /\ a + 1 \in DOMAIN q /\ w[a] = q[a + 1]
    BY <1>2
  <2>2. PICK b \in DOMAIN q : a + 1 < b /\ About(q[b], q[a + 1].obj.id)
    BY <1>1, <2>1 DEF TasksConclude
  <2>3. b - 1 \in DOMAIN w /\ w[b - 1] = q[b] /\ a < b - 1
    BY <1>2, <2>1, <2>2
  <2> QED BY <2>1, <2>2, <2>3
<1>7. NodesConclude(D, w)
  <2> SUFFICES ASSUME NEW a \in DOMAIN w, ofNode(w[a]), ~CurrentNode(D, w[a])
               PROVE  \E b \in DOMAIN w : a < b /\ AboutNode(w[b], NodeOf(w[a]))
    BY DEF NodesConclude
  <2>1. a \in Nat /\ a >= 1 /\ a + 1 \in DOMAIN q /\ w[a] = q[a + 1]
    BY <1>2
  <2>2. PICK b \in DOMAIN q : a + 1 < b /\ AboutNode(q[b], NodeOf(q[a + 1]))
    BY <1>1, <2>1 DEF NodesConclude
  <2>3. b - 1 \in DOMAIN w /\ w[b - 1] = q[b] /\ a < b - 1
    BY <1>2, <2>1, <2>2
  <2> QED BY <2>1, <2>2, <2>3
<1>8. e \in Range(q) /\ EventFine(l, T, D, e) /\ Range(w) \subseteq Range(q)
  BY <1>1, <1>2 DEF Range
<1>9. \A d \in Range(q) : d = e \/ d \in Range(w)
  <2> SUFFICES ASSUME NEW a \in DOMAIN q, a # 1 PROVE q[a] \in Range(w)
    BY <1>2 DEF Range
  <2>1. a - 1 \in DOMAIN w /\ w[a - 1] = q[a]
    BY <1>2
  <2> QED BY <2>1 DEF Range
<1>10. \A d \in Range(w) : Pair(e, d)
  <2> SUFFICES ASSUME NEW a \in DOMAIN w PROVE Pair(e, w[a])
    BY DEF Range
  <2>1. a + 1 \in DOMAIN q /\ 1 < a + 1 /\ w[a] = q[a + 1]
    BY <1>2
  <2> QED BY <1>1, <1>2, <2>1 DEF Ordered
<1>11. ofTask(e) => CurrentTask(T, e) \/ \E d \in Range(w) : About(d, e.obj.id)
  <2> SUFFICES ASSUME ofTask(e), ~CurrentTask(T, e)
               PROVE  \E d \in Range(w) : About(d, e.obj.id)
    OBVIOUS
  <2>1. PICK b \in DOMAIN q : 1 < b /\ About(q[b], e.obj.id)
    BY <1>1, <1>2 DEF TasksConclude
  <2> QED BY <1>2, <2>1, <1>5 DEF Range
<1>12. ofNode(e) => CurrentNode(D, e) \/ \E d \in Range(w) : AboutNode(d, NodeOf(e))
  <2> SUFFICES ASSUME ofNode(e), ~CurrentNode(D, e)
               PROVE  \E d \in Range(w) : AboutNode(d, NodeOf(e))
    OBVIOUS
  <2>1. PICK b \in DOMAIN q : 1 < b /\ AboutNode(q[b], NodeOf(e))
    BY <1>1, <1>2 DEF NodesConclude
  <2> QED BY <1>2, <2>1, <1>5 DEF Range
<1>13. QueueInv(l, T, D, w)
  BY <1>2, <1>3, <1>4, <1>6, <1>7 DEF QueueInv
<1> QED BY <1>8, <1>9, <1>10, <1>11, <1>12, <1>13

(* What was written to make U of the tasks T is told by the events r.       *)
TasksTold(T, U, r) ==
  /\ IsSeq(r)
  /\ \A a \in DOMAIN r :
       /\ ofTask(r[a]) /\ r[a].obj.id \in DOMAIN T /\ CurrentTask(U, r[a])
       /\ r[a].type = "task" => Forward(T[r[a].obj.id], r[a].obj)
       /\ r[a].type = "gone" => r[a].obj = T[r[a].obj.id]
  /\ \A a, b \in DOMAIN r : r[a].obj.id = r[b].obj.id => a = b
  /\ \A i : (\A a \in DOMAIN r : r[a].obj.id # i) =>
       (i \in DOMAIN U <=> i \in DOMAIN T) /\ (i \in DOMAIN U => U[i] = T[i])

LEMMA ForwardEarlier ==
  ASSUME NEW t, IsTask(t), NEW u, IsTask(u), NEW w, IsTask(w), Earlier(t, u), Forward(u, w)
  PROVE  Earlier(t, w) /\ t.ver < w.ver
BY DEF Earlier, Forward, IsTask, TaskStateNew, TaskStateDead

LEMMA EarlierSelf ==
  ASSUME NEW t, IsTask(t)
  PROVE  Earlier(t, t)
<1>1. PICK x, y : x = t.ver /\ y = t.state /\ x \in Int /\ y \in Int
  BY DEF IsTask, TaskStateNew, TaskStateDead
<1>2. x <= x /\ y <= y
  BY <1>1
<1> QED BY <1>1, <1>2 DEF Earlier

LEMMA QueueTasks ==
  ASSUME NEW l, NEW T, AllOK(l, T), NEW U, AllOK(l, U), NEW D, NEW q, QueueInv(l, T, D, q),
         NEW r, TasksTold(T, U, r), NEW w, w = q \o r
  PROVE  QueueInv(l, U, D, w)
<1>1. /\ IsSeq(q) /\ (\A a \in DOMAIN q : EventFine(l, T, D, q[a]))
      /\ Ordered(q) /\ TasksConclude(T, q) /\ NodesConclude(D, q)
  BY DEF QueueInv
<1>2. IsSeq(r)
  BY DEF TasksTold
<1> PICK n : Joined(q, n, r, w)
  BY <1>1, <1>2, Cat
<1>3. /\ IsSeq(w) /\ n \in Nat
      /\ \A a \in DOMAIN q : a \in Nat /\ a <= n /\ a \in DOMAIN w /\ w[a] = q[a]
      /\ \A a \in DOMAIN r : a \in Nat /\ a > 0 /\ n + a \in DOMAIN w /\ w[n + a] = r[a]
      /\ \A a \in DOMAIN w : \/ a \in DOMAIN q /\ w[a] = q[a]
                             \/ \E b \in DOMAIN r : a = n + b /\ w[a] = r[b]
  BY DEF Joined
<1>4. ASSUME NEW i \in DOMAIN U
      PROVE  i \in DOMAIN T /\ (U[i] = T[i] \/ Forward(T[i], U[i]))
  <2>1. CASE \A a \in DOMAIN r : r[a].obj.id # i
    BY <1>4, <2>1 DEF TasksTold
  <2>2. ASSUME NEW a \in DOMAIN r, r[a].obj.id = i
        PROVE  i \in DOMAIN T /\ Forward(T[i], U[i])
    BY <1>4, <2>2 DEF TasksTold, CurrentTask
  <2> QED BY <2>1, <2>2
<1>5. \A i \in DOMAIN T : T[i].id = i /\ TaskOK(l, T[i]) /\ IsTask(T[i])
  BY DEF AllOK, TaskOK
<1>6. \A i \in DOMAIN U : U[i].id = i /\ TaskOK(l, U[i]) /\ IsTask(U[i])
  BY DEF AllOK, TaskOK
<1>7. ASSUME NEW a \in DOMAIN q PROVE EventFine(l, U, D, q[a])
  <2>1. EventFine(l, T, D, q[a])
    BY <1>1
  <2>2. ASSUME ofTask(q[a]), q[a].obj.id \in DOMAIN U
        PROVE  q[a].type = "task" /\ Earlier(q[a].obj, U[q[a].obj.id])
    <3>1. PICK e, i : e = q[a] /\ i = e.obj.id
      OBVIOUS
    <3>2. /\ i \in DOMAIN T /\ (U[i] = T[i] \/ Forward(T[i], U[i])) /\ e.type = "task"
          /\ Earlier(e.obj, T[i]) /\ IsTask(e.obj)
      BY <1>4, <2>1, <2>2, <3>1 DEF EventFine, TaskOK
    <3>3. Earlier(e.obj, U[i])
      BY <1>5, <1>6, <2>2, <3>1, <3>2, ForwardEarlier
    <3> QED BY <3>1, <3>2, <3>3
  <2> QED BY <2>1, <2>2 DEF EventFine
<1>8. ASSUME NEW a \in DOMAIN r PROVE EventFine(l, U, D, r[a])
  <2>1. /\ ofTask(r[a]) /\ r[a].obj.id \in DOMAIN T /\ CurrentTask(U, r[a])
        /\ r[a].type = "gone" => r[a].obj = T[r[a].obj.id]
    BY <1>8 DEF TasksTold
  <2>2. TaskOK(l, r[a].obj)
    BY <1>5, <1>6, <2>1 DEF CurrentTask
  <2>3. r[a].obj.id \in DOMAIN U => r[a].type = "task" /\ Earlier(r[a].obj, U[r[a].obj.id])
    BY <1>6, <2>1, EarlierSelf DEF CurrentTask
  <2> QED BY <2>1, <2>2, <2>3 DEF EventFine, ofTask, EventTypes
<1>9. \A a \in DOMAIN w : EventFine(l, U, D, w[a])
  BY <1>3, <1>7, <1>8
<1>10. ASSUME NEW a \in DOMAIN q, NEW b \in DOMAIN r PROVE Pair(q[a], r[b])
  <2>1. PICK d, e : d = q[a] /\ e = r[b]
    OBVIOUS
  <2>2. /\ ofTask(e) /\ e.obj.id \in DOMAIN T
        /\ e.type = "task" => Forward(T[e.obj.id], e.obj)
        /\ e.type = "gone" => e.obj = T[e.obj.id]
    BY <2>1 DEF TasksTold
  <2>3. ~ofNode(e)
    BY <2>2 DEF ofNode, ofTask
  <2>4. ASSUME ofTask(d), d.obj.id = e.obj.id
        PROVE  /\ d.type = "task" /\ (e.type = "task" => d.obj.ver < e.obj.ver)
               /\ d.obj.state <= e.obj.state /\ (e.obj.wanted => d.obj.wanted)
    <3>1. PICK t : t = T[e.obj.id]
      OBVIOUS
    <3>2. d.type = "task" /\ Earlier(d.obj, t) /\ IsTask(d.obj) /\ IsTask(t)
      BY <1>1, <1>5, <2>1, <2>2, <2>4, <3>1 DEF EventFine, TaskOK
    <3>3. CASE e.type = "task"
      <4>1. Forward(t, e.obj) /\ IsTask(e.obj)
        BY <2>2, <3>1, <3>3 DEF Forward
      <4> QED BY <3>2, <4>1, ForwardEarlier DEF Earlier
    <3>4. CASE e.type = "gone"
      BY <2>2, <3>1, <3>2, <3>4 DEF Earlier
    <3> QED BY <2>2, <3>3, <3>4 DEF ofTask
  <2> QED BY <2>1, <2>3, <2>4 DEF Pair
<1>11. ASSUME NEW a \in DOMAIN r, NEW b \in DOMAIN r, a # b PROVE Pair(r[a], r[b])
  <2>1. r[a].obj.id # r[b].obj.id /\ ofTask(r[a])
    BY <1>11 DEF TasksTold
  <2>2. ~ofNode(r[a])
    BY <2>1 DEF ofNode, ofTask
  <2> QED BY <2>1, <2>2 DEF Pair
<1>12. Ordered(w)
  <2> SUFFICES ASSUME NEW a \in DOMAIN w, NEW b \in DOMAIN w, a < b PROVE Pair(w[a], w[b])
    BY DEF Ordered
  <2>1. CASE a \in DOMAIN q /\ b \in DOMAIN q
    BY <1>1, <1>3, <2>1 DEF Ordered
  <2>2. ASSUME a \in DOMAIN q, NEW y \in DOMAIN r, b = n + y, w[b] = r[y]
        PROVE  Pair(w[a], w[b])
    BY <1>3, <1>10, <2>2
  <2>3. ASSUME NEW x \in DOMAIN r, a = n + x, b \in DOMAIN q PROVE FALSE
    BY <1>3, <2>3
  <2>4. ASSUME NEW x \in DOMAIN r, a = n + x, w[a] = r[x],
               NEW y \in DOMAIN r, b = n + y, w[b] = r[y]
        PROVE  Pair(w[a], w[b])
    <3>1. x # y
      BY <1>3, <2>4
    <3> QED BY <1>11, <2>4, <3>1
  <2> QED BY <1>3, <2>1, <2>2, <2>3, <2>4
<1>13. TasksConclude(U, w)
  <2> SUFFICES ASSUME NEW a \in DOMAIN w, ofTask(w[a])
               PROVE  \/ CurrentTask(U, w[a])
                      \/ \E b \in DOMAIN w : a < b /\ About(w[b], w[a].obj.id)
    BY DEF TasksConclude
  <2>1. CASE a \in DOMAIN q /\ w[a] = q[a]
    <3>1. PICK i : i = q[a].obj.id
      OBVIOUS
    <3>2. CASE \E b \in DOMAIN q : a < b /\ About(q[b], i)
      BY <1>3, <2>1, <3>1, <3>2
    <3>3. ASSUME NEW b \in DOMAIN r, r[b].obj.id = i
          PROVE  \E c \in DOMAIN w : a < c /\ About(w[c], i)
      <4>1. n + b \in DOMAIN w /\ a < n + b /\ w[n + b] = r[b]
        BY <1>3, <2>1
      <4>2. About(r[b], i)
        BY <3>3 DEF TasksTold, About
      <4> QED BY <4>1, <4>2
    <3>4. ASSUME CurrentTask(T, q[a]), \A b \in DOMAIN r : r[b].obj.id # i
          PROVE  CurrentTask(U, q[a])
      <4>1. (i \in DOMAIN U <=> i \in DOMAIN T) /\ (i \in DOMAIN U => U[i] = T[i])
        BY <3>4 DEF TasksTold
      <4> QED BY <3>1, <3>4, <4>1 DEF CurrentTask
    <3>5. CurrentTask(T, q[a]) \/ \E b \in DOMAIN q : a < b /\ About(q[b], i)
      BY <1>1, <2>1, <3>1 DEF TasksConclude
    <3> QED BY <2>1, <3>1, <3>2, <3>3, <3>4, <3>5
  <2>2. ASSUME NEW b \in DOMAIN r, w[a] = r[b] PROVE CurrentTask(U, w[a])
    BY <2>2 DEF TasksTold
  <2> QED BY <1>3, <2>1, <2>2
<1>14. NodesConclude(D, w)
  <2> SUFFICES ASSUME NEW a \in DOMAIN w, ofNode(w[a])
               PROVE  \/ CurrentNode(D, w[a])
                      \/ \E b \in DOMAIN w : a < b /\ AboutNode(w[b], NodeOf(w[a]))
    BY DEF NodesConclude
  <2>1. \A b \in DOMAIN r : ~ofNode(r[b])
    BY DEF TasksTold, ofTask, ofNode
  <2>2. a \in DOMAIN q /\ w[a] = q[a]
    BY <1>3, <2>1
  <2> QED BY <1>1, <1>3, <2>2 DEF NodesConclude
<1> QED BY <1>3, <1>9, <1>12, <1>13, <1>14 DEF QueueInv

LEMMA CatRange ==
  ASSUME NEW q, IsSeq(q), NEW r, IsSeq(r), NEW w, w = q \o r
  PROVE  IsSeq(w) /\ Range(w) = Range(q) \cup Range(r)
<1>1. PICK n : Joined(q, n, r, w)
  BY Cat
<1>2. \A e \in Range(w) : e \in Range(q) \cup Range(r)
  BY <1>1 DEF Joined, Range
<1>3. \A e \in Range(q) \cup Range(r) : e \in Range(w)
  <2>1. \A a \in DOMAIN q : \E b \in DOMAIN w : w[b] = q[a]
    BY <1>1 DEF Joined
  <2>2. \A a \in DOMAIN r : \E b \in DOMAIN w : w[b] = r[a]
    BY <1>1 DEF Joined
  <2>3. \A e \in Range(q) : e \in Range(w)
    BY <2>1, Zenon DEF Range
  <2>4. \A e \in Range(r) : e \in Range(w)
    BY <2>2, Zenon DEF Range
  <2> QED BY <2>3, <2>4
<1> QED BY <1>1, <1>2, <1>3 DEF Joined

(* Events of volumes are added.                                             *)
LEMMA QueueVols ==
  ASSUME NEW l, NEW T, NEW D, NEW q, QueueInv(l, T, D, q),
         NEW r, IsSeq(r), \A a \in DOMAIN r : r[a].type = "volume", NEW w, w = q \o r
  PROVE  QueueInv(l, T, D, w)
<1>1. /\ IsSeq(q) /\ (\A a \in DOMAIN q : EventFine(l, T, D, q[a]))
      /\ Ordered(q) /\ TasksConclude(T, q) /\ NodesConclude(D, q)
  BY DEF QueueInv
<1> PICK n : Joined(q, n, r, w)
  BY <1>1, Cat
<1>2. /\ IsSeq(w) /\ n \in Nat
      /\ \A a \in DOMAIN q : a \in Nat /\ a <= n /\ a \in DOMAIN w /\ w[a] = q[a]
      /\ \A a \in DOMAIN w : \/ a \in DOMAIN q /\ w[a] = q[a]
                             \/ \E b \in DOMAIN r : a = n + b /\ w[a] = r[b]
  BY DEF Joined
<1>3. ASSUME NEW a \in DOMAIN w, a \notin DOMAIN q
      PROVE  w[a].type = "volume" /\ ~ofTask(w[a]) /\ ~ofNode(w[a])
  BY <1>2, <1>3 DEF ofTask, ofNode
<1>4. \A a \in DOMAIN w : EventFine(l, T, D, w[a])
  BY <1>1, <1>2, <1>3 DEF EventFine, EventTypes
<1>5. Ordered(w)
  BY <1>1, <1>2, <1>3 DEF Ordered, Pair
<1>6. TasksConclude(T, w)
  BY <1>1, <1>2, <1>3 DEF TasksConclude
<1>7. NodesConclude(D, w)
  BY <1>1, <1>2, <1>3 DEF NodesConclude
<1> QED BY <1>2, <1>4, <1>5, <1>6, <1>7 DEF QueueInv

(* A node is written, or deleted.                                           *)
LEMMA QueueNode ==
  ASSUME NEW l, NEW T, NEW D, NEW E, NEW q, QueueInv(l, T, D, q),
         NEW e, EventFine(l, T, E, e), ofNode(e), CurrentNode(E, e),
         \A m : m # NodeOf(e) => /\ m \in DOMAIN E <=> m \in DOMAIN D
                                 /\ m \in DOMAIN E => E[m] = D[m],
         \A a \in DOMAIN q : q[a].type = "nodegone" => q[a].obj # NodeOf(e),
         NEW w, w = Append(q, e)
  PROVE  QueueInv(l, T, E, w)
<1>1. /\ IsSeq(q) /\ (\A a \in DOMAIN q : EventFine(l, T, D, q[a]))
      /\ Ordered(q) /\ TasksConclude(T, q) /\ NodesConclude(D, q)
  BY DEF QueueInv
<1> PICK r : r = <<e>>
  OBVIOUS
<1>2. w = q \o r /\ IsSeq(r) /\ DOMAIN r = {1} /\ r[1] = e
  BY <1>1, One
<1> PICK n : Joined(q, n, r, w)
  BY <1>1, <1>2, Cat
<1>3. /\ IsSeq(w) /\ n \in Nat
      /\ \A a \in DOMAIN q : a \in Nat /\ a <= n /\ a \in DOMAIN w /\ w[a] = q[a]
      /\ \A a \in DOMAIN w : a \in DOMAIN q \/ a = n + 1
      /\ n + 1 \in DOMAIN w /\ w[n + 1] = e
  BY <1>2 DEF Joined
<1>4. ~ofTask(e)
  BY DEF ofTask, ofNode
<1>5. \A a \in DOMAIN w : EventFine(l, T, E, w[a])
  <2>1. ASSUME NEW a \in DOMAIN q PROVE EventFine(l, T, E, q[a])
    <3>1. EventFine(l, T, D, q[a])
      BY <1>1
    <3> QED BY <3>1 DEF EventFine
  <2> QED BY <1>3, <2>1
<1>6. Ordered(w)
  <2> SUFFICES ASSUME NEW a \in DOMAIN w, NEW b \in DOMAIN w, a < b PROVE Pair(w[a], w[b])
    BY DEF Ordered
  <2>1. a \in DOMAIN q
    BY <1>3
  <2>2. CASE b \in DOMAIN q
    BY <1>1, <1>3, <2>1, <2>2 DEF Ordered
  <2>3. CASE b = n + 1
    <3>1. ofNode(q[a]) /\ NodeOf(q[a]) = NodeOf(e) => q[a].type = "node"
      BY <2>1 DEF ofNode, NodeOf
    <3> QED BY <1>3, <1>4, <2>1, <2>3, <3>1 DEF Pair
  <2> QED BY <1>3, <2>2, <2>3
<1>7. TasksConclude(T, w)
  BY <1>1, <1>3, <1>4 DEF TasksConclude
<1>8. NodesConclude(E, w)
  <2> SUFFICES ASSUME NEW a \in DOMAIN w, ofNode(w[a])
               PROVE  \/ CurrentNode(E, w[a])
                      \/ \E b \in DOMAIN w : a < b /\ AboutNode(w[b], NodeOf(w[a]))
    BY DEF NodesConclude
  <2>1. CASE a = n + 1
    BY <1>3, <2>1
  <2>2. CASE a \in DOMAIN q /\ NodeOf(q[a]) = NodeOf(e)
    <3>1. a < n + 1 /\ AboutNode(w[n + 1], NodeOf(w[a]))
      BY <1>3, <2>2 DEF AboutNode
    <3> QED BY <1>3, <3>1
  <2>3. CASE a \in DOMAIN q /\ NodeOf(q[a]) # NodeOf(e)
    <3>1. \/ CurrentNode(D, q[a])
          \/ \E b \in DOMAIN q : a < b /\ AboutNode(q[b], NodeOf(q[a]))
      BY <1>1, <1>3, <2>3 DEF NodesConclude
    <3>2. CurrentNode(D, q[a]) => CurrentNode(E, q[a])
      BY <2>3 DEF CurrentNode
    <3> QED BY <1>3, <2>3, <3>1, <3>2
  <2> QED BY <1>3, <2>1, <2>2, <2>3
<1> QED BY <1>3, <1>5, <1>6, <1>7, <1>8 DEF QueueInv

(* What happens to the scenario.                                            *)
LeftStep(l, m) ==
  /\ m.of = l.of /\ m.pre = l.pre /\ m.prompt = l.prompt /\ m.new \subseteq l.new
  /\ DOMAIN l.room \subseteq DOMAIN m.room /\ \A n \in DOMAIN l.room : m.room[n] = l.room[n]
  /\ l.stale => m.stale

LEMMA LeftTask ==
  ASSUME NEW l, NEW m, LeftStep(l, m), NEW t
  PROVE  TaskOK(m, t) <=> TaskOK(l, t)
BY DEF LeftStep, TaskOK

LEMMA LeftNode ==
  ASSUME NEW l, NEW m, LeftStep(l, m), NEW n, NEW node, NodeOK(l, n, node)
  PROVE  NodeOK(m, n, node)
BY DEF LeftStep, NodeOK

LEMMA QueueLeft ==
  ASSUME NEW l, NEW m, LeftStep(l, m), NEW T, NEW D, NEW q, QueueInv(l, T, D, q)
  PROVE  QueueInv(m, T, D, q)
<1>1. ASSUME NEW e, EventFine(l, T, D, e) PROVE EventFine(m, T, D, e)
  <2>1. ofTask(e) => TaskOK(m, e.obj)
    BY <1>1, LeftTask DEF EventFine
  <2>2. e.type = "node" => NodeOK(m, e.obj.id, e.obj)
    BY <1>1, LeftNode DEF EventFine
  <2>3. e.type = "nodegone" => e.obj \in DOMAIN m.room
    BY <1>1 DEF EventFine, LeftStep
  <2> QED BY <1>1, <2>1, <2>2, <2>3 DEF EventFine
<1> QED BY <1>1 DEF QueueInv

-----------------------------------------------------------------------------
(* The tasks the scheduler has                                              *)

(* A decision has been made for the task and is not written yet, or was     *)
(* refused and is not undone yet.                                           *)
Claimed(r, i) ==
  \/ r.phase = "plan" /\ i \in DOMAIN r.dec
  \/ r.phase = "free" /\ i \in r.failed

(* The scheduler has the task as one that is assigned in the store.         *)
Held(p, r, i) == LiveIn(p.all, i) /\ ~Claimed(r, i)

(* u may be what has become of t, which is assigned.                        *)
Follows(t, u) ==
  /\ u.state >= TaskStateAssigned /\ u.node = t.node /\ u.vol = t.vol
  /\ u.wanted => t.wanted

HeldOK(T, E, p, r, i) ==
  /\ i \in DOMAIN T => Follows(p.all[i], T[i])
  /\ \A e \in E : About(e, i) => Follows(p.all[i], e.obj)
  /\ i \notin DOMAIN p.unassigned /\ (r.phase = "plan" => i \notin DOMAIN r.todo)
  /\ i \in DOMAIN p.pre =>
       r.phase = "free" /\ r.job = "pre" /\ i \in r.ok /\ Live(r.dec[i].new)
  /\ (\A e \in E : ~About(e, i)) => LiveIn(T, i) /\ T[i].wanted = p.all[i].wanted

Older(f, e) == e.obj.id \in DOMAIN f => f[e.obj.id].ver < e.obj.ver

(* What others have written is newer than the copies that wait, and the     *)
(* scheduler has seen its own writes when it looks at tasks again.          *)
BehindOK(l, p, r, e) ==
  /\ ~e.own => /\ Older(p.unassigned, e) /\ Older(p.pre, e)
               /\ r.phase = "plan" => Older(r.todo, e)
               /\ Claimed(r, e.obj.id) => r.dec[e.obj.id].old.ver < e.obj.ver
  /\ e.own /\ r.phase # "idle" /\ l.pre[e.obj.id] = None => r.phase = "free" /\ r.job = "tick"
  /\ e.own /\ r.phase = "plan" => r.job = "tick"

TaskPart(l, T, E, p, r) ==
  /\ \A i : Held(p, r, i) => HeldOK(T, E, p, r, i)
  /\ \A i : LiveIn(T, i) => Held(p, r, i)
  /\ \A e \in E : e.type = "task" /\ Live(e.obj) => Held(p, r, e.obj.id)
  /\ \A i : Claimed(r, i) => i \in DOMAIN p.all /\ p.all[i] = r.dec[i].new
  /\ r.phase = "plan" => \A i \in DOMAIN r.todo : i \notin DOMAIN r.dec
  /\ \A e \in E : e.type = "task" => BehindOK(l, p, r, e)

(* The tasks and their copies are of the scenario.                          *)
Kinds(l, T, p, r) ==
  /\ AllOK(l, T) /\ AllOK(l, p.all) /\ AllOK(l, p.unassigned) /\ AllOK(l, p.pre)
  /\ r.phase = "plan" => AllOK(l, r.todo)
  /\ r.phase # "idle" =>
       \A i \in DOMAIN r.dec : TaskOK(l, r.dec[i].old) /\ TaskOK(l, r.dec[i].new)

(* What others make of a task.                                              *)
Moved(t, u) == Forward(t, u) /\ u.node = t.node /\ u.vol = t.vol /\ (Live(u) => Live(t))

(* No task is written.                                                      *)
LEMMA TasksOther ==
  ASSUME NEW l, NEW m, m.pre = l.pre, NEW T, NEW p, NEW r, NEW E, TaskPart(l, T, E, p, r),
         NEW F, E \subseteq F, \A e \in F : e \in E \/ ~ofTask(e)
  PROVE  TaskPart(m, T, F, p, r)
<1>1. \A e \in F : ofTask(e) => e \in E
  OBVIOUS
<1>2. ASSUME NEW i, HeldOK(T, E, p, r, i) PROVE HeldOK(T, F, p, r, i)
  BY <1>1, <1>2 DEF HeldOK, About
<1>3. ASSUME NEW e, BehindOK(l, p, r, e) PROVE BehindOK(m, p, r, e)
  BY <1>3 DEF BehindOK
<1>4. \A e \in F : e.type = "task" => e \in E
  BY <1>1 DEF ofTask
<1> QED BY <1>2, <1>3, <1>4 DEF TaskPart

(* Others write tasks.                                                      *)
LEMMA TasksMoved ==
  ASSUME NEW l, NEW T, NEW U, NEW p, NEW r, NEW E, TaskPart(l, T, E, p, r), Kinds(l, T, p, r),
         PictureOK(T, l.pre, p), RunOK(T, l.pre, p, r),
         NEW x, TasksTold(T, U, x),
         \A a \in DOMAIN x : ~x[a].own /\ (x[a].type = "task" => Moved(T[x[a].obj.id], x[a].obj)),
         NEW F, F = E \cup Range(x)
  PROVE  TaskPart(l, U, F, p, r)
<1>1. ASSUME NEW e \in F, e \notin E
      PROVE  /\ ofTask(e) /\ e.obj.id \in DOMAIN T /\ CurrentTask(U, e) /\ ~e.own
             /\ e.type = "task" => Moved(T[e.obj.id], e.obj)
             /\ e.type = "gone" => e.obj = T[e.obj.id]
  BY <1>1 DEF TasksTold, Range
<1>2. ASSUME NEW i
      PROVE  \/ (i \in DOMAIN U <=> i \in DOMAIN T) /\ (i \in DOMAIN U => U[i] = T[i])
             \/ \E e \in F : About(e, i)
  <2>1. CASE \A a \in DOMAIN x : x[a].obj.id # i
    BY <2>1 DEF TasksTold
  <2>2. ASSUME NEW a \in DOMAIN x, x[a].obj.id = i PROVE \E e \in F : About(e, i)
    BY <2>2 DEF TasksTold, About, Range
  <2> QED BY <2>1, <2>2
<1>3. ASSUME NEW i \in DOMAIN U
      PROVE  i \in DOMAIN T /\ (U[i] = T[i] \/ Moved(T[i], U[i]))
  <2>1. CASE \A a \in DOMAIN x : x[a].obj.id # i
    BY <1>3, <2>1 DEF TasksTold
  <2>2. ASSUME NEW a \in DOMAIN x, x[a].obj.id = i
        PROVE  i \in DOMAIN T /\ Moved(T[i], U[i])
    BY <1>3, <2>2 DEF TasksTold, CurrentTask
  <2> QED BY <2>1, <2>2
<1>4. ASSUME NEW t, NEW y, NEW z, IsTask(y), IsTask(z), Follows(t, y), Moved(y, z)
      PROVE  Follows(t, z)
  BY <1>4 DEF Follows, Moved, Forward, IsTask, TaskStateNew, TaskStateAssigned, TaskStateDead
<1>5. \A i \in DOMAIN T : IsTask(T[i])
  BY DEF Kinds, AllOK, TaskOK
<1>6. ASSUME NEW i, Held(p, r, i) PROVE HeldOK(U, F, p, r, i)
  <2>1. HeldOK(T, E, p, r, i)
    BY <1>6 DEF TaskPart
  <2>2. i \in DOMAIN U => Follows(p.all[i], U[i])
    <3> SUFFICES ASSUME i \in DOMAIN U PROVE Follows(p.all[i], U[i])
      OBVIOUS
    <3>1. i \in DOMAIN T /\ (U[i] = T[i] \/ Moved(T[i], U[i])) /\ Follows(p.all[i], T[i])
      BY <1>3, <2>1 DEF HeldOK
    <3> QED BY <1>4, <1>5, <3>1 DEF Moved, Forward
  <2>3. ASSUME NEW e \in F, About(e, i) PROVE Follows(p.all[i], e.obj)
    <3>1. CASE e \in E
      BY <2>1, <2>3, <3>1 DEF HeldOK
    <3>2. CASE e \notin E
      <4>1. /\ ofTask(e) /\ e.obj.id = i /\ i \in DOMAIN T
            /\ e.type = "task" => Moved(T[i], e.obj)
            /\ e.type = "gone" => e.obj = T[i]
        BY <1>1, <2>3, <3>2 DEF About
      <4>2. Follows(p.all[i], T[i])
        BY <2>1, <4>1 DEF HeldOK
      <4> QED BY <1>4, <1>5, <4>1, <4>2 DEF ofTask, Moved, Forward
    <3> QED BY <3>1, <3>2
  <2>4. ASSUME \A e \in F : ~About(e, i) PROVE LiveIn(U, i) /\ U[i].wanted = p.all[i].wanted
    <3>1. (i \in DOMAIN U <=> i \in DOMAIN T) /\ (i \in DOMAIN U => U[i] = T[i])
      BY <1>2, <2>4
    <3>2. LiveIn(T, i) /\ T[i].wanted = p.all[i].wanted
      BY <2>1, <2>4 DEF HeldOK
    <3> QED BY <3>1, <3>2 DEF LiveIn
  <2> QED BY <2>1, <2>2, <2>3, <2>4 DEF HeldOK
<1>7. ASSUME NEW i, LiveIn(U, i) PROVE LiveIn(T, i)
  BY <1>3, <1>7 DEF LiveIn, Moved
<1>8. ASSUME NEW e \in F, e.type = "task", Live(e.obj) PROVE Held(p, r, e.obj.id)
  <2>1. CASE e \in E
    BY <1>8, <2>1 DEF TaskPart
  <2>2. CASE e \notin E
    <3>1. LiveIn(T, e.obj.id)
      BY <1>1, <1>8, <2>2 DEF LiveIn, Moved
    <3> QED BY <3>1 DEF TaskPart
  <2> QED BY <2>1, <2>2
<1>9. ASSUME NEW t, Copy(T, l.pre, t), NEW e, t.id = e.obj.id, e.obj.id \in DOMAIN T,
             Moved(T[e.obj.id], e.obj)
      PROVE  t.ver < e.obj.ver
  BY <1>5, <1>9 DEF Copy, Moved, Forward, IsTask
<1>10. ASSUME NEW e \in F, e.type = "task" PROVE BehindOK(l, p, r, e)
  <2>1. CASE e \in E
    BY <1>10, <2>1 DEF TaskPart
  <2>2. CASE e \notin E
    <3>1. ~e.own /\ e.obj.id \in DOMAIN T /\ Moved(T[e.obj.id], e.obj)
      BY <1>1, <1>10, <2>2
    <3>2. Older(p.unassigned, e) /\ Older(p.pre, e)
      BY <1>9, <3>1 DEF Older, PictureOK, Waiting, Copies
    <3>3. r.phase = "plan" => Older(r.todo, e)
      BY <1>9, <3>1 DEF Older, RunOK, Waiting, Copies
    <3>4. Claimed(r, e.obj.id) => r.dec[e.obj.id].old.ver < e.obj.ver
      <4> SUFFICES ASSUME Claimed(r, e.obj.id) PROVE r.dec[e.obj.id].old.ver < e.obj.ver
        OBVIOUS
      <4>1. r.phase # "idle" /\ e.obj.id \in DOMAIN r.dec
        BY DEF Claimed, RunOK
      <4>2. Copy(T, l.pre, r.dec[e.obj.id].old) /\ r.dec[e.obj.id].old.id = e.obj.id
        BY <4>1 DEF RunOK, Decision
      <4> QED BY <1>9, <3>1, <4>2
    <3> QED BY <3>1, <3>2, <3>3, <3>4 DEF BehindOK
  <2> QED BY <2>1, <2>2
<1> QED BY <1>6, <1>7, <1>8, <1>10 DEF TaskPart

-----------------------------------------------------------------------------
(* An event is handled                                                      *)

(* E are the events in the queue, e is the first of them and F the others.  *)
First(l, T, D, E, e, F) ==
  /\ e \in E /\ F \subseteq E /\ (\A d \in E : d = e \/ d \in F)
  /\ EventFine(l, T, D, e) /\ (\A d \in F : EventFine(l, T, D, d) /\ Pair(e, d))
  /\ ofTask(e) => CurrentTask(T, e) \/ \E d \in F : About(d, e.obj.id)
  /\ ofNode(e) => CurrentNode(D, e) \/ \E d \in F : AboutNode(d, NodeOf(e))

LEMMA QueueFirst ==
  ASSUME NEW l, NEW T, NEW D, NEW q, QueueInv(l, T, D, q), q # <<>>
  PROVE  QueueInv(l, T, D, Tail(q)) /\ First(l, T, D, Range(q), Head(q), Range(Tail(q)))
<1>1. PICK w, e : w = Tail(q) /\ e = Head(q)
  OBVIOUS
<1>2. /\ QueueInv(l, T, D, w) /\ e \in Range(q) /\ EventFine(l, T, D, e)
      /\ Range(w) \subseteq Range(q) /\ \A d \in Range(q) : d = e \/ d \in Range(w)
      /\ \A d \in Range(w) : Pair(e, d)
      /\ ofTask(e) => CurrentTask(T, e) \/ \E d \in Range(w) : About(d, e.obj.id)
      /\ ofNode(e) => CurrentNode(D, e) \/ \E d \in Range(w) : AboutNode(d, NodeOf(e))
  BY <1>1, QueueTail
<1>3. \A d \in Range(w) : EventFine(l, T, D, d)
  BY <1>2 DEF QueueInv, Range
<1>4. First(l, T, D, Range(q), e, Range(w))
  BY <1>2, <1>3 DEF First
<1> QED BY <1>1, <1>2, <1>4

(* Of the tasks that wait only the one the event is about may be new.       *)
Waits(f, g, e) ==
  \A j \in DOMAIN g : \/ j \in DOMAIN f /\ g[j] = f[j]
                      \/ j = e.obj.id /\ g[j] = e.obj /\ e.type = "task"

(* What the picture p is made when task event e is seen.                    *)
Seen(p, p2, e) ==
  /\ Waits(p.unassigned, p2.unassigned, e) /\ Waits(p.pre, p2.pre, e)
  /\ \A j : j # e.obj.id =>
       /\ j \in DOMAIN p2.all <=> j \in DOMAIN p.all
       /\ j \in DOMAIN p.all => p2.all[j] = p.all[j]
  /\ IF e.type = "task" /\ Live(e.obj)
     THEN /\ e.obj.id \in DOMAIN p2.all /\ p2.all[e.obj.id] = e.obj
          /\ p2.unassigned = p.unassigned /\ p2.pre = p.pre
     ELSE ~LiveIn(p2.all, e.obj.id)

LEMMA IdleHeld ==
  ASSUME NEW r, r.phase = "idle", NEW p, NEW i
  PROVE  Held(p, r, i) <=> LiveIn(p.all, i)
BY DEF Held, Claimed

(* A task that has one that is not assigned among its events is not held.   *)
LEMMA NotLater ==
  ASSUME NEW l, NEW T, NEW D, NEW p, NEW r, NEW E, TaskPart(l, T, E, p, r), Kinds(l, T, p, r),
         NEW e, NEW F, First(l, T, D, E, e, F), ofTask(e), ~(e.type = "task" /\ Live(e.obj))
  PROVE  /\ ~LiveIn(T, e.obj.id)
         /\ \A d \in F : d.type = "task" /\ d.obj.id = e.obj.id => ~Live(d.obj)
         /\ e.type = "task" /\ e.obj.state <= TaskStatePending => ~Held(p, r, e.obj.id)
<1>1. PICK i : i = e.obj.id
  OBVIOUS
<1>2. e \in E /\ EventFine(l, T, D, e) /\ IsTask(e.obj) /\ About(e, i)
  BY <1>1 DEF First, EventFine, TaskOK, About
<1>3. e.type = "task" /\ Held(p, r, i) => e.obj.state = TaskStateDead
  <2>1. ASSUME e.type = "task", Held(p, r, i) PROVE e.obj.state >= TaskStateAssigned
    BY <1>2, <2>1 DEF TaskPart, HeldOK, Follows
  <2> QED BY <1>2, <2>1 DEF IsTask, Live, TaskStateNew, TaskStateAssigned, TaskStateDead
<1>4. ~LiveIn(T, i)
  <2> SUFFICES ASSUME LiveIn(T, i) PROVE FALSE
    OBVIOUS
  <2>1. Held(p, r, i) /\ e.type = "task" /\ e.obj.state <= T[i].state
    BY <1>1, <1>2 DEF TaskPart, EventFine, LiveIn, Earlier
  <2> QED BY <1>3, <2>1 DEF LiveIn, Live, TaskStateAssigned, TaskStateDead
<1>5. ASSUME NEW d \in F, d.type = "task", d.obj.id = i, Live(d.obj) PROVE FALSE
  <2>1. Held(p, r, i)
    BY <1>5 DEF TaskPart, First
  <2>2. e.type = "task" /\ e.obj.state <= d.obj.state
    BY <1>1, <1>5 DEF First, Pair, ofTask
  <2> QED BY <1>3, <1>5, <2>1, <2>2 DEF Live, TaskStateAssigned, TaskStateDead
<1>6. e.type = "task" /\ e.obj.state <= TaskStatePending => ~Held(p, r, i)
  BY <1>3 DEF TaskStatePending, TaskStateDead
<1> QED BY <1>1, <1>4, <1>5, <1>6

LEMMA TasksSeen ==
  ASSUME NEW l, NEW T, NEW D, NEW p, NEW r, NEW E, TaskPart(l, T, E, p, r), Kinds(l, T, p, r),
         r.phase = "idle", NEW e, NEW F, First(l, T, D, E, e, F), ofTask(e),
         NEW p2, Seen(p, p2, e), NEW r2, r2.phase = "idle"
  PROVE  TaskPart(l, T, F, p2, r2)
<1>1. PICK i : i = e.obj.id
  OBVIOUS
<1>2. /\ e \in E /\ F \subseteq E /\ (\A d \in E : d = e \/ d \in F)
      /\ EventFine(l, T, D, e) /\ TaskOK(l, e.obj) /\ IsTask(e.obj) /\ About(e, i)
  BY <1>1 DEF First, EventFine, TaskOK, About
<1>3. /\ \A j : j # i => LiveIn(p2.all, j) <=> LiveIn(p.all, j)
      /\ \A j : j # i /\ LiveIn(p.all, j) => p2.all[j] = p.all[j]
  BY <1>1 DEF Seen, LiveIn
<1>4. /\ \A j : Held(p, r, j) <=> LiveIn(p.all, j)
      /\ \A j : Held(p2, r2, j) <=> LiveIn(p2.all, j)
  BY IdleHeld
<1>5. ASSUME NEW j, LiveIn(p.all, j)
      PROVE  HeldOK(T, E, p, r, j) /\ j \notin DOMAIN p.unassigned /\ j \notin DOMAIN p.pre
  BY <1>4, <1>5 DEF TaskPart, HeldOK
<1>6. e.type = "task" /\ Live(e.obj) => LiveIn(p.all, i) /\ LiveIn(p2.all, i)
  BY <1>1, <1>2, <1>4 DEF TaskPart, Seen, LiveIn
<1>7. ~(e.type = "task" /\ Live(e.obj)) =>
        /\ ~LiveIn(T, i) /\ ~LiveIn(p2.all, i)
        /\ \A d \in F : d.type = "task" /\ d.obj.id = i => ~Live(d.obj)
  BY <1>1, NotLater DEF Seen
<1>8. ASSUME NEW j, LiveIn(p2.all, j) PROVE HeldOK(T, F, p2, r2, j)
  <2>1. CASE j # i
    <3>1. LiveIn(p.all, j) /\ p2.all[j] = p.all[j] /\ HeldOK(T, E, p, r, j)
          /\ j \notin DOMAIN p.unassigned /\ j \notin DOMAIN p.pre
      BY <1>3, <1>5, <1>8, <2>1
    <3>2. j \notin DOMAIN p2.unassigned /\ j \notin DOMAIN p2.pre
      BY <1>1, <2>1, <3>1 DEF Seen, Waits
    <3>3. \A d \in E : About(d, j) => d \in F
      BY <1>1, <1>2, <2>1 DEF About
    <3> QED BY <1>2, <3>1, <3>2, <3>3 DEF HeldOK
  <2>2. CASE j = i
    <3>1. e.type = "task" /\ Live(e.obj) /\ LiveIn(p.all, i) /\ p2.all[i] = e.obj
          /\ p2.unassigned = p.unassigned /\ p2.pre = p.pre
      BY <1>1, <1>6, <1>7, <1>8, <2>2 DEF Seen
    <3>2. HeldOK(T, E, p, r, i) /\ i \notin DOMAIN p.unassigned /\ i \notin DOMAIN p.pre
      BY <1>5, <3>1
    <3>3. Follows(p.all[i], e.obj)
      BY <1>2, <3>2 DEF HeldOK
    <3>4. e.obj.state = TaskStateAssigned
      BY <3>1 DEF Live
    <3>5. ASSUME i \in DOMAIN T PROVE Follows(e.obj, T[i])
      <4>1. Follows(p.all[i], T[i]) /\ Earlier(e.obj, T[i])
        BY <1>1, <1>2, <3>2, <3>5 DEF HeldOK, EventFine, About
      <4> QED BY <3>3, <4>1 DEF Follows, Earlier
    <3>6. ASSUME NEW d \in F, About(d, i) PROVE Follows(e.obj, d.obj)
      <4>1. Follows(p.all[i], d.obj) /\ Pair(e, d)
        BY <1>2, <3>2, <3>6 DEF HeldOK, First
      <4>2. d.obj.wanted => e.obj.wanted
        BY <1>1, <1>2, <3>6, <4>1 DEF Pair, About
      <4> QED BY <3>3, <4>1, <4>2 DEF Follows
    <3>7. ASSUME \A d \in F : ~About(d, i)
          PROVE  LiveIn(T, i) /\ T[i].wanted = e.obj.wanted
      <4>1. CurrentTask(T, e)
        BY <1>1, <1>2, <3>7 DEF First, About
      <4> QED BY <1>1, <3>1, <4>1 DEF CurrentTask, LiveIn
    <3> QED BY <2>2, <3>1, <3>2, <3>5, <3>6, <3>7 DEF HeldOK
  <2> QED BY <2>1, <2>2
<1>9. ASSUME NEW j, LiveIn(T, j) PROVE LiveIn(p2.all, j)
  BY <1>3, <1>4, <1>6, <1>7, <1>9 DEF TaskPart
<1>10. ASSUME NEW d \in F, d.type = "task", Live(d.obj) PROVE LiveIn(p2.all, d.obj.id)
  <2>1. LiveIn(p.all, d.obj.id)
    BY <1>2, <1>4, <1>10 DEF TaskPart
  <2> QED BY <1>3, <1>6, <1>7, <1>10, <2>1
<1>11. ASSUME NEW d \in F, d.type = "task" PROVE BehindOK(l, p2, r2, d)
  <2>1. BehindOK(l, p, r, d) /\ Pair(e, d)
    BY <1>2, <1>11 DEF TaskPart, First
  <2>2. d.obj.id = i /\ e.type = "task" => e.obj.ver < d.obj.ver
    BY <1>1, <1>2, <1>11, <2>1 DEF Pair, ofTask
  <2>3. ASSUME NEW f, NEW g, Waits(f, g, e), Older(f, d) PROVE Older(g, d)
    BY <1>1, <2>2, <2>3 DEF Waits, Older
  <2>4. ~d.own => Older(p2.unassigned, d) /\ Older(p2.pre, d)
    BY <2>1, <2>3 DEF BehindOK, Seen
  <2> QED BY <2>4 DEF BehindOK, Claimed
<1>12. \A j : ~Claimed(r2, j)
  BY DEF Claimed
<1> QED BY <1>4, <1>8, <1>9, <1>10, <1>11, <1>12 DEF TaskPart

(* Events of nodes and volumes leave the tasks alone.                       *)
LEMMA TasksPassed ==
  ASSUME NEW l, NEW T, NEW D, NEW p, NEW r, NEW E, TaskPart(l, T, E, p, r),
         r.phase = "idle", NEW e, NEW F, First(l, T, D, E, e, F), ~ofTask(e),
         NEW p2, p2.all = p.all, p2.unassigned = p.unassigned, p2.pre = p.pre,
         NEW r2, r2.phase = "idle"
  PROVE  TaskPart(l, T, F, p2, r2)
<1>1. F \subseteq E /\ \A d \in E : ofTask(d) => d \in F
  BY DEF First
<1>2. \A i : ~Claimed(r, i) /\ ~Claimed(r2, i) /\ (Held(p2, r2, i) <=> Held(p, r, i))
  BY DEF Held, Claimed
<1>3. ASSUME NEW i, HeldOK(T, E, p, r, i) PROVE HeldOK(T, F, p2, r2, i)
  BY <1>1, <1>3 DEF HeldOK, About
<1>4. ASSUME NEW d, BehindOK(l, p, r, d) PROVE BehindOK(l, p2, r2, d)
  BY <1>2, <1>4 DEF BehindOK
<1> QED BY <1>1, <1>2, <1>3, <1>4 DEF TaskPart

-----------------------------------------------------------------------------
(* A pass of the scheduler                                                  *)

LEMMA TasksStarted ==
  ASSUME NEW l, NEW T, NEW E, NEW p, NEW r, TaskPart(l, T, E, p, r), r.phase = "idle",
         NEW p2, p2.all = p.all, p2.pre = p.pre, p2.unassigned \in {p.unassigned, Empty},
         NEW r2, r2.phase = "plan", r2.dec = Empty, r2.todo \in {p.unassigned, p.pre},
         \A e \in E : e.type = "task" /\ e.own => l.pre[e.obj.id] # None /\ r2.job = "tick"
  PROVE  TaskPart(l, T, E, p2, r2)
<1>1. DOMAIN r2.dec = {} /\ DOMAIN Empty = {}
  BY DEF Empty
<1>2. \A i : ~Claimed(r2, i) /\ ~Claimed(r, i) /\ (Held(p2, r2, i) <=> Held(p, r, i))
  BY <1>1 DEF Held, Claimed
<1>3. ASSUME NEW i, Held(p, r, i) PROVE HeldOK(T, E, p2, r2, i)
  <2>1. HeldOK(T, E, p, r, i)
    BY <1>3 DEF TaskPart
  <2>2. i \notin DOMAIN p.unassigned /\ i \notin DOMAIN p.pre
    BY <2>1 DEF HeldOK
  <2>3. i \notin DOMAIN p2.unassigned /\ i \notin DOMAIN r2.todo
    BY <1>1, <2>2
  <2> QED BY <2>1, <2>2, <2>3 DEF HeldOK
<1>4. ASSUME NEW e \in E, e.type = "task" PROVE BehindOK(l, p2, r2, e)
  <2>1. BehindOK(l, p, r, e)
    BY <1>4 DEF TaskPart
  <2>2. ~e.own => Older(p.unassigned, e) /\ Older(p.pre, e) /\ Older(Empty, e)
    BY <1>1, <2>1 DEF BehindOK, Older
  <2>3. ~e.own => Older(p2.unassigned, e) /\ Older(p2.pre, e) /\ Older(r2.todo, e)
    BY <2>2
  <2> QED BY <1>2, <1>4, <2>3 DEF BehindOK
<1> QED BY <1>1, <1>2, <1>3, <1>4 DEF TaskPart

LEMMA TasksDropped ==
  ASSUME NEW l, NEW T, NEW E, NEW p, NEW r, TaskPart(l, T, E, p, r), r.phase = "plan", NEW i,
         NEW r2, r2.phase = "plan", r2.dec = r.dec, r2.todo = Drop(r.todo, i), r2.job = r.job
  PROVE  TaskPart(l, T, E, p, r2)
<1>1. \A j \in DOMAIN r2.todo : j \in DOMAIN r.todo /\ r2.todo[j] = r.todo[j]
  BY DEF Drop, Restrict
<1>2. \A j : (Claimed(r2, j) <=> Claimed(r, j)) /\ (Held(p, r2, j) <=> Held(p, r, j))
  BY DEF Held, Claimed
<1>3. ASSUME NEW j, HeldOK(T, E, p, r, j) PROVE HeldOK(T, E, p, r2, j)
  BY <1>1, <1>3 DEF HeldOK
<1>4. ASSUME NEW e, BehindOK(l, p, r, e) PROVE BehindOK(l, p, r2, e)
  BY <1>1, <1>2, <1>4 DEF BehindOK, Older
<1> QED BY <1>1, <1>2, <1>3, <1>4 DEF TaskPart

LEMMA TasksDecided ==
  ASSUME NEW l, NEW T, NEW E, NEW p, NEW r, TaskPart(l, T, E, p, r), r.phase = "plan",
         NEW i, i \in DOMAIN r.todo, NEW new, new.ver = r.todo[i].ver,
         NEW p2, p2.all = Put(p.all, i, new), p2.pre = p.pre,
         p2.unassigned \in {p.unassigned, Put(p.unassigned, i, new)},
         NEW r2, r2.phase = "plan", r2.todo = Drop(r.todo, i), r2.job = r.job,
         r2.dec = Put(r.dec, i, [old |-> r.todo[i], new |-> new])
  PROVE  TaskPart(l, T, E, p2, r2) /\ ~LiveIn(p.all, i) /\ ~Held(p, r, i)
<1>1. /\ DOMAIN r2.todo = DOMAIN r.todo \ {i}
      /\ \A j \in DOMAIN r2.todo : r2.todo[j] = r.todo[j]
  BY DEF Drop, Restrict
<1>2. /\ DOMAIN p2.all = DOMAIN p.all \cup {i} /\ p2.all[i] = new
      /\ \A j \in DOMAIN p.all : j # i => p2.all[j] = p.all[j]
  BY DEF Put
<1>3. PICK d : d = [old |-> r.todo[i], new |-> new]
  OBVIOUS
<1>4. /\ DOMAIN r2.dec = DOMAIN r.dec \cup {i} /\ r2.dec[i] = d
      /\ d.old = r.todo[i] /\ d.new = new
      /\ \A j \in DOMAIN r.dec : j # i => r2.dec[j] = r.dec[j]
  BY <1>3 DEF Put
<1>5. /\ DOMAIN p2.unassigned \subseteq DOMAIN p.unassigned \cup {i}
      /\ \A j \in DOMAIN p2.unassigned :
           \/ j = i /\ p2.unassigned[j] = new
           \/ j \in DOMAIN p.unassigned /\ p2.unassigned[j] = p.unassigned[j]
  BY DEF Put
<1>6. i \notin DOMAIN r.dec /\ ~Held(p, r, i) /\ ~LiveIn(p.all, i)
  <2>1. ~Held(p, r, i) /\ i \notin DOMAIN r.dec
    BY DEF TaskPart, HeldOK
  <2> QED BY <2>1 DEF Held, Claimed
<1>7. /\ Claimed(r2, i) /\ \A j : j # i => (Claimed(r2, j) <=> Claimed(r, j))
  BY <1>4 DEF Claimed
<1>8. ~Held(p2, r2, i) /\ \A j : j # i => (Held(p2, r2, j) <=> Held(p, r, j))
  BY <1>2, <1>7 DEF Held, LiveIn
<1>9. ASSUME NEW j, Held(p2, r2, j) PROVE HeldOK(T, E, p2, r2, j)
  <2>1. j # i /\ HeldOK(T, E, p, r, j) /\ p2.all[j] = p.all[j]
    BY <1>2, <1>8, <1>9 DEF TaskPart, Held, LiveIn
  <2>2. j \notin DOMAIN p.pre
    BY <2>1 DEF HeldOK
  <2> QED BY <1>1, <1>5, <2>1, <2>2 DEF HeldOK
<1>10. ASSUME NEW j, LiveIn(T, j) PROVE Held(p2, r2, j)
  BY <1>6, <1>8, <1>10 DEF TaskPart
<1>11. ASSUME NEW e \in E, e.type = "task", Live(e.obj) PROVE Held(p2, r2, e.obj.id)
  BY <1>6, <1>8, <1>11 DEF TaskPart
<1>12. ASSUME NEW j, Claimed(r2, j) PROVE j \in DOMAIN p2.all /\ p2.all[j] = r2.dec[j].new
  <2>1. CASE j = i
    BY <1>2, <1>4, <2>1
  <2>2. CASE j # i
    <3>1. Claimed(r, j) /\ j \in DOMAIN r.dec
      BY <1>7, <1>12, <2>2 DEF Claimed
    <3> QED BY <1>2, <1>4, <2>2, <3>1 DEF TaskPart
  <2> QED BY <2>1, <2>2
<1>13. ASSUME NEW e \in E, e.type = "task" PROVE BehindOK(l, p2, r2, e)
  <2>1. BehindOK(l, p, r, e)
    BY <1>13 DEF TaskPart
  <2>2. ASSUME ~e.own
        PROVE  /\ Older(p2.unassigned, e) /\ Older(p2.pre, e) /\ Older(r2.todo, e)
               /\ Claimed(r2, e.obj.id) => r2.dec[e.obj.id].old.ver < e.obj.ver
    <3>1. Older(p.unassigned, e) /\ Older(p.pre, e) /\ Older(r.todo, e)
      BY <2>1, <2>2 DEF BehindOK
    <3>2. e.obj.id = i => r.todo[i].ver < e.obj.ver
      BY <3>1 DEF Older
    <3>3. Older(p2.unassigned, e)
      BY <1>5, <3>1, <3>2 DEF Older
    <3>4. Older(r2.todo, e)
      BY <1>1, <3>1 DEF Older
    <3>5. CASE e.obj.id = i
      BY <1>4, <3>1, <3>2, <3>3, <3>4, <3>5
    <3>6. CASE e.obj.id # i
      <4>1. Claimed(r2, e.obj.id) =>
              /\ e.obj.id \in DOMAIN r.dec /\ r2.dec[e.obj.id] = r.dec[e.obj.id]
              /\ r.dec[e.obj.id].old.ver < e.obj.ver
        BY <1>4, <1>7, <2>1, <2>2, <3>6 DEF BehindOK, Claimed
      <4> QED BY <3>1, <3>3, <3>4, <4>1
    <3> QED BY <3>5, <3>6
  <2> QED BY <2>1, <2>2 DEF BehindOK
<1>14. \A j \in DOMAIN r2.todo : j \notin DOMAIN r2.dec
  BY <1>1, <1>4 DEF TaskPart
<1> QED BY <1>6, <1>9, <1>10, <1>11, <1>12, <1>13, <1>14 DEF TaskPart

(* The decisions in ok are written, those in F are refused.                 *)
Written(T, U, p, p2, r, r2, new, F) ==
  LET ok == DOMAIN new
  IN  /\ ok \subseteq DOMAIN r.dec \cap DOMAIN T /\ F \subseteq DOMAIN r.dec \cap DOMAIN T
      /\ ok \cap F = {}
      /\ \A i \in (DOMAIN r.dec \cap DOMAIN T) \ (ok \cup F) : T[i].state = r.dec[i].new.state
      /\ \A i \in ok : T[i].ver = r.dec[i].old.ver /\ new[i] = NextVersion(r.dec[i].new)
      /\ DOMAIN U = DOMAIN T
      /\ \A i \in DOMAIN T : U[i] = IF i \in ok THEN new[i] ELSE T[i]
      /\ \A i : i \in DOMAIN p2.all <=> i \in ok \/ (i \in DOMAIN p.all /\ ~(i \in DOMAIN r.dec /\ i \notin DOMAIN T))
      /\ \A i \in DOMAIN p2.all : p2.all[i] = IF i \in ok THEN new[i] ELSE p.all[i]
      /\ \A i \in DOMAIN p2.pre : i \in DOMAIN p.pre /\ p2.pre[i] = p.pre[i]
      /\ \A i \in DOMAIN p2.unassigned :
           /\ i \in DOMAIN p.unassigned
           /\ p2.unassigned[i] = IF i \in ok THEN new[i] ELSE p.unassigned[i]
      /\ r2.phase = "free" /\ r2.failed = F /\ r2.ok = ok /\ r2.dec = r.dec /\ r2.job = r.job

LEMMA NextMore ==
  ASSUME NEW t, IsTask(t)
  PROVE  /\ NextVersion(t).vol = t.vol /\ NextVersion(t).svc = t.svc
         /\ Live(NextVersion(t)) <=> Live(t)
<1>1. NextVersion(t).vol = t.vol /\ NextVersion(t).svc = t.svc
  BY DEF NextVersion, IsTask
<1> QED BY <1>1, NextFields DEF Live

(* The events G after those in E tell of the tasks written and of volumes.  *)
Heard(new, E, Y, G) ==
  /\ E \subseteq G /\ \A i \in DOMAIN new : Own("task", new[i]) \in G
  /\ \A e \in G : e \in E \/ e \in Y \/ \E i \in DOMAIN new : e = Own("task", new[i])
  /\ \A e \in Y : e.type = "volume"

LEMMA TasksWritten ==
  ASSUME NEW l, NEW T, NEW D, NEW U, NEW E, NEW p, NEW r, TaskPart(l, T, E, p, r),
         Kinds(l, T, p, r), PictureOK(T, l.pre, p), RunOK(T, l.pre, p, r), r.phase = "plan",
         \A e \in E : EventFine(l, T, D, e),
         NEW p2, NEW r2, NEW new, NEW F, Written(T, U, p, p2, r, r2, new, F),
         NEW Y, NEW G, Heard(new, E, Y, G)
  PROVE  TaskPart(l, U, G, p2, r2)
<1>0. /\ E \subseteq G /\ \A i \in DOMAIN new : Own("task", new[i]) \in G
      /\ \A e \in G : e \in E \/ ~ofTask(e) \/ \E i \in DOMAIN new : e = Own("task", new[i])
  BY DEF Heard, ofTask
<1>1. PICK ok : ok = DOMAIN new
  OBVIOUS
<1>2. /\ r.job \in {"pre", "tick"}
      /\ \A i \in DOMAIN r.dec :
           /\ Copy(T, l.pre, r.dec[i].old) /\ IsTask(r.dec[i].new) /\ r.dec[i].old.id = i
           /\ r.dec[i].new.id = i /\ r.dec[i].old.state = TaskStatePending
           /\ r.dec[i].old.node = None <=> r.job = "tick"
           /\ r.dec[i].new.ver = r.dec[i].old.ver
  BY DEF RunOK, Decision
<1>3. ASSUME NEW i \in DOMAIN r.dec
      PROVE  /\ l.pre[i] = None <=> r.job = "tick"
             /\ ~Held(p, r, i) /\ ~LiveIn(T, i) /\ i \in DOMAIN p.all /\ p.all[i] = r.dec[i].new
  <2>1. r.dec[i].old.node = l.pre[i]
    BY <1>2, <1>3 DEF Copy, TaskStatePending
  <2>2. Claimed(r, i)
    BY <1>3 DEF Claimed
  <2> QED BY <1>2, <1>3, <2>1, <2>2 DEF TaskPart, Held
<1>4. ASSUME NEW i \in ok
      PROVE  /\ i \in DOMAIN r.dec /\ i \in DOMAIN T /\ U[i] = new[i] /\ i \in DOMAIN p2.all
             /\ p2.all[i] = new[i] /\ IsTask(new[i]) /\ new[i].id = i
             /\ Live(new[i]) <=> Live(r.dec[i].new)
             /\ i \notin F
  <2>1. /\ i \in DOMAIN r.dec /\ i \in DOMAIN T /\ U[i] = new[i] /\ i \in DOMAIN p2.all
        /\ p2.all[i] = new[i] /\ i \notin F /\ new[i] = NextVersion(r.dec[i].new)
    BY <1>1, <1>4 DEF Written
  <2>2. IsTask(r.dec[i].new) /\ r.dec[i].new.id = i
    BY <1>2, <2>1
  <2> QED BY <2>1, <2>2, NextFields, NextMore
(* Nothing is in the queue of a task that is written.                       *)
<1>5. ASSUME NEW i \in ok, NEW e \in E, About(e, i) PROVE FALSE
  <2>1. e.type = "task" /\ e.obj.id = i /\ e.obj.ver <= T[i].ver /\ IsTask(e.obj)
    BY <1>4, <1>5 DEF EventFine, About, Earlier, TaskOK
  <2>2. T[i].ver = r.dec[i].old.ver /\ i \in DOMAIN r.dec
    BY <1>1, <1>5 DEF Written
  <2>3. BehindOK(l, p, r, e)
    BY <1>5, <2>1 DEF TaskPart
  <2>4. CASE e.own
    BY <1>3, <2>1, <2>2, <2>3, <2>4 DEF BehindOK
  <2>5. CASE ~e.own
    <3>1. r.dec[i].old.ver < e.obj.ver
      BY <2>1, <2>2, <2>3, <2>5 DEF BehindOK, Claimed
    <3>2. IsTask(r.dec[i].old)
      BY <1>2, <2>2 DEF Copy
    <3> QED BY <2>1, <2>2, <3>1, <3>2 DEF IsTask
  <2> QED BY <2>4, <2>5
<1>6. ASSUME NEW i
      PROVE  Held(p2, r2, i) <=> Held(p, r, i) \/ (i \in ok /\ Live(new[i]))
  <2>1. CASE i \in ok
    <3>1. ~Claimed(r2, i) /\ ~Held(p, r, i)
      BY <1>3, <1>4, <2>1 DEF Claimed, Written
    <3> QED BY <1>4, <2>1, <3>1 DEF Held, LiveIn
  <2>2. CASE i \in DOMAIN r.dec /\ i \in F
    <3>1. Claimed(r2, i) /\ ~Held(p, r, i) /\ i \notin ok
      BY <1>1, <1>3, <2>2 DEF Claimed, Written
    <3> QED BY <3>1 DEF Held
  <2>3. CASE i \in DOMAIN r.dec /\ i \notin DOMAIN T
    <3>1. i \notin DOMAIN p2.all /\ ~Held(p, r, i) /\ i \notin ok
      BY <1>1, <1>3, <2>3 DEF Written
    <3> QED BY <3>1 DEF Held, LiveIn
  <2>4. CASE i \in DOMAIN r.dec /\ i \in DOMAIN T /\ i \notin ok \cup F
    <3>1. /\ T[i].state = r.dec[i].new.state /\ ~LiveIn(T, i) /\ ~Held(p, r, i)
          /\ p.all[i] = r.dec[i].new /\ (i \in DOMAIN p2.all => p2.all[i] = p.all[i])
      BY <1>1, <1>3, <2>4 DEF Written
    <3>2. ~LiveIn(p2.all, i)
      BY <2>4, <3>1 DEF LiveIn, Live
    <3> QED BY <2>4, <3>1, <3>2 DEF Held
  <2>5. CASE i \notin DOMAIN r.dec
    <3>1. i \notin ok /\ i \notin F /\ ~Claimed(r, i) /\ ~Claimed(r2, i)
      BY <1>1, <2>5 DEF Written, Claimed
    <3>2. (i \in DOMAIN p2.all <=> i \in DOMAIN p.all) /\ (i \in DOMAIN p.all => p2.all[i] = p.all[i])
      BY <1>1, <2>5, <3>1 DEF Written
    <3> QED BY <3>1, <3>2 DEF Held, LiveIn
  <2> QED BY <1>1, <2>1, <2>2, <2>3, <2>4, <2>5
<1>7. ASSUME NEW i \in DOMAIN T, i \notin ok PROVE U[i] = T[i] /\ i \in DOMAIN U
  BY <1>1, <1>7 DEF Written
<1>8. DOMAIN U = DOMAIN T
  BY DEF Written
<1>9. ASSUME NEW e \in G, ofTask(e), e \notin E
      PROVE  \E i \in ok : e.type = "task" /\ e.obj = new[i] /\ e.own /\ e.obj.id = i
  BY <1>0, <1>1, <1>4, <1>9 DEF Own
<1>10. ASSUME NEW i, Held(p2, r2, i) PROVE HeldOK(U, G, p2, r2, i)
  <2>1. CASE i \in ok
    <3>1. PICK t : t = new[i]
      OBVIOUS
    <3>2. /\ Live(t) /\ p2.all[i] = t /\ U[i] = t /\ i \in DOMAIN r.dec /\ Live(r.dec[i].new)
          /\ IsTask(t) /\ t.id = i
      BY <1>3, <1>4, <1>6, <1>10, <2>1, <3>1
    <3>3. Follows(t, t)
      BY <3>2 DEF Follows, Live, TaskStateAssigned
    <3>4. ASSUME NEW e \in G, About(e, i) PROVE e.obj = t
      BY <1>5, <1>9, <2>1, <3>1, <3>4 DEF About
    <3>5. i \notin DOMAIN p2.unassigned
      <4> SUFFICES ASSUME i \in DOMAIN p2.unassigned PROVE FALSE
        OBVIOUS
      <4>1. i \in DOMAIN p.unassigned
        BY DEF Written
      <4>2. p.unassigned[i].id = i /\ p.unassigned[i].node = None
            /\ p.unassigned[i].node = l.pre[i]
        BY <4>1 DEF PictureOK, Waiting, Copies, Copy, TaskStatePending
      <4>3. r.job = "tick"
        BY <1>3, <3>2, <4>2
      <4>4. r.dec[i].new.state = TaskStatePending
        BY <4>1, <4>3 DEF RunOK
      <4> QED BY <3>2, <4>4 DEF Live, TaskStatePending, TaskStateAssigned
    <3>6. ASSUME i \in DOMAIN p2.pre
          PROVE  r2.phase = "free" /\ r2.job = "pre" /\ i \in r2.ok /\ Live(r2.dec[i].new)
      <4>1. i \in DOMAIN p.pre
        BY <3>6 DEF Written
      <4>2. p.pre[i].id = i /\ p.pre[i].node # None /\ p.pre[i].node = l.pre[i]
        BY <4>1 DEF PictureOK, Waiting, Copies, Copy, TaskStatePending
      <4>3. r.job = "pre"
        BY <1>2, <1>3, <3>2, <4>2
      <4> QED BY <1>1, <2>1, <3>2, <4>3 DEF Written
    <3>7. Own("task", t) \in G /\ About(Own("task", t), i)
      BY <1>0, <1>1, <2>1, <3>1, <3>2 DEF Own, About, ofTask
    <3>8. r2.phase = "free"
      BY DEF Written
    <3> QED BY <3>2, <3>3, <3>4, <3>5, <3>6, <3>7, <3>8 DEF HeldOK
  <2>2. CASE i \notin ok
    <3>1. Held(p, r, i) /\ HeldOK(T, E, p, r, i) /\ i \notin DOMAIN r.dec
      BY <1>3, <1>6, <1>10, <2>2 DEF TaskPart
    <3>2. p2.all[i] = p.all[i]
      BY <1>1, <1>10, <2>2 DEF Written, Held, LiveIn
    <3>3. i \notin DOMAIN p2.unassigned /\ i \notin DOMAIN p2.pre
      BY <3>1 DEF Written, HeldOK
    <3>4. \A e \in G : About(e, i) => e \in E
      BY <1>9, <2>2 DEF About
    <3>5. r2.phase = "free"
      BY DEF Written
    <3>6. LiveIn(T, i) => LiveIn(U, i) /\ U[i] = T[i]
      BY <1>7, <2>2 DEF LiveIn
    <3> QED BY <1>0, <1>7, <1>8, <2>2, <3>1, <3>2, <3>3, <3>4, <3>5, <3>6 DEF HeldOK
  <2> QED BY <2>1, <2>2
<1>11. ASSUME NEW i, LiveIn(U, i) PROVE Held(p2, r2, i)
  <2>1. CASE i \in ok
    BY <1>4, <1>6, <1>11, <2>1 DEF LiveIn
  <2>2. CASE i \notin ok
    <3>1. LiveIn(T, i)
      BY <1>7, <1>8, <1>11, <2>2 DEF LiveIn
    <3> QED BY <1>6, <3>1 DEF TaskPart
  <2> QED BY <2>1, <2>2
<1>12. ASSUME NEW e \in G, e.type = "task", Live(e.obj) PROVE Held(p2, r2, e.obj.id)
  <2>1. CASE e \in E
    BY <1>6, <1>12, <2>1 DEF TaskPart
  <2>2. CASE e \notin E
    BY <1>6, <1>9, <1>12, <2>2 DEF ofTask
  <2> QED BY <2>1, <2>2
<1>13. ASSUME NEW i, Claimed(r2, i) PROVE i \in DOMAIN p2.all /\ p2.all[i] = r2.dec[i].new
  <2>1. i \in F /\ i \in DOMAIN r.dec /\ i \in DOMAIN T /\ i \notin ok /\ r2.dec = r.dec
    BY <1>1, <1>13 DEF Claimed, Written
  <2>2. i \in DOMAIN p.all /\ p.all[i] = r.dec[i].new
    BY <1>3, <2>1
  <2> QED BY <1>1, <2>1, <2>2 DEF Written
<1>14. ASSUME NEW e \in G, e.type = "task" PROVE BehindOK(l, p2, r2, e)
  <2>1. r2.phase = "free" /\ r2.job = r.job /\ r2.dec = r.dec
    BY DEF Written
  <2>2. CASE e \notin E
    <3>1. PICK i \in ok : e.own /\ e.obj.id = i
      BY <1>9, <1>14, <2>2 DEF ofTask
    <3> QED BY <1>3, <1>4, <2>1, <3>1 DEF BehindOK
  <2>3. CASE e \in E
    <3>1. BehindOK(l, p, r, e) /\ About(e, e.obj.id)
      BY <1>14, <2>3 DEF TaskPart, About, ofTask
    <3>2. e.obj.id \notin ok
      BY <1>5, <2>3, <3>1
    <3>3. ~e.own => Older(p2.unassigned, e) /\ Older(p2.pre, e)
      BY <1>1, <3>1, <3>2 DEF BehindOK, Older, Written
    <3>4. Claimed(r2, e.obj.id) => Claimed(r, e.obj.id)
      BY DEF Claimed, Written
    <3> QED BY <2>1, <3>1, <3>3, <3>4 DEF BehindOK
  <2> QED BY <2>2, <2>3
<1>15. r2.phase # "plan"
  BY DEF Written
<1> QED BY <1>10, <1>11, <1>12, <1>13, <1>14, <1>15 DEF TaskPart

LEMMA TasksFinished ==
  ASSUME NEW l, NEW T, NEW E, NEW p, NEW r, TaskPart(l, T, E, p, r), Kinds(l, T, p, r),
         RunOK(T, l.pre, p, r), r.phase = "free",
         NEW again, again = [i \in r.failed |-> r.dec[i].old],
         NEW p2, p2.all = Overlay(again, p.all),
         p2.unassigned \in {p.unassigned, Overlay(again, p.unassigned)},
         \A i \in DOMAIN p2.pre :
           /\ i \in DOMAIN p.pre /\ p2.pre[i] = p.pre[i]
           /\ ~(r.job = "pre" /\ i \in r.ok /\ Live(r.dec[i].new)),
         NEW r2, r2.phase = "idle"
  PROVE  TaskPart(l, T, E, p2, r2) /\ \A i : LiveIn(p2.all, i) <=> Held(p, r, i)
<1>1. ASSUME NEW i \in r.failed
      PROVE  /\ again[i] = r.dec[i].old /\ r.dec[i].old.state = TaskStatePending
             /\ Claimed(r, i) /\ ~Held(p, r, i)
  BY <1>1 DEF RunOK, Decision, Claimed, Held
<1>2. /\ DOMAIN p2.all = r.failed \cup DOMAIN p.all
      /\ \A i \in DOMAIN p2.all : p2.all[i] = IF i \in r.failed THEN r.dec[i].old ELSE p.all[i]
  BY DEF Overlay
<1>3. ASSUME NEW i \in DOMAIN p2.unassigned
      PROVE  \/ i \in r.failed /\ p2.unassigned[i] = r.dec[i].old
             \/ i \in DOMAIN p.unassigned /\ p2.unassigned[i] = p.unassigned[i]
  BY <1>3, ZenonT(40) DEF Overlay
<1>4. ASSUME NEW i PROVE LiveIn(p2.all, i) <=> Held(p, r, i)
  <2>1. CASE i \in r.failed
    BY <1>1, <1>2, <2>1 DEF LiveIn, Live, TaskStatePending, TaskStateAssigned
  <2>2. CASE i \notin r.failed
    BY <1>2, <2>2 DEF LiveIn, Held, Claimed
  <2> QED BY <2>1, <2>2
<1>5. \A i : Held(p2, r2, i) <=> Held(p, r, i)
  BY <1>4, IdleHeld
<1>6. ASSUME NEW i, Held(p, r, i) PROVE HeldOK(T, E, p2, r2, i)
  <2>1. HeldOK(T, E, p, r, i) /\ i \notin r.failed /\ p2.all[i] = p.all[i]
    BY <1>1, <1>2, <1>6 DEF TaskPart, Held, LiveIn
  <2>2. i \notin DOMAIN p2.unassigned
    BY <1>3, <2>1 DEF HeldOK
  <2>3. i \notin DOMAIN p2.pre
    BY <2>1 DEF HeldOK
  <2> QED BY <2>1, <2>2, <2>3 DEF HeldOK
<1>7. ASSUME NEW e \in E, e.type = "task" PROVE BehindOK(l, p2, r2, e)
  <2>1. BehindOK(l, p, r, e)
    BY <1>7 DEF TaskPart
  <2>2. ASSUME ~e.own PROVE Older(p2.unassigned, e) /\ Older(p2.pre, e)
    <3>1. /\ Older(p.unassigned, e) /\ Older(p.pre, e)
          /\ e.obj.id \in r.failed => r.dec[e.obj.id].old.ver < e.obj.ver
      BY <1>1, <2>1, <2>2 DEF BehindOK
    <3> QED BY <1>3, <3>1 DEF Older
  <2> QED BY <2>2 DEF BehindOK, Claimed
<1>8. \A i : ~Claimed(r2, i)
  BY DEF Claimed
<1> QED BY <1>4, <1>5, <1>6, <1>7, <1>8 DEF TaskPart

(* The picture is made anew from the store.                                 *)
LEMMA TasksFresh ==
  ASSUME NEW l, NEW T, NEW p, NEW r, r.phase = "plan", r.dec = Empty, r.todo = p.pre,
         \A i : LiveIn(p.all, i) <=> LiveIn(T, i),
         \A i : LiveIn(T, i) => /\ p.all[i] = T[i] /\ T[i].state >= TaskStateAssigned
                                /\ i \notin DOMAIN p.unassigned /\ i \notin DOMAIN p.pre
  PROVE  TaskPart(l, T, {}, p, r)
<1>1. DOMAIN r.dec = {}
  BY DEF Empty
<1>2. \A i : ~Claimed(r, i) /\ (Held(p, r, i) <=> LiveIn(T, i))
  BY <1>1 DEF Claimed, Held
<1>3. ASSUME NEW i, LiveIn(T, i) PROVE HeldOK(T, {}, p, r, i)
  BY <1>3 DEF HeldOK, Follows, LiveIn
<1> QED BY <1>1, <1>2, <1>3 DEF TaskPart

-----------------------------------------------------------------------------
(* The nodes the scheduler has                                              *)

NodePart(l, D, E, A, N) ==
  /\ NodePic(l, A, N) /\ \A n \in DOMAIN D : NodeOK(l, n, D[n])
  /\ \A i : LiveIn(A, i) => A[i].node \in DOMAIN l.room
  /\ \A e \in E : e.type = "node" /\ e.obj.id \notin DOMAIN N =>
       \A i : LiveIn(A, i) => A[i].node # e.obj.id
  /\ \A n : (\A e \in E : ~AboutNode(e, n)) =>
       /\ n \in DOMAIN N <=> n \in DOMAIN D
       /\ n \in DOMAIN N => N[n].node = D[n]

LEMMA LeftPic ==
  ASSUME NEW l, NEW m, LeftStep(l, m), NEW A, NEW N, NodePic(l, A, N)
  PROVE  NodePic(m, A, N)
<1> SUFFICES ASSUME NEW n \in DOMAIN N
             PROVE  NodeOK(m, n, N[n].node) /\ Within(m, n, LiveAt(A, n))
  BY DEF NodePic
<1>1. NodeOK(l, n, N[n].node) /\ Within(l, n, LiveAt(A, n))
  BY DEF NodePic
<1>2. m.room[n] = l.room[n]
  BY <1>1 DEF NodeOK, LeftStep
<1> QED BY <1>1, <1>2, LeftNode DEF Within

(* No node is written.                                                      *)
LEMMA NodesOther ==
  ASSUME NEW l, NEW m, LeftStep(l, m), NEW D, NEW E, NEW A, NEW N, NodePart(l, D, E, A, N),
         NEW F, E \subseteq F, \A e \in F : e \in E \/ ~ofNode(e)
  PROVE  NodePart(m, D, F, A, N)
<1>1. NodePic(m, A, N) /\ \A n \in DOMAIN D : NodeOK(m, n, D[n])
  BY LeftPic, LeftNode DEF NodePart
<1>2. \A i : LiveIn(A, i) => A[i].node \in DOMAIN m.room
  BY DEF NodePart, LeftStep
<1>3. \A e \in F : e.type = "node" => e \in E
  BY DEF ofNode
<1> QED BY <1>1, <1>2, <1>3 DEF NodePart

(* A node is written.                                                       *)
LEMMA NodesSet ==
  ASSUME NEW l, NEW m, LeftStep(l, m), NEW T, NEW D, NEW E, NEW A, NEW N, NodePart(l, D, E, A, N),
         \A e \in E : EventFine(l, T, D, e),
         NEW n, NEW node, NodeOK(m, n, node), n \in DOMAIN D \/ n \notin DOMAIN l.room,
         NEW e, e.type = "node", e.obj = node, NEW F, F = E \cup {e}
  PROVE  NodePart(m, Put(D, n, node), F, A, N)
<1>1. NodePic(m, A, N) /\ \A k \in DOMAIN D : NodeOK(m, k, D[k])
  BY LeftPic, LeftNode DEF NodePart
<1>2. PICK C : C = Put(D, n, node)
  OBVIOUS
<1>3. DOMAIN C = DOMAIN D \cup {n} /\ C[n] = node /\ \A k \in DOMAIN D : k # n => C[k] = D[k]
  BY <1>2 DEF Put
<1>4. \A k \in DOMAIN C : NodeOK(m, k, C[k])
  BY <1>1, <1>3
<1>5. \A i : LiveIn(A, i) => A[i].node \in DOMAIN m.room
  BY DEF NodePart, LeftStep
<1>6. AboutNode(e, n) /\ e.obj.id = n
  BY DEF AboutNode, ofNode, NodeOf, NodeOK
<1>7. ASSUME n \notin DOMAIN N, NEW i, LiveIn(A, i) PROVE A[i].node # n
  <2>1. CASE n \notin DOMAIN l.room
    BY <1>7, <2>1 DEF NodePart
  <2>2. CASE n \in DOMAIN D
    <3>1. PICK d \in E : AboutNode(d, n)
      BY <1>7, <2>2 DEF NodePart
    <3>2. d.type = "node" /\ d.obj.id = n
      <4>1. EventFine(l, T, D, d)
        BY <3>1
      <4> QED BY <2>2, <3>1, <4>1 DEF AboutNode, ofNode, NodeOf, EventFine
    <3> QED BY <1>7, <3>1, <3>2 DEF NodePart
  <2> QED BY <2>1, <2>2
<1>8. ASSUME NEW d \in F, d.type = "node", d.obj.id \notin DOMAIN N, NEW i, LiveIn(A, i)
      PROVE  A[i].node # d.obj.id
  BY <1>6, <1>7, <1>8 DEF NodePart
<1>9. ASSUME NEW k, \A d \in F : ~AboutNode(d, k)
      PROVE  (k \in DOMAIN N <=> k \in DOMAIN C) /\ (k \in DOMAIN N => N[k].node = C[k])
  <2>1. k # n /\ \A d \in E : ~AboutNode(d, k)
    BY <1>6, <1>9
  <2> QED BY <1>3, <2>1 DEF NodePart
<1>10. NodePart(m, C, F, A, N)
  BY <1>1, <1>4, <1>5, <1>8, <1>9 DEF NodePart
<1> QED BY <1>2, <1>10

(* A node is deleted.                                                       *)
LEMMA NodesGone ==
  ASSUME NEW l, NEW m, LeftStep(l, m), NEW D, NEW E, NEW A, NEW N, NodePart(l, D, E, A, N),
         NEW n, NEW e, e.type = "nodegone", e.obj = n, NEW F, F = E \cup {e}
  PROVE  NodePart(m, Drop(D, n), F, A, N)
<1>1. NodePic(m, A, N) /\ \A k \in DOMAIN D : NodeOK(m, k, D[k])
  BY LeftPic, LeftNode DEF NodePart
<1>2. PICK C : C = Drop(D, n)
  OBVIOUS
<1>3. DOMAIN C = DOMAIN D \ {n} /\ \A k \in DOMAIN C : C[k] = D[k]
  BY <1>2 DEF Drop, Restrict
<1>4. \A i : LiveIn(A, i) => A[i].node \in DOMAIN m.room
  BY DEF NodePart, LeftStep
<1>5. AboutNode(e, n)
  BY DEF AboutNode, ofNode, NodeOf
<1>6. \A d \in F : d.type = "node" => d \in E
  OBVIOUS
<1>7. ASSUME NEW k, \A d \in F : ~AboutNode(d, k)
      PROVE  (k \in DOMAIN N <=> k \in DOMAIN C) /\ (k \in DOMAIN N => N[k].node = C[k])
  <2>1. k # n /\ \A d \in E : ~AboutNode(d, k)
    BY <1>5, <1>7
  <2> QED BY <1>3, <2>1 DEF NodePart
<1>8. NodePart(m, C, F, A, N)
  BY <1>1, <1>3, <1>4, <1>6, <1>7 DEF NodePart
<1> QED BY <1>2, <1>8

(* Other tasks are counted.                                                 *)
LEMMA NodesCounted ==
  ASSUME NEW l, NEW D, NEW E, NEW A, NEW N, NodePart(l, D, E, A, N),
         NEW B, NEW M, NodePic(l, B, M), DOMAIN M = DOMAIN N,
         \A n \in DOMAIN N : M[n].node = N[n].node,
         \A i : LiveIn(B, i) => \/ LiveIn(A, i) /\ B[i].node = A[i].node
                                \/ B[i].node \in DOMAIN N
  PROVE  NodePart(l, D, E, B, M)
<1>1. \A n \in DOMAIN N : n \in DOMAIN l.room
  BY DEF NodePart, NodePic, NodeOK
<1>2. \A i : LiveIn(B, i) => B[i].node \in DOMAIN l.room
  BY <1>1 DEF NodePart
<1>3. ASSUME NEW e \in E, e.type = "node", e.obj.id \notin DOMAIN M, NEW i, LiveIn(B, i)
      PROVE  B[i].node # e.obj.id
  BY <1>3 DEF NodePart
<1>4. \A n : (\A e \in E : ~AboutNode(e, n)) =>
       /\ n \in DOMAIN M <=> n \in DOMAIN D
       /\ n \in DOMAIN M => M[n].node = D[n]
  BY DEF NodePart
<1> QED BY <1>2, <1>3, <1>4 DEF NodePart

(* Events other than those of nodes are handled.                            *)
LEMMA NodesPassed ==
  ASSUME NEW l, NEW T, NEW D, NEW E, NEW A, NEW N, NodePart(l, D, E, A, N),
         NEW e, NEW F, First(l, T, D, E, e, F), ~ofNode(e)
  PROVE  NodePart(l, D, F, A, N)
<1>1. F \subseteq E /\ \A d \in E : ofNode(d) => d \in F
  BY DEF First
<1>2. \A n : (\A d \in F : ~AboutNode(d, n)) => \A d \in E : ~AboutNode(d, n)
  BY <1>1 DEF AboutNode
<1> QED BY <1>1, <1>2 DEF NodePart

LEMMA WithinNone ==
  ASSUME NEW l, NEW n, l.room[n] \in Nat, NEW f, DOMAIN f = {}
  PROVE  Within(l, n, f)
<1>1. Apart(f)
  BY DEF Apart
<1>2. Units(f) = {} /\ \A x : ActiveTasks(f, x) = {}
  BY DEF Units, ActiveTasks
<1>3. reserved(f) = 0 /\ \A x : Cardinality(ActiveTasks(f, x)) = 0
  BY <1>2, FS_EmptySet DEF reserved
<1>4. \A x \in Services : Specs[x].max \in Nat
  BY NodeInfoAssumption
<1> QED BY <1>1, <1>3, <1>4 DEF Within

(* What createOrUpdateNode makes of the nodes N.                            *)
NodePut(N, node) ==
  LET old == N[node.id]
      new == IF node.id \in DOMAIN N
             THEN Renewed(old, node)
             ELSE newNodeInfo(node, Empty)
  IN  Put(N, node.id, new)

LEMMA NodesPut ==
  ASSUME NEW l, RoomOK(l), NEW T, NEW D, NEW E, NEW A, AllOK(l, A), NEW N,
         NodePart(l, D, E, A, N), NEW e, NEW F, First(l, T, D, E, e, F), e.type = "node"
  PROVE  NodePart(l, D, F, A, NodePut(N, e.obj))
<1>1. PICK node, n : node = e.obj /\ n = node.id
  OBVIOUS
<1>2. NodeOK(l, n, node) /\ AboutNode(e, n) /\ node.room \in Int /\ l.room[n] \in Nat
  BY <1>1 DEF First, EventFine, AboutNode, ofNode, NodeOf, NodeOK, RoomOK
<1>3. PICK M : M = NodePut(N, node)
  OBVIOUS
<1>4. /\ M = [k \in DOMAIN M |-> M[k]] /\ DOMAIN M = DOMAIN N \cup {n}
      /\ \A k \in DOMAIN N : k # n => M[k] = N[k]
      /\ n \in DOMAIN N => M[n] = Renewed(N[n], node)
      /\ n \notin DOMAIN N => M[n] = newNodeInfo(node, Empty)
  BY <1>1, <1>3 DEF NodePut, Put
<1>5. Fine(LiveAt(A, n))
  BY LiveAtFine
<1>6. M[n] = newNodeInfo(node, LiveAt(A, n)) /\ Within(l, n, LiveAt(A, n))
  <2>1. CASE n \in DOMAIN N
    <3>1. N[n] = newNodeInfo(N[n].node, LiveAt(A, n)) /\ Within(l, n, LiveAt(A, n))
      BY <2>1 DEF NodePart, NodePic
    <3>2. PICK old, f, ni : old = N[n].node /\ f = LiveAt(A, n) /\ ni = N[n]
      OBVIOUS
    <3>3. ni = newNodeInfo(old, f) /\ Fine(f)
      BY <1>5, <3>1, <3>2
    <3>4. Renewed(ni, node) = newNodeInfo(node, f)
      BY <1>2, <3>3, InfoUpdate
    <3> QED BY <1>4, <2>1, <3>1, <3>2, <3>4
  <2>2. CASE n \notin DOMAIN N
    <3>1. \A i : LiveIn(A, i) => A[i].node # n
      BY <1>1, <1>2, <2>2 DEF NodePart, First
    <3>2. DOMAIN LiveAt(A, n) = {}
      <4>1. \A i : i \notin DOMAIN LiveAt(A, n)
        BY <3>1, LiveAtIn
      <4> QED BY <4>1
    <3>3. Alike(Empty, LiveAt(A, n))
      BY <3>2 DEF Alike, Empty
    <3>4. newNodeInfo(node, Empty) = newNodeInfo(node, LiveAt(A, n))
      BY <3>3, InfoAlike
    <3> QED BY <1>2, <1>4, <2>2, <3>2, <3>4, WithinNone
  <2> QED BY <2>1, <2>2
<1>7. M[n].node = node
  BY <1>6 DEF newNodeInfo
<1>8. NodePic(l, A, M)
  <2> SUFFICES ASSUME NEW k \in DOMAIN M
               PROVE  /\ NodeOK(l, k, M[k].node) /\ M[k] = newNodeInfo(M[k].node, LiveAt(A, k))
                      /\ Within(l, k, LiveAt(A, k))
    BY <1>4 DEF NodePic
  <2> QED BY <1>2, <1>4, <1>6, <1>7 DEF NodePart, NodePic
<1>9. ASSUME NEW d \in F, d.type = "node", d.obj.id \notin DOMAIN M, NEW i, LiveIn(A, i)
      PROVE  A[i].node # d.obj.id
  BY <1>4, <1>9 DEF NodePart, First
<1>10. ASSUME NEW k, \A d \in F : ~AboutNode(d, k)
       PROVE  (k \in DOMAIN M <=> k \in DOMAIN D) /\ (k \in DOMAIN M => M[k].node = D[k])
  <2>1. CASE k = n
    <3>1. CurrentNode(D, e)
      BY <1>2, <1>10, <2>1 DEF First, AboutNode
    <3>2. n \in DOMAIN D /\ D[n] = node
      BY <1>1, <1>2, <3>1 DEF CurrentNode, AboutNode
    <3> QED BY <1>4, <1>7, <2>1, <3>2
  <2>2. CASE k # n
    <3>1. \A d \in E : ~AboutNode(d, k)
      BY <1>2, <1>10, <2>2 DEF First, AboutNode
    <3> QED BY <1>4, <2>2, <3>1 DEF NodePart
  <2> QED BY <2>1, <2>2
<1>11. NodePart(l, D, F, A, M)
  BY <1>8, <1>9, <1>10 DEF NodePart
<1> QED BY <1>1, <1>3, <1>11

LEMMA NodesDrop ==
  ASSUME NEW l, NEW T, NEW D, NEW E, NEW A, NEW N, NodePart(l, D, E, A, N),
         NEW e, NEW F, First(l, T, D, E, e, F), e.type = "nodegone"
  PROVE  NodePart(l, D, F, A, Drop(N, e.obj))
<1>1. PICK n : n = e.obj
  OBVIOUS
<1>2. PICK M : M = Drop(N, n)
  OBVIOUS
<1>3. DOMAIN M = DOMAIN N \ {n} /\ M = [k \in DOMAIN M |-> M[k]] /\ \A k \in DOMAIN M : M[k] = N[k]
  BY <1>2 DEF Drop, Restrict
<1>4. AboutNode(e, n)
  BY <1>1 DEF AboutNode, ofNode, NodeOf
<1>5. \A d \in F : ~AboutNode(d, n)
  BY <1>4 DEF First, Pair, AboutNode
<1>6. n \notin DOMAIN D
  BY <1>1, <1>4, <1>5 DEF First, EventFine
<1>7. NodePic(l, A, M)
  BY <1>3 DEF NodePic, NodePart
<1>8. ASSUME NEW d \in F, d.type = "node", d.obj.id \notin DOMAIN M, NEW i, LiveIn(A, i)
      PROVE  A[i].node # d.obj.id
  <2>1. d.obj.id # n
    BY <1>5, <1>8 DEF AboutNode, ofNode, NodeOf
  <2> QED BY <1>3, <1>8, <2>1 DEF NodePart, First
<1>9. ASSUME NEW k, \A d \in F : ~AboutNode(d, k)
      PROVE  (k \in DOMAIN M <=> k \in DOMAIN D) /\ (k \in DOMAIN M => M[k].node = D[k])
  <2>1. CASE k = n
    BY <1>3, <1>6, <2>1
  <2>2. CASE k # n
    <3>1. \A d \in E : ~AboutNode(d, k)
      BY <1>4, <1>9, <2>2 DEF First, AboutNode
    <3> QED BY <1>3, <2>2, <3>1 DEF NodePart
  <2> QED BY <2>1, <2>2
<1>10. NodePart(l, D, F, A, M)
  BY <1>7, <1>8, <1>9 DEF NodePart
<1> QED BY <1>1, <1>2, <1>10

(* The nodes of a new leader.                                               *)
NodesOf(D, B) == [n \in DOMAIN D |-> newNodeInfo(D[n], LiveAt(B, n))]

LEMMA NodesFresh ==
  ASSUME NEW l, NEW D, NEW B, \A n \in DOMAIN D : NodeOK(l, n, D[n]) /\ Within(l, n, LiveAt(B, n)),
         \A i : LiveIn(B, i) => B[i].node \in DOMAIN l.room
  PROVE  NodePart(l, D, {}, B, NodesOf(D, B))
<1>1. PICK M : M = NodesOf(D, B)
  OBVIOUS
<1>2. DOMAIN M = DOMAIN D /\ M = [n \in DOMAIN M |-> M[n]]
      /\ \A n \in DOMAIN D : M[n] = newNodeInfo(D[n], LiveAt(B, n))
  BY <1>1 DEF NodesOf
<1>3. \A n \in DOMAIN D : M[n].node = D[n]
  BY <1>2 DEF newNodeInfo
<1>4. NodePic(l, B, M)
  BY <1>2, <1>3 DEF NodePic
<1>5. NodePart(l, D, {}, B, M)
  BY <1>2, <1>3, <1>4 DEF NodePart
<1> QED BY <1>1, <1>5

LEMMA NodesAnew ==
  ASSUME NEW l, RoomOK(l), NEW T, AllOK(l, T), NEW D, NEW E, NEW p, AllOK(l, p.all), NEW r,
         TaskPart(l, T, E, p, r), NodePart(l, D, E, p.all, p.nodes),
         \A e \in E : EventFine(l, T, D, e),
         NEW B, AllOK(l, B), \A i : LiveIn(B, i) => LiveIn(T, i) /\ B[i] = T[i]
  PROVE  NodePart(l, D, {}, B, NodesOf(D, B))
<1>1. ASSUME NEW i, LiveIn(B, i)
      PROVE  /\ LiveIn(p.all, i) /\ B[i].node = p.all[i].node /\ B[i].svc = p.all[i].svc
             /\ B[i].wanted => p.all[i].wanted
  <2>1. LiveIn(T, i) /\ B[i] = T[i]
    BY <1>1
  <2>2. Held(p, r, i)
    BY <2>1 DEF TaskPart
  <2>3. LiveIn(p.all, i) /\ HeldOK(T, E, p, r, i)
    BY <2>2 DEF TaskPart, Held
  <2>4. Follows(p.all[i], T[i])
    BY <2>1, <2>3 DEF HeldOK, LiveIn
  <2>5. T[i].svc = p.all[i].svc
    BY <2>1, <2>3 DEF AllOK, TaskOK, LiveIn
  <2> QED BY <2>1, <2>3, <2>4, <2>5 DEF Follows
<1>2. \A i : LiveIn(B, i) => B[i].node \in DOMAIN l.room
  BY <1>1 DEF NodePart
<1>3. ASSUME NEW n \in DOMAIN D
      PROVE  NodeOK(l, n, D[n]) /\ Within(l, n, LiveAt(B, n))
  <2>1. NodeOK(l, n, D[n]) /\ l.room[n] \in Nat
    BY DEF NodePart, NodeOK, RoomOK
  <2>2. CASE n \in DOMAIN p.nodes
    <3>1. PICK f, g : f = LiveAt(p.all, n) /\ g = LiveAt(B, n)
      OBVIOUS
    <3>2. Fine(f) /\ Fine(g) /\ Within(l, n, f)
      BY <2>2, <3>1, LiveAtFine DEF NodePart, NodePic
    <3>3. /\ DOMAIN g \subseteq DOMAIN f
          /\ \A i \in DOMAIN g : g[i].svc = f[i].svc /\ (g[i].wanted => f[i].wanted)
      BY <1>1, <3>1, LiveAtIn
    <3>4. Within(l, n, g)
      BY <2>1, <3>2, <3>3, WithinLess
    <3> QED BY <2>1, <3>1, <3>4
  <2>3. CASE n \notin DOMAIN p.nodes
    <3>1. PICK e \in E : AboutNode(e, n)
      BY <2>3 DEF NodePart
    <3>2. EventFine(l, T, D, e)
      BY <3>1
    <3>3. e.type = "node" /\ e.obj.id = n
      BY <3>1, <3>2 DEF AboutNode, ofNode, NodeOf, EventFine
    <3>4. \A i : LiveIn(p.all, i) => p.all[i].node # n
      BY <2>3, <3>1, <3>3 DEF NodePart
    <3>5. DOMAIN LiveAt(B, n) = {}
      <4>1. \A i : i \notin DOMAIN LiveAt(B, n)
        BY <1>1, <3>4, LiveAtIn
      <4> QED BY <4>1
    <3> QED BY <2>1, <3>5, WithinNone
  <2> QED BY <2>2, <2>3
<1> QED BY <1>2, <1>3, NodesFresh

-----------------------------------------------------------------------------
(* The volumes the scheduler has                                            *)

(* A task the scheduler has placed uses the volume.                         *)
Uses(l, A, i, v) == LiveIn(A, i) /\ A[i].vol = v /\ l.pre[i] = None

InfoEvent(e, v) == e.type = "volume" /\ e.obj.id = v /\ e.obj.vol.info

(* The users of a volume the scheduler has are those it has placed; one it  *)
(* does not have is not used, unless it is deleted, and is announced when   *)
(* it exists. Used or announced, it is not one that is still to be created. *)
UsersOK(l, A, V, v) ==
  /\ "users" \in DOMAIN V[v]
  /\ \A i : /\ Uses(l, A, i, v) <=> i \in DOMAIN V[v].users /\ l.pre[i] = None
            /\ Uses(l, A, i, v) => V[v].users[i] = A[i].node
UnusedOK(l, W, E, A, v) ==
  \A i : Uses(l, A, i, v) => v \notin DOMAIN W /\ \A e \in E : e.type = "volume" => e.obj.id # v
KnownOK(l, W, v) == v \notin l.new /\ (v \in DOMAIN W => W[v].info)
ShareOK(l, A, v) ==
  \A i, j : Uses(l, A, i, v) /\ Uses(l, A, j, v) =>
    /\ Volumes[v] = "none" => i = j
    /\ Volumes[v] = "node" => A[i].node = A[j].node

VolOK(l, W, E, A, V, v) ==
  /\ v \in DOMAIN V => UsersOK(l, A, V, v)
  /\ v \notin DOMAIN V => UnusedOK(l, W, E, A, v)
  /\ v \notin DOMAIN V /\ v \in DOMAIN W /\ W[v].info => \E e \in E : InfoEvent(e, v)
  /\ v \in DOMAIN V => KnownOK(l, W, v)
  /\ \A i : Uses(l, A, i, v) => KnownOK(l, W, v)
  /\ \A e \in E : InfoEvent(e, v) => KnownOK(l, W, v)
  /\ ShareOK(l, A, v)

VolPart(l, W, E, A, V) == \A v \in DOMAIN Volumes : VolOK(l, W, E, A, V, v)

(* What may happen to the volumes in the store.                             *)
VolWrites(l, W, X, E, F) ==
  /\ E \subseteq F
  /\ \A e \in F : e.type = "volume" =>
       e \in E \/ (e.obj.id \in DOMAIN X /\ e.obj.vol = X[e.obj.id])
  /\ \A v \in DOMAIN X : /\ v \in DOMAIN W => (W[v].info => X[v].info)
                         /\ v \notin DOMAIN W => v \in l.new /\ ~X[v].info
                         /\ v \in DOMAIN W /\ X[v].info =>
                              W[v].info \/ \E e \in F : InfoEvent(e, v)
  /\ \A v \in l.new : v \notin DOMAIN W

LEMMA LeftUses ==
  ASSUME NEW l, NEW m, LeftStep(l, m), NEW A, NEW v
  PROVE  /\ \A i : Uses(m, A, i, v) <=> Uses(l, A, i, v)
         /\ \A V : UsersOK(m, A, V, v) <=> UsersOK(l, A, V, v)
         /\ ShareOK(m, A, v) <=> ShareOK(l, A, v)
<1>1. m.pre = l.pre
  BY DEF LeftStep
<1>2. \A i : Uses(m, A, i, v) <=> Uses(l, A, i, v)
  BY <1>1 DEF Uses
<1> QED BY <1>1, <1>2 DEF UsersOK, ShareOK

LEMMA VolsWritten ==
  ASSUME NEW l, NEW m, LeftStep(l, m), NEW W, NEW X, NEW E, NEW F, NEW A, NEW V,
         VolPart(l, W, E, A, V), VolWrites(l, W, X, E, F)
  PROVE  VolPart(m, X, F, A, V)
<1> SUFFICES ASSUME NEW v \in DOMAIN Volumes PROVE VolOK(m, X, F, A, V, v)
  BY DEF VolPart
<1>1. VolOK(l, W, E, A, V, v)
  BY DEF VolPart
<1>2. m.new \subseteq l.new
  BY DEF LeftStep
<1>3. KnownOK(l, W, v) => KnownOK(m, X, v)
  BY <1>2 DEF KnownOK, VolWrites
<1>4. /\ v \in DOMAIN V => UsersOK(m, A, V, v) /\ KnownOK(m, X, v)
      /\ ShareOK(m, A, v)
  BY <1>1, <1>3, LeftUses DEF VolOK
<1>5. \A i : Uses(m, A, i, v) => KnownOK(m, X, v)
  BY <1>1, <1>3, LeftUses DEF VolOK
<1>6. ASSUME NEW e \in F, InfoEvent(e, v) PROVE KnownOK(m, X, v)
  <2>1. CASE e \in E
    BY <1>1, <1>3, <1>6, <2>1 DEF VolOK
  <2>2. CASE e \notin E
    <3>1. v \in DOMAIN X /\ X[v].info
      BY <1>6, <2>2 DEF VolWrites, InfoEvent
    <3> QED BY <1>2, <3>1 DEF VolWrites, KnownOK
  <2> QED BY <2>1, <2>2
<1>7. ASSUME v \notin DOMAIN V PROVE UnusedOK(m, X, F, A, v)
  <2> SUFFICES ASSUME NEW i, Uses(m, A, i, v)
               PROVE  v \notin DOMAIN X /\ \A e \in F : e.type = "volume" => e.obj.id # v
    BY DEF UnusedOK
  <2>1. Uses(l, A, i, v)
    BY LeftUses
  <2>2. v \notin DOMAIN W /\ v \notin l.new /\ \A e \in E : e.type = "volume" => e.obj.id # v
    BY <1>1, <1>7, <2>1 DEF VolOK, UnusedOK, KnownOK
  <2> QED BY <2>2 DEF VolWrites
<1>8. ASSUME v \notin DOMAIN V, v \in DOMAIN X, X[v].info PROVE \E e \in F : InfoEvent(e, v)
  BY <1>1, <1>8 DEF VolOK, VolWrites
<1> QED BY <1>4, <1>5, <1>6, <1>7, <1>8 DEF VolOK

(* Other events are handled.                                                *)
LEMMA VolsPassed ==
  ASSUME NEW l, NEW T, NEW D, NEW W, NEW E, NEW A, NEW V, VolPart(l, W, E, A, V),
         NEW e, NEW F, First(l, T, D, E, e, F), e.type # "volume"
  PROVE  VolPart(l, W, F, A, V)
<1> SUFFICES ASSUME NEW v \in DOMAIN Volumes PROVE VolOK(l, W, F, A, V, v)
  BY DEF VolPart
<1>1. VolOK(l, W, E, A, V, v)
  BY DEF VolPart
<1>2. F \subseteq E /\ \A d \in E : d.type = "volume" => d \in F
  BY DEF First
<1>3. UnusedOK(l, W, E, A, v) => UnusedOK(l, W, F, A, v)
  BY <1>2 DEF UnusedOK
<1>4. (\E d \in E : InfoEvent(d, v)) => \E d \in F : InfoEvent(d, v)
  BY <1>2 DEF InfoEvent
<1> QED BY <1>1, <1>2, <1>3, <1>4 DEF VolOK

(* What addOrUpdateVolume makes of the volumes V.                           *)
VolPut(V, v, vol) ==
  IF v \in DOMAIN V \/ ~vol.info THEN V
  ELSE Put(V, v, [active |-> vol.avail = "active", users |-> Empty])

LEMMA VolsSeen ==
  ASSUME NEW l, NEW T, NEW D, NEW W, NEW E, NEW A, NEW V, VolPart(l, W, E, A, V),
         NEW e, NEW F, First(l, T, D, E, e, F), e.type = "volume"
  PROVE  VolPart(l, W, F, A, VolPut(V, e.obj.id, e.obj.vol))
<1> SUFFICES ASSUME NEW v \in DOMAIN Volumes
             PROVE  VolOK(l, W, F, A, VolPut(V, e.obj.id, e.obj.vol), v)
  BY DEF VolPart
<1>1. VolOK(l, W, E, A, V, v)
  BY DEF VolPart
<1>2. F \subseteq E /\ e \in E /\ \A d \in E : d = e \/ d \in F
  BY DEF First
<1>3. UnusedOK(l, W, E, A, v) => UnusedOK(l, W, F, A, v)
  BY <1>2 DEF UnusedOK
<1>4. PICK w, vol, X : w = e.obj.id /\ vol = e.obj.vol /\ X = VolPut(V, w, vol)
  OBVIOUS
<1>5. CASE w \in DOMAIN V \/ ~vol.info
  <2>1. X = V
    BY <1>4, <1>5 DEF VolPut
  <2>2. v \notin DOMAIN V /\ (\E d \in E : InfoEvent(d, v)) => \E d \in F : InfoEvent(d, v)
    BY <1>2, <1>4, <1>5 DEF InfoEvent
  <2>3. VolOK(l, W, F, A, V, v)
    BY <1>1, <1>2, <1>3, <2>2 DEF VolOK
  <2> QED BY <1>4, <2>1, <2>3
<1>6. CASE w \notin DOMAIN V /\ vol.info
  <2>1. /\ DOMAIN X = DOMAIN V \cup {w} /\ \A x \in DOMAIN V : X[x] = V[x]
        /\ "users" \in DOMAIN X[w] /\ DOMAIN X[w].users = {}
    BY <1>4, <1>6 DEF VolPut, Put, Empty
  <2>2. InfoEvent(e, w)
    BY <1>4, <1>6 DEF InfoEvent
  <2>3. v # w /\ (\E d \in E : InfoEvent(d, v)) => \E d \in F : InfoEvent(d, v)
    BY <1>2, <1>4 DEF InfoEvent
  <2>4. CASE v # w
    <3>1. v \in DOMAIN X <=> v \in DOMAIN V
      BY <2>1, <2>4
    <3>2. v \in DOMAIN V => (UsersOK(l, A, V, v) => UsersOK(l, A, X, v))
      BY <2>1 DEF UsersOK
    <3>3. VolOK(l, W, F, A, X, v)
      BY <1>1, <1>2, <1>3, <2>3, <2>4, <3>1, <3>2 DEF VolOK
    <3> QED BY <1>4, <3>3
  <2>5. CASE v = w
    <3>1. \A i : ~Uses(l, A, i, v)
      BY <1>1, <1>2, <1>4, <1>6, <2>5 DEF VolOK, UnusedOK
    <3>2. UsersOK(l, A, X, v)
      <4>1. \A i : i \notin DOMAIN X[v].users
        BY <2>1, <2>5
      <4> QED BY <2>1, <2>5, <3>1, <4>1 DEF UsersOK
    <3>3. KnownOK(l, W, v) /\ v \in DOMAIN X
      BY <1>1, <1>2, <2>1, <2>2, <2>5 DEF VolOK
    <3>4. VolOK(l, W, F, A, X, v)
      BY <1>1, <3>2, <3>3 DEF VolOK
    <3> QED BY <1>4, <3>4
  <2> QED BY <2>4, <2>5
<1> QED BY <1>5, <1>6

(* The same tasks use the volumes.                                          *)
LEMMA VolsSame ==
  ASSUME NEW l, NEW W, NEW E, NEW A, NEW V, VolPart(l, W, E, A, V), NEW B,
         \A i, v : Uses(l, B, i, v) <=> Uses(l, A, i, v),
         \A i, v : Uses(l, A, i, v) => B[i].node = A[i].node
  PROVE  VolPart(l, W, E, B, V)
<1> SUFFICES ASSUME NEW v \in DOMAIN Volumes PROVE VolOK(l, W, E, B, V, v)
  BY DEF VolPart
<1>1. VolOK(l, W, E, A, V, v)
  BY DEF VolPart
<1>2. UsersOK(l, A, V, v) => UsersOK(l, B, V, v)
  BY DEF UsersOK
<1>3. ShareOK(l, A, v) => ShareOK(l, B, v)
  BY DEF ShareOK
<1>4. UnusedOK(l, W, E, A, v) => UnusedOK(l, W, E, B, v)
  BY DEF UnusedOK
<1> QED BY <1>1, <1>2, <1>3, <1>4 DEF VolOK

(* Tasks stop using them.                                                   *)
LEMMA VolsLost ==
  ASSUME NEW l, NEW W, NEW E, NEW A, AllOK(l, A), NEW V, VolPart(l, W, E, A, V),
         NEW B, AllOK(l, B), NEW T, Lost(A, B, {t.id : t \in T}),
         \A t \in T : LiveIn(A, t.id) => t.vol = A[t.id].vol
  PROVE  VolPart(l, W, E, B, releaseVolumes(V, T))
<1> SUFFICES ASSUME NEW v \in DOMAIN Volumes
             PROVE  VolOK(l, W, E, B, releaseVolumes(V, T), v)
  BY DEF VolPart
<1>1. VolOK(l, W, E, A, V, v)
  BY DEF VolPart
<1>2. PICK X, S : X = releaseVolumes(V, T) /\ S = {t.id : t \in {t \in T : t.vol = v}}
  OBVIOUS
<1>3. DOMAIN X = DOMAIN V
  BY <1>2 DEF releaseVolumes
<1>4. \A i : LiveIn(A, i) => i \in Tasks
  BY DEF AllOK, TaskOK, IsTask, LiveIn
<1>5. \A i : LiveIn(B, i) => i \in Tasks
  BY DEF AllOK, TaskOK, IsTask, LiveIn
<1>6. ASSUME NEW i PROVE Uses(l, B, i, v) <=> Uses(l, A, i, v) /\ i \notin {t.id : t \in T}
  BY <1>4, <1>5 DEF Uses, Lost
<1>7. ASSUME NEW i, Uses(l, A, i, v) PROVE i \in S <=> i \in {t.id : t \in T}
  <2>1. \A t \in T : t.id = i => t.vol = v
    BY <1>7 DEF Uses
  <2> QED BY <1>2, <2>1
<1>8. ASSUME NEW i, Uses(l, B, i, v) PROVE B[i].node = A[i].node
  BY <1>5, <1>8 DEF Lost, Uses
<1>9. ASSUME v \in DOMAIN V PROVE UsersOK(l, B, X, v)
  <2>1. UsersOK(l, A, V, v)
    BY <1>1, <1>9 DEF VolOK
  <2>2. PICK f : f = V[v].users
    OBVIOUS
  <2>3. X[v].users = Restrict(f, DOMAIN f \ S)
    <3>1. X[v] = [V[v] EXCEPT !.users = Restrict(@, DOMAIN @ \ S)]
      BY <1>2, <1>9 DEF releaseVolumes
    <3> QED BY <2>1, <2>2, <3>1 DEF UsersOK
  <2>4. DOMAIN X[v].users = DOMAIN f \ S /\ \A i \in DOMAIN f \ S : X[v].users[i] = f[i]
    BY <2>3 DEF Restrict
  <2>5. "users" \in DOMAIN X[v]
    BY <1>2, <1>9, <2>1 DEF UsersOK, releaseVolumes
  <2>6. ASSUME NEW i
        PROVE  /\ Uses(l, B, i, v) <=> i \in DOMAIN X[v].users /\ l.pre[i] = None
               /\ Uses(l, B, i, v) => X[v].users[i] = B[i].node
    BY <1>6, <1>7, <1>8, <2>1, <2>2, <2>4 DEF UsersOK
  <2> QED BY <2>5, <2>6 DEF UsersOK
<1>10. ShareOK(l, B, v)
  BY <1>1, <1>6, <1>8 DEF VolOK, ShareOK
<1>11. UnusedOK(l, W, E, A, v) => UnusedOK(l, W, E, B, v)
  BY <1>6 DEF UnusedOK
<1>12. VolOK(l, W, E, B, X, v)
  BY <1>1, <1>3, <1>6, <1>9, <1>10, <1>11 DEF VolOK
<1> QED BY <1>2, <1>12

LEMMA UsesPut ==
  ASSUME NEW l, NEW A, NEW t, ~LiveIn(A, t.id), Live(t), NEW B, B = Put(A, t.id, t), NEW v, NEW i
  PROVE  /\ Uses(l, B, i, v) <=> \/ Uses(l, A, i, v)
                                 \/ i = t.id /\ t.vol = v /\ l.pre[i] = None
         /\ Uses(l, A, i, v) => i # t.id /\ B[i].node = A[i].node
         /\ B[t.id].node = t.node
<1>1. /\ DOMAIN B = DOMAIN A \cup {t.id} /\ B[t.id] = t
      /\ \A j \in DOMAIN A : j # t.id => B[j] = A[j]
  BY DEF Put
<1> QED BY <1>1 DEF Uses, LiveIn

(* A task that was preassigned is assigned.                                 *)
LEMMA VolsPre ==
  ASSUME NEW l, NEW W, NEW E, NEW A, NEW V, VolPart(l, W, E, A, V),
         NEW t, ~LiveIn(A, t.id), Live(t), l.pre[t.id] # None
  PROVE  VolPart(l, W, E, Put(A, t.id, t), V)
<1>1. PICK B : B = Put(A, t.id, t)
  OBVIOUS
<1>2. \A i, v : Uses(l, B, i, v) <=> Uses(l, A, i, v)
  BY <1>1, UsesPut
<1>3. \A i, v : Uses(l, A, i, v) => B[i].node = A[i].node
  BY <1>1, UsesPut
<1>4. VolPart(l, W, E, B, V)
  BY <1>2, <1>3, VolsSame
<1> QED BY <1>1, <1>4

(* A task is placed.                                                        *)
LEMMA VolsClaimed ==
  ASSUME NEW l, NEW W, NEW E, NEW A, NEW V, VolPart(l, W, E, A, V),
         NEW t, ~LiveIn(A, t.id), Live(t), l.pre[t.id] = None, t.vol = Asked(t).volume,
         NEW u, u.svc = t.svc, NEW ni, ni.node.id = t.node, Process(ni, V, u)
  PROVE  VolPart(l, W, E, Put(A, t.id, t), reserveVolume(V, t))
<1> SUFFICES ASSUME NEW v \in DOMAIN Volumes
             PROVE  VolOK(l, W, E, Put(A, t.id, t), reserveVolume(V, t), v)
  BY DEF VolPart
<1>1. VolOK(l, W, E, A, V, v)
  BY DEF VolPart
<1>2. PICK B, X, w : B = Put(A, t.id, t) /\ X = reserveVolume(V, t) /\ w = t.vol
  OBVIOUS
<1>3. \A i : /\ Uses(l, B, i, v) <=> Uses(l, A, i, v) \/ (i = t.id /\ w = v)
             /\ Uses(l, A, i, v) => i # t.id /\ B[i].node = A[i].node
             /\ B[t.id].node = t.node
  BY <1>2, UsesPut, SMTT(20)
<1>4. v # None
  BY NodeInfoAssumption
<1>5. w # None => checkVolume(V, w, t.node)
  <2>1. Check("volumes", ni, V, u)
    BY DEF Process, Filters
  <2> QED BY <1>2, <2>1 DEF Check, VolumesFilter, Asked
<1>6. CASE v # w
  <2>1. (v \in DOMAIN X <=> v \in DOMAIN V) /\ (v \in DOMAIN V => X[v] = V[v])
    BY <1>2, <1>6 DEF reserveVolume
  <2>2. v \in DOMAIN V => (UsersOK(l, A, V, v) => UsersOK(l, B, X, v))
    BY <1>3, <1>6, <2>1 DEF UsersOK
  <2>3. ShareOK(l, A, v) => ShareOK(l, B, v)
    BY <1>3, <1>6 DEF ShareOK
  <2>4. UnusedOK(l, W, E, A, v) => UnusedOK(l, W, E, B, v)
    BY <1>3, <1>6 DEF UnusedOK
  <2>5. VolOK(l, W, E, B, X, v)
    BY <1>1, <1>3, <1>6, <2>1, <2>2, <2>3, <2>4 DEF VolOK
  <2> QED BY <1>2, <2>5
<1>7. CASE v = w
  <2>1. v \in DOMAIN V /\ checkVolume(V, v, t.node)
    BY <1>4, <1>5, <1>7 DEF checkVolume
  <2>2. UsersOK(l, A, V, v) /\ KnownOK(l, W, v)
    BY <1>1, <2>1 DEF VolOK
  <2>3. PICK f : f = V[v].users
    OBVIOUS
  <2>4. v \in DOMAIN X /\ X[v] = [V[v] EXCEPT !.users = Put(f, t.id, t.node)]
    BY <1>2, <1>4, <1>7, <2>1, <2>3 DEF reserveVolume, hasVolume
  <2>5. "users" \in DOMAIN X[v] /\ X[v].users = Put(f, t.id, t.node)
    BY <2>2, <2>4 DEF UsersOK
  <2>6. /\ DOMAIN X[v].users = DOMAIN f \cup {t.id} /\ X[v].users[t.id] = t.node
        /\ \A i \in DOMAIN f : i # t.id => X[v].users[i] = f[i]
    BY <2>5 DEF Put
  <2>7. ASSUME NEW i
        PROVE  /\ Uses(l, B, i, v) <=> i \in DOMAIN X[v].users /\ l.pre[i] = None
               /\ Uses(l, B, i, v) => X[v].users[i] = B[i].node
    BY <1>3, <1>7, <2>2, <2>3, <2>6 DEF UsersOK
  <2>8. UsersOK(l, B, X, v)
    BY <2>5, <2>7 DEF UsersOK
  <2>9. ShareOK(l, B, v)
    <3>1. ASSUME NEW i, Uses(l, A, i, v)
          PROVE  Volumes[v] # "none" /\ (Volumes[v] = "node" => A[i].node = t.node)
      <4>1. i \in DOMAIN f /\ f[i] = A[i].node
        BY <2>2, <2>3, <3>1 DEF UsersOK
      <4>2. f # Empty /\ f[i] \in Range(f)
        BY <4>1 DEF Empty, Range
      <4> QED BY <2>1, <2>3, <4>1, <4>2 DEF checkVolume
    <3> QED BY <1>1, <1>3, <3>1 DEF VolOK, ShareOK
  <2>10. VolOK(l, W, E, B, X, v)
    BY <1>1, <2>2, <2>4, <2>8, <2>9 DEF VolOK
  <2> QED BY <1>2, <2>10
<1> QED BY <1>6, <1>7

(* The volumes of a new leader.                                             *)
VolsOf(W, B) ==
  [v \in {v \in DOMAIN W : W[v].info} |->
     [active |-> W[v].avail = "active",
      users |-> [i \in {i \in DOMAIN B : Live(B[i]) /\ B[i].vol = v} |-> B[i].node]]]

LEMMA VolsFresh ==
  ASSUME NEW l, NEW W, NEW B, \A v \in l.new : v \notin DOMAIN W,
         \A v \in DOMAIN Volumes : /\ \A i : Uses(l, B, i, v) => KnownOK(l, W, v)
                                   /\ ShareOK(l, B, v)
  PROVE  VolPart(l, W, {}, B, VolsOf(W, B))
<1> SUFFICES ASSUME NEW v \in DOMAIN Volumes PROVE VolOK(l, W, {}, B, VolsOf(W, B), v)
  BY DEF VolPart
<1>1. PICK X : X = VolsOf(W, B)
  OBVIOUS
<1>2. v \in DOMAIN X <=> v \in DOMAIN W /\ W[v].info
  BY <1>1 DEF VolsOf
<1>3. ASSUME v \in DOMAIN X PROVE UsersOK(l, B, X, v)
  <2>1. /\ "users" \in DOMAIN X[v]
        /\ X[v].users = [i \in {i \in DOMAIN B : Live(B[i]) /\ B[i].vol = v} |-> B[i].node]
    BY <1>1, <1>3 DEF VolsOf
  <2> QED BY <2>1 DEF UsersOK, Uses, LiveIn
<1>4. v \in DOMAIN X => KnownOK(l, W, v)
  BY <1>2 DEF KnownOK
<1>5. v \notin DOMAIN X => UnusedOK(l, W, {}, B, v)
  BY <1>2 DEF UnusedOK, KnownOK
<1>6. VolOK(l, W, {}, B, X, v)
  BY <1>2, <1>3, <1>4, <1>5 DEF VolOK
<1> QED BY <1>1, <1>6

LEMMA VolsAnew ==
  ASSUME NEW l, NEW T, NEW W, NEW E, NEW p, NEW r, TaskPart(l, T, E, p, r),
         VolPart(l, W, E, p.all, p.vols), \A v \in l.new : v \notin DOMAIN W,
         NEW B, \A i : LiveIn(B, i) => LiveIn(T, i) /\ B[i] = T[i]
  PROVE  VolPart(l, W, {}, B, VolsOf(W, B))
<1>1. ASSUME NEW i, LiveIn(B, i)
      PROVE  LiveIn(p.all, i) /\ B[i].node = p.all[i].node /\ B[i].vol = p.all[i].vol
  <2>1. LiveIn(T, i) /\ B[i] = T[i]
    BY <1>1
  <2>2. Held(p, r, i)
    BY <2>1 DEF TaskPart
  <2>3. LiveIn(p.all, i) /\ HeldOK(T, E, p, r, i)
    BY <2>2 DEF TaskPart, Held
  <2>4. Follows(p.all[i], T[i])
    BY <2>1, <2>3 DEF HeldOK, LiveIn
  <2> QED BY <2>1, <2>3, <2>4 DEF Follows
<1>2. ASSUME NEW v, NEW i, Uses(l, B, i, v)
      PROVE  Uses(l, p.all, i, v) /\ B[i].node = p.all[i].node
  BY <1>1, <1>2 DEF Uses
<1>3. ASSUME NEW v \in DOMAIN Volumes
      PROVE  (\A i : Uses(l, B, i, v) => KnownOK(l, W, v)) /\ ShareOK(l, B, v)
  <2>1. VolOK(l, W, E, p.all, p.vols, v)
    BY DEF VolPart
  <2>2. \A i : Uses(l, B, i, v) => KnownOK(l, W, v)
    BY <1>2, <2>1 DEF VolOK
  <2>3. ShareOK(l, B, v)
    BY <1>2, <2>1 DEF VolOK, ShareOK
  <2> QED BY <2>2, <2>3
<1> QED BY <1>3, VolsFresh

-----------------------------------------------------------------------------
(* The picture as a whole                                                   *)

LeftOK(l) == {"of", "pre", "room", "new", "prompt", "stale"} \subseteq DOMAIN l /\ RoomOK(l)

Pic(l, d, q, p, r) ==
  /\ Kinds(l, d.tasks, p, r) /\ QueueInv(l, d.tasks, d.nodes, q)
  /\ TaskPart(l, d.tasks, Range(q), p, r)
  /\ NodePart(l, d.nodes, Range(q), p.all, p.nodes)
  /\ VolPart(l, d.vols, Range(q), p.all, p.vols)

LEMMA LeftFrames ==
  ASSUME NEW l, LeftOK(l), NEW m
  PROVE  /\ m = l => LeftOK(m) /\ LeftStep(l, m)
         /\ \A k, x : k \notin {"of", "pre", "room", "new", "prompt", "stale"}
                    /\ m = [l EXCEPT ![k] = x] =>
              LeftOK(m) /\ LeftStep(l, m)
         /\ \A x : m = [l EXCEPT !.stale = x] /\ (l.stale => x) => LeftOK(m) /\ LeftStep(l, m)
<1>1. m = l => LeftOK(m) /\ LeftStep(l, m)
  BY DEF LeftStep
<1>2. ASSUME NEW k, NEW x, k \notin {"of", "pre", "room", "new", "prompt", "stale"},
             m = [l EXCEPT ![k] = x]
      PROVE  LeftOK(m) /\ LeftStep(l, m)
  <2>1. DOMAIN m = DOMAIN l /\ m.of = l.of /\ m.pre = l.pre /\ m.room = l.room /\ m.new = l.new
        /\ m.prompt = l.prompt /\ m.stale = l.stale
    BY <1>2 DEF LeftOK
  <2> QED BY <2>1 DEF LeftStep, LeftOK, RoomOK
<1>3. ASSUME NEW x, m = [l EXCEPT !.stale = x], l.stale => x
      PROVE  LeftOK(m) /\ LeftStep(l, m)
  <2>1. DOMAIN m = DOMAIN l /\ m.of = l.of /\ m.pre = l.pre /\ m.room = l.room /\ m.new = l.new
        /\ m.prompt = l.prompt /\ m.stale = x
    BY <1>3 DEF LeftOK
  <2> QED BY <1>3, <2>1 DEF LeftStep, LeftOK, RoomOK
<1> QED BY <1>1, <1>2, <1>3

LEMMA SpendLeft ==
  ASSUME LeftOK(left), NEW k, k \notin {"of", "pre", "room", "new", "prompt", "stale"}, Spend(k)
  PROVE  LeftOK(left') /\ LeftStep(left, left')
<1>1. PICK m : m = left'
  OBVIOUS
<1>2. m = [left EXCEPT ![k] = left[k] - 1]
  BY <1>1 DEF Spend
<1>3. LeftOK(m) /\ LeftStep(left, m)
  BY <1>2, LeftFrames
<1> QED BY <1>1, <1>3

LEMMA SameLeft ==
  ASSUME LeftOK(left), UNCHANGED left
  PROVE  LeftOK(left') /\ LeftStep(left, left')
BY DEF LeftStep

LEMMA KindsLeft ==
  ASSUME NEW l, NEW m, LeftStep(l, m), NEW T, NEW p, NEW r, Kinds(l, T, p, r)
  PROVE  Kinds(m, T, p, r)
BY LeftTask DEF Kinds, AllOK

LEMMA VolsOther ==
  ASSUME NEW l, NEW m, LeftStep(l, m), NEW W, NEW E, NEW F, NEW A, NEW V,
         VolPart(l, W, E, A, V), E \subseteq F, \A e \in F : e.type = "volume" => e \in E
  PROVE  VolPart(m, W, F, A, V)
<1> SUFFICES ASSUME NEW v \in DOMAIN Volumes PROVE VolOK(m, W, F, A, V, v)
  BY DEF VolPart
<1>1. VolOK(l, W, E, A, V, v)
  BY DEF VolPart
<1>2. KnownOK(l, W, v) => KnownOK(m, W, v)
  BY DEF KnownOK, LeftStep
<1>3. UnusedOK(l, W, E, A, v) => UnusedOK(m, W, F, A, v)
  BY LeftUses DEF UnusedOK
<1>4. \A e \in F : InfoEvent(e, v) => e \in E
  BY DEF InfoEvent
<1> QED BY <1>1, <1>2, <1>3, <1>4, LeftUses DEF VolOK

(* Nothing the scheduler sees is written.                                   *)
LEMMA PicSame ==
  ASSUME NEW l, NEW m, LeftStep(l, m), NEW d, NEW q, NEW p, NEW r, Pic(l, d, q, p, r),
         NEW e, e.tasks = d.tasks, e.nodes = d.nodes, e.vols = d.vols
  PROVE  Pic(m, e, q, p, r)
<1>1. Kinds(m, d.tasks, p, r) /\ QueueInv(m, d.tasks, d.nodes, q)
  BY KindsLeft, QueueLeft DEF Pic
<1>2. m.pre = l.pre
  BY DEF LeftStep
<1>3. TaskPart(m, d.tasks, Range(q), p, r)
  BY <1>2, TasksOther DEF Pic
<1>4. NodePart(m, d.nodes, Range(q), p.all, p.nodes)
  BY NodesOther DEF Pic
<1>5. VolPart(m, d.vols, Range(q), p.all, p.vols)
  BY VolsOther DEF Pic
<1> QED BY <1>1, <1>3, <1>4, <1>5 DEF Pic

(* Tasks are written.                                                       *)
LEMMA PicTasks ==
  ASSUME NEW l, NEW m, LeftStep(l, m), NEW d, NEW q, NEW p, NEW r, Pic(l, d, q, p, r),
         PictureOK(d.tasks, l.pre, p), RunOK(d.tasks, l.pre, p, r),
         NEW e, e.nodes = d.nodes, e.vols = d.vols, AllOK(l, e.tasks),
         NEW x, TasksTold(d.tasks, e.tasks, x),
         \A a \in DOMAIN x :
           ~x[a].own /\ (x[a].type = "task" => Moved(d.tasks[x[a].obj.id], x[a].obj))
  PROVE  Pic(m, e, q \o x, p, r)
<1>1. PICK w, F, T, U : w = q \o x /\ F = Range(w) /\ T = d.tasks /\ U = e.tasks
  OBVIOUS
<1>2. IsSeq(q) /\ IsSeq(x)
  BY DEF Pic, QueueInv, TasksTold
<1>3. F = Range(q) \cup Range(x)
  BY <1>1, <1>2, CatRange
<1>4. \A y \in Range(x) : ofTask(y)
  BY DEF Range, TasksTold
<1>5. AllOK(l, T) /\ AllOK(l, U) /\ Kinds(l, U, p, r)
  BY <1>1 DEF Pic, Kinds
<1>6. QueueInv(l, U, d.nodes, w)
  BY <1>1, <1>5, QueueTasks DEF Pic
<1>7. TaskPart(l, U, F, p, r)
  BY <1>1, <1>3, TasksMoved DEF Pic
<1>8. LeftStep(l, l)
  BY DEF LeftStep
<1>9. NodePart(l, d.nodes, F, p.all, p.nodes)
  <2>1. \A y \in F : y \in Range(q) \/ ~ofNode(y)
    BY <1>3, <1>4 DEF ofTask, ofNode
  <2> QED BY <1>3, <1>8, <2>1, NodesOther DEF Pic
<1>10. VolPart(l, d.vols, F, p.all, p.vols)
  <2>1. \A y \in F : y.type = "volume" => y \in Range(q)
    BY <1>3, <1>4 DEF ofTask
  <2> QED BY <1>3, <1>8, <2>1, VolsOther DEF Pic
<1>11. Pic(l, e, w, p, r)
  BY <1>1, <1>5, <1>6, <1>7, <1>9, <1>10 DEF Pic
<1> QED BY <1>1, <1>11, PicSame

(* A node is written.                                                       *)
LEMMA PicNode ==
  ASSUME NEW l, NEW m, LeftStep(l, m), NEW d, NEW q, NEW p, NEW r, Pic(l, d, q, p, r),
         NEW node, NodeOK(m, node.id, node), node.id \in DOMAIN d.nodes \/ node.id \notin DOMAIN l.room,
         NEW e, e.tasks = d.tasks, e.vols = d.vols, e.nodes = Put(d.nodes, node.id, node)
  PROVE  Pic(m, e, Append(q, Event("node", node)), p, r)
<1>1. PICK x, n, w, F, D, T :
        /\ x = Event("node", node) /\ n = node.id /\ w = Append(q, x) /\ F = Range(w)
        /\ D = e.nodes /\ T = d.tasks
  OBVIOUS
<1>2. x.type = "node" /\ x.obj = node /\ ofNode(x) /\ NodeOf(x) = n
  BY <1>1 DEF Event, ofNode, NodeOf
<1>3. IsSeq(q) /\ Pic(m, d, q, p, r)
  BY PicSame DEF Pic, QueueInv
<1>4. F = Range(q) \cup {x} /\ w = q \o <<x>> /\ IsSeq(<<x>>)
  <2>1. w = q \o <<x>> /\ IsSeq(<<x>>) /\ DOMAIN <<x>> = {1} /\ <<x>>[1] = x
    BY <1>1, <1>3, One
  <2>2. Range(<<x>>) = {x}
    BY <2>1 DEF Range
  <2>3. PICK y : y = <<x>>
    OBVIOUS
  <2>4. w = q \o y /\ IsSeq(y) /\ Range(y) = {x}
    BY <1>1, <2>1, <2>2, <2>3
  <2>5. Range(w) = Range(q) \cup Range(y)
    BY <1>3, <2>4, CatRange
  <2> QED BY <1>1, <2>1, <2>4, <2>5
<1>5. DOMAIN D = DOMAIN d.nodes \cup {n} /\ D[n] = node /\ \A k \in DOMAIN d.nodes : k # n => D[k] = d.nodes[k]
  BY <1>1 DEF Put
<1>6. QueueInv(m, T, D, w)
  <2>1. EventFine(m, T, D, x) /\ CurrentNode(D, x)
    BY <1>1, <1>2, <1>5 DEF EventFine, EventTypes, ofTask, CurrentNode
  <2>2. ASSUME NEW a \in DOMAIN q, q[a].type = "nodegone" PROVE q[a].obj # n
    <3>1. EventFine(l, T, d.nodes, q[a])
      BY <1>1 DEF Pic, QueueInv
    <3> QED BY <1>1, <2>2, <3>1 DEF EventFine
  <2>3. QueueInv(m, T, d.nodes, q)
    BY <1>1, <1>3 DEF Pic
  <2>4. \A k : k # NodeOf(x) => /\ k \in DOMAIN D <=> k \in DOMAIN d.nodes
                                /\ k \in DOMAIN D => D[k] = d.nodes[k]
    BY <1>2, <1>5
  <2>5. \A a \in DOMAIN q : q[a].type = "nodegone" => q[a].obj # NodeOf(x)
    BY <1>2, <2>2
  <2> QED BY <1>1, <1>2, <2>1, <2>3, <2>4, <2>5, QueueNode, ZenonT(40)
<1>7. TaskPart(m, T, F, p, r)
  <2>1. TaskPart(m, T, Range(q), p, r)
    BY <1>1, <1>3 DEF Pic
  <2>2. ~ofTask(x)
    BY <1>2 DEF ofTask
  <2> QED BY <1>4, <2>1, <2>2, TasksOther
<1>8. VolPart(m, d.vols, F, p.all, p.vols)
  <2>1. VolPart(l, d.vols, Range(q), p.all, p.vols)
    BY DEF Pic
  <2> QED BY <1>2, <1>4, <2>1, VolsOther
<1>9. NodePart(m, D, F, p.all, p.nodes)
  <2>1. NodePart(l, d.nodes, Range(q), p.all, p.nodes)
    BY DEF Pic
  <2>2. \A y \in Range(q) : EventFine(l, T, d.nodes, y)
    BY <1>1 DEF Pic, QueueInv, Range
  <2>3. PICK C, E : C = d.nodes /\ E = Range(q)
    OBVIOUS
  <2>4. /\ NodePart(l, C, E, p.all, p.nodes) /\ \A y \in E : EventFine(l, T, C, y)
        /\ NodeOK(m, n, node) /\ (n \in DOMAIN C \/ n \notin DOMAIN l.room)
        /\ F = E \cup {x} /\ D = Put(C, n, node)
    BY <1>1, <1>4, <2>1, <2>2, <2>3
  <2>5. NodePart(m, Put(C, n, node), F, p.all, p.nodes)
    BY <1>2, <2>4, NodesSet
  <2> QED BY <2>4, <2>5
<1>10. Kinds(m, T, p, r)
  BY <1>1, <1>3 DEF Pic
<1>11. Pic(m, e, w, p, r)
  BY <1>1, <1>6, <1>7, <1>8, <1>9, <1>10 DEF Pic
<1> QED BY <1>1, <1>11

(* A node is deleted.                                                       *)
LEMMA PicNodeGone ==
  ASSUME NEW l, NEW d, NEW q, NEW p, NEW r, Pic(l, d, q, p, r), NEW n, n \in DOMAIN d.nodes,
         NEW e, e.tasks = d.tasks, e.vols = d.vols, e.nodes = Drop(d.nodes, n)
  PROVE  Pic(l, e, q \o <<Event("nodegone", n)>>, p, r)
<1>1. PICK x, w, F, D, T :
        /\ x = Event("nodegone", n) /\ w = q \o <<x>> /\ F = Range(w)
        /\ D = e.nodes /\ T = d.tasks
  OBVIOUS
<1>2. x.type = "nodegone" /\ x.obj = n /\ ofNode(x) /\ NodeOf(x) = n
  BY <1>1 DEF Event, ofNode, NodeOf
<1>3. IsSeq(q) /\ LeftStep(l, l)
  BY DEF Pic, QueueInv, LeftStep
<1>4. F = Range(q) \cup {x} /\ w = Append(q, x) /\ IsSeq(<<x>>)
  <2>1. w = Append(q, x) /\ IsSeq(<<x>>) /\ DOMAIN <<x>> = {1} /\ <<x>>[1] = x
    BY <1>1, <1>3, One
  <2>2. Range(<<x>>) = {x}
    BY <2>1 DEF Range
  <2>3. PICK y : y = <<x>>
    OBVIOUS
  <2>4. w = q \o y /\ IsSeq(y) /\ Range(y) = {x}
    BY <1>1, <2>1, <2>2, <2>3
  <2>5. Range(w) = Range(q) \cup Range(y)
    BY <1>3, <2>4, CatRange
  <2> QED BY <1>1, <2>1, <2>4, <2>5
<1>5. DOMAIN D = DOMAIN d.nodes \ {n} /\ \A k \in DOMAIN D : D[k] = d.nodes[k]
  BY <1>1 DEF Drop, Restrict
<1>6. QueueInv(l, T, D, w)
  <2>1. n \in DOMAIN l.room
    BY DEF Pic, NodePart, NodeOK
  <2>2. EventFine(l, T, D, x) /\ CurrentNode(D, x)
    BY <1>1, <1>2, <1>5, <2>1 DEF EventFine, EventTypes, ofTask, CurrentNode
  <2>3. ASSUME NEW a \in DOMAIN q, q[a].type = "nodegone" PROVE q[a].obj # n
    <3>1. EventFine(l, T, d.nodes, q[a])
      BY <1>1 DEF Pic, QueueInv
    <3> QED BY <1>1, <2>3, <3>1 DEF EventFine
  <2>4. QueueInv(l, T, d.nodes, q)
    BY <1>1 DEF Pic
  <2> QED BY <1>2, <1>4, <1>5, <2>2, <2>3, <2>4, QueueNode
<1>7. TaskPart(l, T, F, p, r)
  <2>1. TaskPart(l, T, Range(q), p, r)
    BY <1>1 DEF Pic
  <2>2. ~ofTask(x)
    BY <1>2 DEF ofTask
  <2> QED BY <1>4, <2>1, <2>2, TasksOther
<1>8. VolPart(l, d.vols, F, p.all, p.vols)
  <2>1. VolPart(l, d.vols, Range(q), p.all, p.vols)
    BY DEF Pic
  <2> QED BY <1>2, <1>3, <1>4, <2>1, VolsOther
<1>9. NodePart(l, D, F, p.all, p.nodes)
  <2>1. NodePart(l, d.nodes, Range(q), p.all, p.nodes)
    BY DEF Pic
  <2>2. PICK C, E : C = d.nodes /\ E = Range(q)
    OBVIOUS
  <2>3. NodePart(l, C, E, p.all, p.nodes) /\ F = E \cup {x} /\ D = Drop(C, n)
    BY <1>1, <1>4, <2>1, <2>2
  <2>4. NodePart(l, Drop(C, n), F, p.all, p.nodes)
    BY <1>2, <1>3, <2>3, NodesGone
  <2> QED BY <2>3, <2>4
<1>10. Kinds(l, T, p, r)
  BY <1>1 DEF Pic
<1>11. Pic(l, e, w, p, r)
  BY <1>1, <1>6, <1>7, <1>8, <1>9, <1>10 DEF Pic
<1> QED BY <1>1, <1>11

(* Volumes are written.                                                     *)
LEMMA PicVols ==
  ASSUME NEW l, NEW m, LeftStep(l, m), NEW d, NEW q, NEW p, NEW r, Pic(l, d, q, p, r),
         NEW e, e.tasks = d.tasks, e.nodes = d.nodes,
         NEW x, IsSeq(x), \A a \in DOMAIN x : x[a].type = "volume",
         NEW w, w = q \o x, VolWrites(l, d.vols, e.vols, Range(q), Range(w))
  PROVE  Pic(m, e, w, p, r)
<1>1. PICK F, T, D : F = Range(w) /\ T = d.tasks /\ D = d.nodes
  OBVIOUS
<1>2. IsSeq(q) /\ Pic(m, d, q, p, r)
  BY PicSame DEF Pic, QueueInv
<1>3. F = Range(q) \cup Range(x)
  BY <1>1, <1>2, CatRange
<1>4. \A y \in Range(x) : ~ofTask(y) /\ ~ofNode(y)
  BY DEF Range, ofTask, ofNode
<1>5. QueueInv(m, T, D, w)
  <2>1. QueueInv(m, T, D, q)
    BY <1>1, <1>2 DEF Pic
  <2> QED BY <2>1, QueueVols
<1>6. TaskPart(m, T, F, p, r)
  <2>1. TaskPart(m, T, Range(q), p, r)
    BY <1>1, <1>2 DEF Pic
  <2> QED BY <1>3, <1>4, <2>1, TasksOther
<1>7. NodePart(m, D, F, p.all, p.nodes)
  <2>1. NodePart(m, D, Range(q), p.all, p.nodes) /\ LeftStep(m, m)
    BY <1>1, <1>2 DEF Pic, LeftStep
  <2> QED BY <1>3, <1>4, <2>1, NodesOther
<1>8. VolPart(m, e.vols, F, p.all, p.vols)
  <2>1. VolPart(l, d.vols, Range(q), p.all, p.vols)
    BY DEF Pic
  <2> QED BY <1>1, <2>1, VolsWritten
<1>9. Kinds(m, T, p, r)
  BY <1>1, <1>2 DEF Pic
<1> QED BY <1>1, <1>5, <1>6, <1>7, <1>8, <1>9 DEF Pic

-----------------------------------------------------------------------------
(* What others do                                                           *)

LEMMA MovedOK ==
  ASSUME NEW l, NEW t, TaskOK(l, t), NEW u, Moved(t, u), u.svc = t.svc, u.wanted \in BOOLEAN
  PROVE  TaskOK(l, u)
<1>1. IsTask(u) /\ IsTask(t) /\ u.id = t.id /\ u.node = t.node /\ u.vol = t.vol /\ u.state >= t.state
  BY DEF Moved, Forward, TaskOK
<1>2. u.state <= TaskStatePending => t.state <= TaskStatePending
  BY <1>1 DEF IsTask, TaskStateNew, TaskStateDead, TaskStatePending
<1>3. Live(u) => Live(t)
  BY DEF Moved
<1>4. Asked(u) = Asked(t)
  BY DEF Asked
<1> QED BY <1>1, <1>2, <1>3, <1>4 DEF TaskOK

LEMMA EventsFinite ==
  ASSUME NEW new, new = [i \in DOMAIN new |-> new[i]], IsFiniteSet(DOMAIN new), NEW own
  PROVE  IsFiniteSet(TaskEvents(new, own))
<1>1. PICK f : f = [i \in DOMAIN new |-> [type |-> "task", obj |-> new[i], own |-> own]]
  OBVIOUS
<1>2. DOMAIN f = DOMAIN new /\ TaskEvents(new, own) = {f[i] : i \in DOMAIN f}
  BY <1>1 DEF TaskEvents, Range
<1>3. f = [i \in DOMAIN f |-> f[i]]
  BY <1>1
<1> QED BY <1>2, <1>3, ImageFinite

LEMMA EventFields ==
  ASSUME NEW t, NEW own, NEW e, e = [type |-> "task", obj |-> t, own |-> own]
  PROVE  e.type = "task" /\ e.obj = t /\ e.own = own
OBVIOUS

(* The events x tell of the tasks new.                                      *)
Tells(x, new, own) ==
  \A a \in DOMAIN x : x[a].own = own /\ \E i \in DOMAIN new : x[a].type = "task" /\ x[a].obj = new[i]

LEMMA ToldMany ==
  ASSUME NEW T, NEW new, new = [i \in DOMAIN new |-> new[i]], IsFiniteSet(DOMAIN new),
         \A i \in DOMAIN new : i \in DOMAIN T /\ Forward(T[i], new[i]) /\ new[i].id = i,
         NEW U, U = Overlay(new, T), NEW own, NEW x, x = SetToSeq(TaskEvents(new, own))
  PROVE  TasksTold(T, U, x) /\ Tells(x, new, own) /\ Range(x) = TaskEvents(new, own)
<1>1. PICK S : S = TaskEvents(new, own)
  OBVIOUS
<1>2. IsFiniteSet(S) /\ x = SetToSeq(S)
  BY <1>1, EventsFinite
<1>3. /\ IsSeq(x) /\ \A a \in DOMAIN x : x[a] \in S
      /\ \A a, b \in DOMAIN x : x[a] = x[b] => a = b
      /\ \A y \in S : \E a \in DOMAIN x : x[a] = y
  BY <1>2, SetToSeqAll
<1>4. \A a \in DOMAIN x : \E i \in DOMAIN new : x[a] = [type |-> "task", obj |-> new[i], own |-> own]
  <2>1. \A y \in S : \E i \in DOMAIN new : y = [type |-> "task", obj |-> new[i], own |-> own]
    <3> SUFFICES ASSUME NEW y \in S
                 PROVE  \E i \in DOMAIN new : y = [type |-> "task", obj |-> new[i], own |-> own]
      OBVIOUS
    <3>1. PICK t \in Range(new) : y = [type |-> "task", obj |-> t, own |-> own]
      BY <1>1, Zenon DEF TaskEvents
    <3>2. PICK i \in DOMAIN new : t = new[i]
      BY Zenon DEF Range
    <3> QED BY <3>1, <3>2, Zenon
  <2> QED BY <1>3, <2>1
<1>5. /\ DOMAIN U = DOMAIN T /\ \A i \in DOMAIN new : U[i] = new[i]
      /\ \A i \in DOMAIN T : i \notin DOMAIN new => U[i] = T[i]
  BY DEF Overlay
<1>6. ASSUME NEW a \in DOMAIN x
      PROVE  /\ ofTask(x[a]) /\ x[a].obj.id \in DOMAIN T /\ CurrentTask(U, x[a])
             /\ x[a].type = "task" => Forward(T[x[a].obj.id], x[a].obj)
             /\ x[a].type = "gone" => x[a].obj = T[x[a].obj.id]
  <2>1. PICK i \in DOMAIN new : x[a] = [type |-> "task", obj |-> new[i], own |-> own]
    BY <1>4
  <2>2. x[a].type = "task" /\ x[a].obj = new[i] /\ new[i].id = i /\ i \in DOMAIN T /\ Forward(T[i], new[i])
    BY <2>1
  <2> QED BY <1>5, <2>2 DEF ofTask, CurrentTask
<1>7. ASSUME NEW a \in DOMAIN x, NEW b \in DOMAIN x, x[a].obj.id = x[b].obj.id PROVE a = b
  <2>1. PICK i \in DOMAIN new : x[a] = [type |-> "task", obj |-> new[i], own |-> own]
    BY <1>4
  <2>2. PICK j \in DOMAIN new : x[b] = [type |-> "task", obj |-> new[j], own |-> own]
    BY <1>4
  <2>3. i = j
    BY <1>7, <2>1, <2>2
  <2> QED BY <1>3, <2>1, <2>2, <2>3
<1>8. ASSUME NEW i, \A a \in DOMAIN x : x[a].obj.id # i
      PROVE  (i \in DOMAIN U <=> i \in DOMAIN T) /\ (i \in DOMAIN U => U[i] = T[i])
  <2>1. ASSUME i \in DOMAIN new PROVE FALSE
    <3>1. PICK y : y = [type |-> "task", obj |-> new[i], own |-> own]
      OBVIOUS
    <3>2. y \in S /\ y.obj.id = i
      BY <1>1, <2>1, <3>1 DEF TaskEvents, Range
    <3> QED BY <1>3, <1>8, <3>2
  <2> QED BY <1>5, <2>1
<1>9. Range(x) = S
  BY <1>3 DEF Range
<1>10. TasksTold(T, U, x)
  BY <1>3, <1>6, <1>7, <1>8 DEF TasksTold
<1>11. Tells(x, new, own)
  <2> SUFFICES ASSUME NEW a \in DOMAIN x
               PROVE  /\ x[a].own = own
                      /\ \E i \in DOMAIN new : x[a].type = "task" /\ x[a].obj = new[i]
    BY DEF Tells
  <2>1. PICK i \in DOMAIN new : x[a] = [type |-> "task", obj |-> new[i], own |-> own]
    BY <1>4
  <2> QED BY <2>1, EventFields
<1> QED BY <1>1, <1>9, <1>10, <1>11

Steady ==
  /\ LeftOK(left') /\ LeftStep(left, left')
  /\ Pic(left, db, queue, s, run) => Pic(left', db', queue', s, run)

Invs == VolumeInv /\ DecisionInv /\ LeftOK(left)

LEMMA InvTypes ==
  ASSUME Invs
  PROVE  /\ IsDb(db) /\ VolumeTypes /\ LeftOK(left)
         /\ PictureOK(db.tasks, left.pre, s) /\ RunOK(db.tasks, left.pre, s, run)
         /\ IsFiniteSet(DOMAIN db.tasks) /\ \A v \in left.new : v \notin DOMAIN db.vols
BY StoredFinite DEF Invs, DecisionInv, VolumeInv, Fresh

LEMMA ManySteady ==
  ASSUME Invs, LeftOK(left'), LeftStep(left, left'),
         NEW new, new = [i \in DOMAIN new |-> new[i]],
         \A i \in DOMAIN new : /\ i \in DOMAIN db.tasks /\ Moved(db.tasks[i], new[i])
                               /\ new[i].svc = db.tasks[i].svc
                               /\ db.tasks[i].wanted \in BOOLEAN => new[i].wanted \in BOOLEAN,
         NEW e, e.tasks = Overlay(new, db.tasks), e.nodes = db.nodes, e.vols = db.vols,
         NEW x, x = SetToSeq(TaskEvents(new, FALSE)),
         Pic(left, db, queue, s, run)
  PROVE  Pic(left', e, queue \o x, s, run)
<1>1. PICK T, U, l, m : T = db.tasks /\ U = e.tasks /\ l = left /\ m = left'
  OBVIOUS
<1>2. AllOK(l, T)
  BY <1>1 DEF Pic, Kinds
<1>3. \A i \in DOMAIN new : new[i].id = i /\ Forward(T[i], new[i]) /\ i \in DOMAIN T
  BY <1>1, <1>2 DEF AllOK, Moved, Forward
<1>4. IsFiniteSet(DOMAIN new)
  <2>1. DOMAIN new \subseteq DOMAIN db.tasks
    OBVIOUS
  <2> QED BY <2>1, InvTypes, FS_Subset
<1>5. TasksTold(T, U, x) /\ Tells(x, new, FALSE)
  BY <1>1, <1>3, <1>4, ToldMany
<1>6. ASSUME NEW a \in DOMAIN x
      PROVE  ~x[a].own /\ Moved(T[x[a].obj.id], x[a].obj)
  <2>1. PICK i \in DOMAIN new : x[a].obj = new[i]
    BY <1>5 DEF Tells
  <2>2. x[a].own = FALSE
    BY <1>5, Zenon DEF Tells
  <2>3. Moved(T[x[a].obj.id], x[a].obj)
    BY <1>1, <1>3, <2>1
  <2> QED BY <2>2, <2>3, Zenon
<1>7. AllOK(l, U)
  <2> SUFFICES ASSUME NEW i \in DOMAIN U PROVE U[i].id = i /\ TaskOK(l, U[i])
    BY DEF AllOK
  <2>1. CASE i \notin DOMAIN new
    <3>1. i \in DOMAIN T /\ U[i] = T[i]
      BY <1>1, <2>1 DEF Overlay
    <3> QED BY <1>2, <3>1 DEF AllOK
  <2>2. CASE i \in DOMAIN new
    <3>1. U[i] = new[i] /\ i \in DOMAIN T
      BY <1>1, <1>3, <2>2 DEF Overlay
    <3>2. TaskOK(l, T[i])
      BY <1>2, <3>1 DEF AllOK
    <3>3. new[i].wanted \in BOOLEAN /\ Moved(T[i], new[i]) /\ new[i].svc = T[i].svc
      BY <1>1, <2>2, <3>2 DEF TaskOK
    <3>4. TaskOK(l, new[i])
      BY <3>2, <3>3, MovedOK
    <3> QED BY <1>3, <2>2, <3>1, <3>4
  <2> QED BY <2>1, <2>2
<1>8. Pic(l, db, queue, s, run) /\ PictureOK(db.tasks, l.pre, s) /\ RunOK(db.tasks, l.pre, s, run)
      /\ LeftStep(l, m)
  BY <1>1, InvTypes
<1>9. Pic(m, e, queue \o x, s, run)
  BY <1>1, <1>5, <1>6, <1>7, <1>8, PicTasks
<1> QED BY <1>1, <1>9

LEMMA WriteSteady ==
  ASSUME Invs, LeftOK(left'), LeftStep(left, left'),
         NEW i \in DOMAIN db.tasks, NEW t, t.id = i, Write({t}),
         Moved(db.tasks[i], NextVersion(t)), NextVersion(t).svc = db.tasks[i].svc,
         db.tasks[i].wanted \in BOOLEAN => NextVersion(t).wanted \in BOOLEAN
  PROVE  Steady
<1>1. PICK u, new, d : u = NextVersion(t) /\ new = [j \in {i} |-> u] /\ d = db'
  OBVIOUS
<1>2. {Event("task", NextVersion(x)) : x \in {t}} = TaskEvents(new, FALSE)
  <2>1. Range(new) = {u}
    BY <1>1 DEF Range
  <2>2. {Event("task", NextVersion(x)) : x \in {t}} = {Event("task", u)}
    BY <1>1
  <2> QED BY <2>1, <2>2 DEF TaskEvents, Event
<1>3. [j \in {x.id : x \in {t}} |-> NextVersion(CHOOSE x \in {t} : x.id = j)] = new
  BY <1>1
<1>4. /\ queue' = queue \o SetToSeq(TaskEvents(new, FALSE))
      /\ db' = [db EXCEPT !.tasks = Overlay([j \in {x.id : x \in {t}} |->
                                  NextVersion(CHOOSE x \in {t} : x.id = j)], @)]
  BY <1>2 DEF Write
<1>5. db' = [db EXCEPT !.tasks = Overlay(new, db.tasks)]
  BY <1>3, <1>4, InvTypes DEF IsDb
<1>6. d.tasks = Overlay(new, db.tasks) /\ d.nodes = db.nodes /\ d.vols = db.vols
  <2>1. PICK y : y = Overlay(new, db.tasks)
    OBVIOUS
  <2>2. d = [db EXCEPT !.tasks = y] /\ IsDb(db)
    BY <1>1, <1>5, <2>1, InvTypes
  <2>3. d.tasks = y /\ d.nodes = db.nodes /\ d.vols = db.vols
    BY <2>2 DEF IsDb
  <2> QED BY <2>1, <2>3
<1>7. DOMAIN new = {i} /\ new[i] = u /\ new = [j \in DOMAIN new |-> new[j]]
  BY <1>1
<1>8. Pic(left, db, queue, s, run) => Pic(left', d, queue \o SetToSeq(TaskEvents(new, FALSE)), s, run)
  BY <1>1, <1>6, <1>7, ManySteady
<1> QED BY <1>1, <1>4, <1>8 DEF Steady

LEMMA MoveState ==
  ASSUME NEW t, IsTask(t), NEW x \in TaskStateNew..TaskStateDead, x >= t.state,
         x # TaskStateAssigned, NEW w, w = [t EXCEPT !.state = x]
  PROVE  /\ Moved(t, NextVersion(w)) /\ NextVersion(w).svc = t.svc
         /\ NextVersion(w).wanted = t.wanted /\ w.id = t.id
<1>1. IsTask(w) /\ w.id = t.id /\ w.state = x /\ w.wanted = t.wanted /\ w.node = t.node
      /\ w.vol = t.vol /\ w.svc = t.svc
  BY DEF IsTask
<1>2. PICK u : u = NextVersion(w)
  OBVIOUS
<1>3. Forward(t, u)
  BY <1>2, ForwardState
<1>4. u.svc = t.svc /\ u.vol = t.vol /\ u.node = t.node /\ u.wanted = t.wanted /\ u.state = x
  BY <1>1, <1>2, NextMore, NextFields
<1> QED BY <1>1, <1>2, <1>3, <1>4 DEF Moved, Live

LEMMA MoveStop ==
  ASSUME NEW t, IsTask(t), NEW w, w = [t EXCEPT !.wanted = FALSE]
  PROVE  /\ Moved(t, NextVersion(w)) /\ NextVersion(w).svc = t.svc
         /\ NextVersion(w).wanted \in BOOLEAN /\ w.id = t.id
<1>1. IsTask(w) /\ w.id = t.id /\ w.state = t.state /\ w.node = t.node
      /\ w.vol = t.vol /\ w.svc = t.svc
  BY DEF IsTask
<1>2. w.wanted = FALSE
  BY DEF IsTask
<1>3. PICK u : u = NextVersion(w)
  OBVIOUS
<1>4. Forward(t, u)
  BY <1>3, ForwardStop
<1>5. u.svc = t.svc /\ u.vol = t.vol /\ u.node = t.node /\ u.state = t.state
  BY <1>1, <1>3, NextMore, NextFields
<1>6. u.wanted = w.wanted
  BY <1>1, <1>3, NextFields
<1>7. u.wanted \in BOOLEAN
  BY <1>2, <1>6, Zenon
<1> QED BY <1>1, <1>3, <1>4, <1>5, <1>7 DEF Moved, Live

LEMMA DeadMoved ==
  ASSUME NEW t, IsTask(t), NEW w, w = [t EXCEPT !.state = TaskStateDead]
  PROVE  /\ Moved(t, NextVersion(w)) /\ NextVersion(w).svc = t.svc
         /\ NextVersion(w).wanted = t.wanted /\ w.id = t.id
<1>1. /\ TaskStateDead \in TaskStateNew..TaskStateDead /\ TaskStateDead >= t.state
      /\ TaskStateDead # TaskStateAssigned
  BY DEF IsTask, TaskStateNew, TaskStateDead, TaskStateAssigned
<1> QED BY <1>1, MoveState

LEMMA StoredTask ==
  ASSUME Invs, NEW t \in Range(db.tasks)
  PROVE  t.id \in DOMAIN db.tasks /\ t = db.tasks[t.id] /\ IsTask(t)
BY StoreTypes DEF Invs, Range

LEMMA AllocateSteady ==
  ASSUME Invs, NEW t \in Range(db.tasks), Allocate(t)
  PROVE  Steady
<1>1. PICK w : w = [t EXCEPT !.state = TaskStatePending]
  OBVIOUS
<1>2. /\ TaskStatePending \in TaskStateNew..TaskStateDead /\ TaskStatePending >= t.state
      /\ TaskStatePending # TaskStateAssigned
  BY DEF Allocate, TaskStateNew, TaskStatePending, TaskStateAssigned, TaskStateDead
<1>3. /\ Moved(t, NextVersion(w)) /\ NextVersion(w).svc = t.svc
      /\ NextVersion(w).wanted = t.wanted /\ w.id = t.id
  BY <1>1, <1>2, StoredTask, MoveState
<1>4. LeftOK(left') /\ LeftStep(left, left') /\ Write({w})
  BY <1>1, InvTypes, SameLeft DEF Allocate
<1> QED BY <1>3, <1>4, StoredTask, WriteSteady

LEMMA StopSteady ==
  ASSUME Invs, NEW t \in Range(db.tasks), Stop(t)
  PROVE  Steady
<1>1. PICK w : w = [t EXCEPT !.wanted = FALSE]
  OBVIOUS
<1>2. /\ Moved(t, NextVersion(w)) /\ NextVersion(w).svc = t.svc
      /\ NextVersion(w).wanted \in BOOLEAN /\ w.id = t.id
  BY <1>1, StoredTask, MoveStop
<1>3. LeftOK(left') /\ LeftStep(left, left') /\ Write({w})
  BY <1>1, InvTypes, SpendLeft DEF Stop
<1> QED BY <1>2, <1>3, StoredTask, WriteSteady

LEMMA EndSteady ==
  ASSUME Invs, NEW t \in Range(db.tasks), End(t)
  PROVE  Steady
<1>1. PICK w : w = [t EXCEPT !.state = TaskStateDead]
  OBVIOUS
<1>2. /\ Moved(t, NextVersion(w)) /\ NextVersion(w).svc = t.svc
      /\ NextVersion(w).wanted = t.wanted /\ w.id = t.id
  BY <1>1, StoredTask, DeadMoved
<1>3. LeftOK(left') /\ LeftStep(left, left')
  BY InvTypes, SpendLeft, SameLeft DEF End
<1>4. Write({w})
  BY <1>1 DEF End
<1> QED BY <1>2, <1>3, <1>4, StoredTask, WriteSteady

LEMMA RejectSteady ==
  ASSUME Invs, NEW i \in DOMAIN db.tasks, Rejected(i), left' = left
  PROVE  Steady
<1>1. PICK w, t : t = db.tasks[i] /\ w = [t EXCEPT !.state = TaskStateDead]
  OBVIOUS
<1>2. t \in Range(db.tasks) /\ IsTask(t) /\ t.id = i
  BY <1>1, StoreTypes DEF Invs, Range
<1>3. /\ Moved(t, NextVersion(w)) /\ NextVersion(w).svc = t.svc
      /\ NextVersion(w).wanted = t.wanted /\ w.id = t.id
  BY <1>1, <1>2, DeadMoved
<1>4. LeftOK(left') /\ LeftStep(left, left')
  BY InvTypes, SameLeft
<1>5. Write({w})
  BY <1>1 DEF Rejected
<1> QED BY <1>1, <1>2, <1>3, <1>4, <1>5, WriteSteady

LEMMA DeleteSteady ==
  ASSUME Invs, NEW t \in Range(db.tasks), Delete(t)
  PROVE  Steady
<1>1. LeftOK(left') /\ LeftStep(left, left')
  <2>1. PICK x, y : left' = [left EXCEPT !.deletes = x, !.ghosts = y]
    BY DEF Delete
  <2>2. PICK k, m : k = [left EXCEPT !.deletes = x] /\ m = left'
    OBVIOUS
  <2>3. LeftOK(k) /\ LeftStep(left, k)
    BY <2>2, InvTypes, LeftFrames
  <2>4. m = [k EXCEPT !.ghosts = y]
    BY <2>1, <2>2
  <2>5. LeftOK(m) /\ LeftStep(k, m)
    BY <2>3, <2>4, LeftFrames
  <2>6. LeftStep(left, m)
    BY <2>3, <2>5 DEF LeftStep
  <2> QED BY <2>2, <2>5, <2>6
<1>2. SUFFICES ASSUME Pic(left, db, queue, s, run) PROVE Pic(left', db', queue', s, run)
  BY <1>1 DEF Steady
<1>3. PICK d, e, x, T, U, i : /\ d = db' /\ e = Event("gone", t) /\ x = <<e>>
                              /\ T = db.tasks /\ U = d.tasks /\ i = t.id
  OBVIOUS
<1>4. d.tasks = Drop(T, i) /\ d.nodes = db.nodes /\ d.vols = db.vols
  <2>1. d = [db EXCEPT !.tasks = Drop(T, i)] /\ IsDb(db)
    BY <1>3, InvTypes DEF Delete, IsDb
  <2> QED BY <2>1 DEF IsDb
<1>5. DOMAIN U = DOMAIN T \ {i} /\ \A j \in DOMAIN U : U[j] = T[j]
  BY <1>3, <1>4 DEF Drop, Restrict
<1>6. i \in DOMAIN T /\ T[i] = t
  BY <1>3, StoredTask
<1>7. e.type = "gone" /\ e.obj = t
  BY <1>3 DEF Event
<1>8. ~e.own
  BY <1>3 DEF Event
<1>9. IsSeq(queue) /\ QueueInv(left, db.tasks, db.nodes, queue)
  BY <1>2 DEF Pic, QueueInv
<1>10. queue' = queue \o x /\ IsSeq(x) /\ DOMAIN x = {1} /\ x[1] = e
  BY <1>3, <1>9, One DEF Delete
<1>11. TasksTold(T, U, x)
  BY <1>3, <1>5, <1>6, <1>7, <1>10 DEF TasksTold, ofTask, CurrentTask
<1>12. AllOK(left, U)
  BY <1>2, <1>3, <1>5 DEF Pic, Kinds, AllOK
<1>13. \A a \in DOMAIN x : ~x[a].own /\ (x[a].type = "task" => Moved(T[x[a].obj.id], x[a].obj))
  BY <1>7, <1>8, <1>10
<1>14. PICK l, m : l = left /\ m = left'
  OBVIOUS
<1>15. Pic(m, d, queue \o x, s, run)
  <2>1. /\ LeftStep(l, m) /\ Pic(l, db, queue, s, run) /\ PictureOK(db.tasks, l.pre, s)
        /\ RunOK(db.tasks, l.pre, s, run) /\ AllOK(l, d.tasks) /\ TasksTold(db.tasks, d.tasks, x)
    BY <1>1, <1>2, <1>3, <1>11, <1>12, <1>14, InvTypes
  <2> QED BY <1>3, <1>4, <1>13, <2>1, PicTasks
<1> QED BY <1>3, <1>10, <1>14, <1>15

LEMMA NodeSteady ==
  ASSUME Invs, LeftOK(left'), LeftStep(left, left'), NEW node, SetNode(node),
         Pic(left, db, queue, s, run) => NodeOK(left', node.id, node),
         node.id \in DOMAIN db.nodes \/ node.id \notin DOMAIN left.room
  PROVE  Steady
<1> SUFFICES ASSUME Pic(left, db, queue, s, run) PROVE Pic(left', db', queue', s, run)
  BY DEF Steady
<1>1. PICK d, l, m, x : d = db' /\ l = left /\ m = left' /\ x = Put(db.nodes, node.id, node)
  OBVIOUS
<1>2. d.tasks = db.tasks /\ d.nodes = x /\ d.vols = db.vols
  <2>1. d = [db EXCEPT !.nodes = x] /\ IsDb(db)
    BY <1>1, InvTypes DEF SetNode, IsDb
  <2> QED BY <2>1 DEF IsDb
<1>3. queue' = Append(queue, Event("node", node))
  BY DEF SetNode
<1>4. Pic(m, d, Append(queue, Event("node", node)), s, run)
  BY <1>1, <1>2, PicNode
<1> QED BY <1>1, <1>3, <1>4

LEMMA JoinSteady ==
  ASSUME Invs, NEW n \in Nodes, Join(n)
  PROVE  Steady
<1>1. PICK m, room, node : m = left' /\ room = Put(left.room, n, 1) /\ node = Node(n, 1)
  OBVIOUS
<1>2. /\ DOMAIN room = DOMAIN left.room \cup {n} /\ room[n] = 1
      /\ \A k \in DOMAIN left.room : room[k] = left.room[k]
  BY <1>1 DEF Put, Join
<1>3. /\ DOMAIN m = DOMAIN left /\ m.room = room /\ m.of = left.of /\ m.pre = left.pre
      /\ m.prompt = left.prompt /\ m.new = left.new /\ m.stale = left.stale
  BY <1>1, InvTypes DEF Join, LeftOK
<1>4. LeftOK(m)
  BY <1>2, <1>3, InvTypes DEF LeftOK, RoomOK
<1>5. LeftStep(left, m)
  BY <1>2, <1>3 DEF LeftStep, Join
<1>6. node.id = n /\ node.room = 1 /\ {"state", "label", "room"} \subseteq DOMAIN node
  BY <1>1 DEF Node
<1>7. node.label \in BOOLEAN
  BY <1>1 DEF Node
<1>8. NodeOK(m, node.id, node)
  BY <1>2, <1>3, <1>6, <1>7 DEF NodeOK
<1>9. SetNode(node) /\ n \notin DOMAIN left.room
  BY <1>1 DEF Join
<1> QED BY <1>1, <1>4, <1>5, <1>6, <1>8, <1>9, NodeSteady

LEMMA UpdatedSteady ==
  ASSUME Invs, NEW n \in DOMAIN db.nodes,
         \/ Flip(n) \/ Halt(n) \/ Relabel(n) \/ \E room \in 0..left.room[n] : Resize(n, room)
  PROVE  Steady
<1>1. LeftOK(left') /\ LeftStep(left, left')
  BY InvTypes, SpendLeft DEF Flip, Halt, Relabel, Resize
<1>2. PICK old : old = db.nodes[n]
  OBVIOUS
<1>3. Pic(left, db, queue, s, run) => NodeOK(left, n, old)
  BY <1>2 DEF Pic, NodePart
<1>4. ASSUME NEW node, SetNode(node), node.id = n,
             NodeOK(left, n, old) => NodeOK(left, n, node)
      PROVE  Steady
  BY <1>1, <1>3, <1>4, LeftNode, NodeSteady
<1>5. \A x, node : node = [old EXCEPT !.state = x] =>
        node.id = old.id /\ (NodeOK(left, n, old) => NodeOK(left, n, node))
  BY DEF NodeOK
<1>6. \A x, node : x \in Nat /\ x <= left.room[n] /\ node = [old EXCEPT !.room = x] =>
        node.id = old.id /\ (NodeOK(left, n, old) => NodeOK(left, n, node))
  BY DEF NodeOK
<1>7. \A x, node : x \in BOOLEAN /\ node = [old EXCEPT !.label = x] =>
        node.id = old.id /\ (NodeOK(left, n, old) => NodeOK(left, n, node))
  BY DEF NodeOK
<1>8. SUFFICES ASSUME Pic(left, db, queue, s, run) PROVE Pic(left', db', queue', s, run)
  BY <1>1 DEF Steady
<1>9. NodeOK(left, n, old) /\ old.id = n /\ left.room[n] \in Nat
  BY <1>3, <1>8, InvTypes DEF NodeOK, LeftOK, RoomOK
<1>10. CASE Flip(n) \/ Halt(n)
  <2>1. PICK x : SetNode([old EXCEPT !.state = x])
    BY <1>2, <1>10 DEF Flip, Halt, SetUpdated
  <2> QED BY <1>4, <1>5, <1>8, <1>9, <2>1 DEF Steady
<1>11. CASE Relabel(n)
  <2>1. PICK x : x = ~old.label
    OBVIOUS
  <2>2. x \in BOOLEAN
    BY <2>1
  <2>3. SetNode([old EXCEPT !.label = x])
    BY <1>2, <1>11, <2>1 DEF Relabel, SetUpdated
  <2> QED BY <1>4, <1>7, <1>8, <1>9, <2>2, <2>3 DEF Steady
<1>12. ASSUME NEW x \in 0..left.room[n], Resize(n, x) PROVE Steady
  <2>1. SetNode([old EXCEPT !.room = x])
    BY <1>2, <1>12 DEF Resize, SetUpdated
  <2>2. x \in Nat /\ x <= left.room[n]
    BY <1>9, <1>12
  <2> QED BY <1>4, <1>6, <1>9, <2>1, <2>2
<1> QED BY <1>8, <1>10, <1>11, <1>12 DEF Steady

LEMMA RemoveSteady ==
  ASSUME Invs, NEW n \in DOMAIN db.nodes, RemoveNode(n)
  PROVE  Steady
<1> DEFINE orphaned == {[t EXCEPT !.state = TaskStateDead] :
                          t \in {t \in Range(db.tasks) : t.state # TaskStateDead /\ t.node = n}}
           new == [i \in {t.id : t \in orphaned} |->
                     NextVersion(CHOOSE t \in orphaned : t.id = i)]
<1>1. /\ db' = [db EXCEPT !.nodes = Drop(@, n), !.tasks = Overlay(new, @)]
      /\ queue' = queue \o SetToSeq({Event("task", t) : t \in Range(new)})
                        \o <<Event("nodegone", n)>>
      /\ Spend("removals")
  BY DEF RemoveNode
<1>2. new = [i \in {t.id : t \in orphaned} |-> NextVersion(CHOOSE t \in orphaned : t.id = i)]
  OBVIOUS
<1> HIDE DEF new
<1>3. orphaned = {[t EXCEPT !.state = TaskStateDead] :
                    t \in {t \in Range(db.tasks) : t.state # TaskStateDead /\ t.node = n}}
  OBVIOUS
<1> HIDE DEF orphaned
<1>4. ASSUME NEW i \in DOMAIN new
      PROVE  /\ i \in DOMAIN db.tasks /\ Moved(db.tasks[i], new[i])
             /\ new[i].svc = db.tasks[i].svc /\ new[i].wanted = db.tasks[i].wanted
  <2>1. PICK u \in orphaned : u.id = i /\ u = CHOOSE t \in orphaned : t.id = i
    BY <1>2
  <2>2. new[i] = NextVersion(u)
    BY <1>2, <2>1
  <2>3. PICK j \in DOMAIN db.tasks : u = [db.tasks[j] EXCEPT !.state = TaskStateDead]
    BY <1>3, <2>1 DEF Range
  <2>4. IsTask(db.tasks[j]) /\ db.tasks[j].id = j
    BY <2>3, StoreTypes DEF Invs
  <2>5. /\ Moved(db.tasks[j], NextVersion(u)) /\ NextVersion(u).svc = db.tasks[j].svc
        /\ NextVersion(u).wanted = db.tasks[j].wanted /\ u.id = j
    BY <2>3, <2>4, DeadMoved
  <2> QED BY <2>1, <2>2, <2>3, <2>5
<1>5. new = [i \in DOMAIN new |-> new[i]]
  BY <1>2
<1>6. LeftOK(left') /\ LeftStep(left, left')
  BY <1>1, InvTypes, SpendLeft
<1>7. SUFFICES ASSUME Pic(left, db, queue, s, run) PROVE Pic(left', db', queue', s, run)
  BY <1>6 DEF Steady
<1>8. PICK T, D, d, e : /\ T = Overlay(new, db.tasks) /\ D = Drop(db.nodes, n) /\ d = db'
                        /\ e = [db EXCEPT !.tasks = T]
  OBVIOUS
<1>9. d.tasks = T /\ d.nodes = D /\ d.vols = db.vols
  <2>1. d = [db EXCEPT !.nodes = D, !.tasks = T] /\ IsDb(db)
    BY <1>1, <1>8, InvTypes DEF IsDb
  <2> QED BY <2>1 DEF IsDb
<1>10. e.tasks = T /\ e.nodes = db.nodes /\ e.vols = db.vols
  BY <1>8, InvTypes DEF IsDb
<1>11. {Event("task", t) : t \in Range(new)} = TaskEvents(new, FALSE)
  BY DEF TaskEvents, Event
<1>12. PICK x, w, m : /\ x = SetToSeq(TaskEvents(new, FALSE)) /\ w = queue \o x /\ m = left'
  OBVIOUS
<1>13. Pic(m, e, w, s, run)
  BY <1>4, <1>5, <1>6, <1>7, <1>8, <1>10, <1>12, ManySteady
<1>14. Pic(m, d, w \o <<Event("nodegone", n)>>, s, run)
  BY <1>8, <1>9, <1>10, <1>13, PicNodeGone
<1> QED BY <1>1, <1>8, <1>11, <1>12, <1>14

LEMMA SetSteady ==
  ASSUME Invs, LeftOK(left'), LeftStep(left, left'), NEW v, NEW vol, SetVolume(v, vol),
         \/ v \in DOMAIN db.vols /\ (db.vols[v].info => vol.info)
         \/ v \in left.new /\ ~vol.info
  PROVE  Steady
<1> SUFFICES ASSUME Pic(left, db, queue, s, run) PROVE Pic(left', db', queue', s, run)
  BY DEF Steady
<1>1. PICK d, l, m, e, x, w : /\ d = db' /\ l = left /\ m = left'
                              /\ e = Event("volume", [id |-> v, vol |-> vol])
                              /\ x = <<e>> /\ w = queue'
  OBVIOUS
<1>2. d.tasks = db.tasks /\ d.nodes = db.nodes /\ d.vols = Put(db.vols, v, vol)
  <2>1. d = [db EXCEPT !.vols = Put(db.vols, v, vol)] /\ IsDb(db)
    BY <1>1, InvTypes DEF SetVolume, IsDb
  <2> QED BY <2>1 DEF IsDb
<1>3. /\ DOMAIN d.vols = DOMAIN db.vols \cup {v} /\ d.vols[v] = vol
      /\ \A u \in DOMAIN db.vols : u # v => d.vols[u] = db.vols[u]
  BY <1>2 DEF Put
<1>4. e.type = "volume" /\ e.obj.id = v /\ e.obj.vol = vol
  BY <1>1 DEF Event
<1>5. IsSeq(queue)
  BY DEF Pic, QueueInv
<1>6. w = queue \o x /\ IsSeq(x) /\ DOMAIN x = {1} /\ x[1] = e
  BY <1>1, <1>5, One DEF SetVolume
<1>7. Range(w) = Range(queue) \cup {e}
  <2>1. Range(x) = {e}
    BY <1>6 DEF Range
  <2>2. Range(w) = Range(queue) \cup Range(x)
    BY <1>5, <1>6, CatRange
  <2> QED BY <2>1, <2>2
<1>8. VolWrites(l, db.vols, d.vols, Range(queue), Range(w))
  <2>1. \A u \in l.new : u \notin DOMAIN db.vols
    BY <1>1, InvTypes
  <2>2. vol.info => InfoEvent(e, v)
    BY <1>4 DEF InfoEvent
  <2>3. ASSUME NEW u \in DOMAIN d.vols
        PROVE  /\ u \in DOMAIN db.vols => (db.vols[u].info => d.vols[u].info)
               /\ u \notin DOMAIN db.vols => u \in l.new /\ ~d.vols[u].info
               /\ u \in DOMAIN db.vols /\ d.vols[u].info =>
                    db.vols[u].info \/ \E y \in Range(w) : InfoEvent(y, u)
    BY <1>1, <1>3, <1>7, <2>1, <2>2
  <2>4. \A y \in Range(w) : y.type = "volume" =>
          y \in Range(queue) \/ (y.obj.id \in DOMAIN d.vols /\ y.obj.vol = d.vols[y.obj.id])
    BY <1>3, <1>4, <1>7
  <2> QED BY <1>7, <2>1, <2>3, <2>4 DEF VolWrites
<1>9. \A a \in DOMAIN x : x[a].type = "volume"
  BY <1>4, <1>6
<1>10. Pic(m, d, w, s, run)
  <2>1. LeftStep(l, m) /\ Pic(l, db, queue, s, run)
    BY <1>1
  <2> QED BY <1>2, <1>6, <1>8, <1>9, <2>1, PicVols
<1> QED BY <1>1, <1>10

LEMMA QuietSteady ==
  ASSUME Invs, LeftOK(left'), LeftStep(left, left'), queue' = queue,
         db'.tasks = db.tasks, db'.nodes = db.nodes, db'.vols = db.vols
  PROVE  Steady
<1>1. PICK d, l, m : d = db' /\ l = left /\ m = left'
  OBVIOUS
<1>2. Pic(l, db, queue, s, run) => Pic(m, d, queue, s, run)
  BY <1>1, PicSame
<1> QED BY <1>1, <1>2 DEF Steady

LEMMA IdleSteady ==
  ASSUME Invs, UNCHANGED <<db, queue>>, LeftOK(left'), LeftStep(left, left')
  PROVE  Steady
BY QuietSteady

LEMMA DropSteady ==
  ASSUME Invs, NEW v, db' = [db EXCEPT !.vols = Drop(@, v)], UNCHANGED <<queue, left>>
  PROVE  Steady
<1>1. LeftOK(left') /\ LeftStep(left, left')
  BY InvTypes, SameLeft
<1>2. SUFFICES ASSUME Pic(left, db, queue, s, run) PROVE Pic(left, db', queue, s, run)
  BY <1>1 DEF Steady
<1>3. PICK d, x : d = db' /\ x = Drop(db.vols, v)
  OBVIOUS
<1>4. d.tasks = db.tasks /\ d.nodes = db.nodes /\ d.vols = x
  <2>1. d = [db EXCEPT !.vols = x] /\ IsDb(db)
    BY <1>3, InvTypes DEF IsDb
  <2> QED BY <2>1 DEF IsDb
<1>5. DOMAIN x \subseteq DOMAIN db.vols /\ \A u \in DOMAIN x : x[u] = db.vols[u]
  BY <1>3 DEF Drop, Restrict
<1>6. VolWrites(left, db.vols, d.vols, Range(queue), Range(queue))
  BY <1>4, <1>5, InvTypes DEF VolWrites
<1>7. LeftStep(left, left)
  BY DEF LeftStep
<1>8. VolPart(left, d.vols, Range(queue), s.all, s.vols)
  BY <1>2, <1>6, <1>7, VolsWritten DEF Pic
<1>9. Pic(left, d, queue, s, run)
  BY <1>2, <1>4, <1>8 DEF Pic
<1> QED BY <1>3, <1>9

LEMMA VolInfo ==
  ASSUME NEW vol \in Vol, NEW w
  PROVE  /\ \A x : w = [vol EXCEPT !.avail = x] => (vol.info => w.info)
         /\ \A x : w = [vol EXCEPT !.deleting = x] => (vol.info => w.info)
         /\ \A x : w = [vol EXCEPT !.pub = x] => (vol.info => w.info)
         /\ w = [vol EXCEPT !.info = TRUE] => (vol.info => w.info)
<1>1. vol = [avail |-> vol.avail, info |-> vol.info, deleting |-> vol.deleting, pub |-> vol.pub]
  BY DEF Vol
<1> QED BY <1>1

LEMMA StoredVol ==
  ASSUME Invs
  PROVE  /\ \A v \in DOMAIN db.vols : db.vols[v] \in Vol
         /\ csi.job.kind \in {"create", "delete", "deleted", "publish"} => csi.job.v \in DOMAIN db.vols
<1>1. csi.job.kind \in {"create", "delete", "deleted", "publish"} => csi.job # NoJob
  BY NoJobKind
<1> QED BY <1>1, InvTypes DEF Invs, VolumeInv, VolumeTypes, IsVols, JobOK

LEMMA ManageSteady ==
  ASSUME Invs, Manage \/ Agents
  PROVE  Steady
<1>1. ASSUME left' = left PROVE LeftOK(left') /\ LeftStep(left, left')
  BY <1>1, InvTypes, SameLeft
<1>2. ASSUME NEW v, handleVolume(v) PROVE Steady
  BY <1>1, <1>2, IdleSteady DEF handleVolume
<1>3. CASE Retry
  BY <1>3, InvTypes, SpendLeft, IdleSteady DEF Retry
<1>4. CASE createVolume
  <2>1. CASE SetVolume(csi.job.v, [db.vols[csi.job.v] EXCEPT !.info = TRUE]) /\ left' = left
    <3>1. PICK v, vol, w : /\ v = csi.job.v /\ vol = db.vols[v] /\ w = [vol EXCEPT !.info = TRUE]
      OBVIOUS
    <3>2. v \in DOMAIN db.vols /\ vol \in Vol
      BY <1>4, <3>1, StoredVol DEF createVolume
    <3>3. vol.info => w.info
      BY <3>1, <3>2, VolInfo
    <3>4. SetVolume(v, w)
      BY <2>1, <3>1
    <3> QED BY <1>1, <2>1, <3>1, <3>2, <3>3, <3>4, SetSteady
  <2> QED BY <1>3, <1>4, <2>1 DEF createVolume
<1>5. CASE WriteBack
  <2>1. PICK v, vol, w : /\ v = csi.job.v /\ vol = db.vols[v] /\ w = [vol EXCEPT !.pub = csi.job.pub]
    OBVIOUS
  <2>2. v \in DOMAIN db.vols /\ vol \in Vol
    BY <1>5, <2>1, StoredVol DEF WriteBack
  <2>3. vol.info => w.info
    BY <2>1, <2>2, VolInfo
  <2>4. SetVolume(v, w) /\ left' = left
    BY <1>5, <2>1 DEF WriteBack
  <2> QED BY <1>1, <2>1, <2>2, <2>3, <2>4, SetSteady
<1>6. CASE deleteVolume
  <2>1. CASE UNCHANGED store
    BY <1>1, <2>1, IdleSteady DEF store
  <2>2. ASSUME NEW v, db' = [db EXCEPT !.vols = Drop(@, v)], UNCHANGED <<queue, left>> PROVE Steady
    BY <2>2, DropSteady
  <2> QED BY <1>3, <1>6, <2>1, <2>2 DEF deleteVolume
<1>7. ASSUME NEW n, CallPlugin(n) PROVE Steady
  BY <1>1, <1>7, InvTypes, SpendLeft, IdleSteady DEF CallPlugin
<1>8. ASSUME NEW v, NEW n, AgentUnpublishes(v, n) PROVE Steady
  BY <1>1, <1>8, IdleSteady DEF AgentUnpublishes, store
<1>9. ASSUME NEW v, NEW n, processUpdates(v, n) PROVE Steady
  <2>1. LeftOK(left') /\ LeftStep(left, left')
    BY <1>1, <1>9, InvTypes, SpendLeft DEF processUpdates
  <2>2. PICK vol, x, w : /\ vol = db.vols[v] /\ w = [vol EXCEPT !.pub = x]
                         /\ x = [vol.pub EXCEPT ![n] = IF @ = "no" THEN @ ELSE "unpublish"]
    OBVIOUS
  <2>3. v \in DOMAIN db.vols /\ vol \in Vol
    BY <1>9, <2>2, StoredVol DEF processUpdates
  <2>4. vol.info => w.info
    BY <2>2, <2>3, VolInfo
  <2>5. SetVolume(v, w)
    BY <1>9, <2>2 DEF processUpdates
  <2> QED BY <2>1, <2>2, <2>3, <2>4, <2>5, SetSteady
<1> QED BY <1>2, <1>4, <1>5, <1>6, <1>7, <1>8, <1>9 DEF Manage, Agents

LEMMA EnforceSteady ==
  ASSUME Invs, Enforce
  PROVE  Steady
<1>1. CASE UNCHANGED <<db, queue, left>>
  BY <1>1, InvTypes, SameLeft, IdleSteady
<1>2. CASE rejectNoncompliantTasks \/ \E v \in updates.vols : rejectVolumeUsers(v)
  <2>1. UNCHANGED <<db, queue, left>>
    BY <1>2 DEF rejectNoncompliantTasks, rejectVolumeUsers
  <2> QED BY <1>1, <2>1
<1>3. ASSUME NEW i, RejectUnfit(i) \/ RejectUser(i) PROVE Steady
  BY <1>1, <1>3, RejectSteady DEF RejectUnfit, RejectUser
<1> QED BY <1>2, <1>3 DEF Enforce

LEMMA OthersSteady ==
  ASSUME Invs, Others
  PROVE  Steady
<1>1. ASSUME NEW x, ChangeService(x) PROVE Steady
  <2>1. PICK d, y : d = db' /\ d = [db EXCEPT !.services[x] = y]
    BY <1>1 DEF ChangeService
  <2>2. d.tasks = db.tasks /\ d.nodes = db.nodes /\ d.vols = db.vols
    BY <2>1, InvTypes DEF IsDb
  <2>3. LeftOK(left') /\ LeftStep(left, left') /\ queue' = queue
    BY <1>1, InvTypes, SpendLeft DEF ChangeService
  <2> QED BY <2>1, <2>2, <2>3, QuietSteady
<1>2. ASSUME NEW v \in left.new, CreateVolume(v) PROVE Steady
  <2>1. PICK m, l : m = left' /\ l = left
    OBVIOUS
  <2>2. /\ DOMAIN m = DOMAIN l /\ m.room = l.room /\ m.of = l.of /\ m.pre = l.pre
        /\ m.prompt = l.prompt /\ m.new = l.new \ {v} /\ m.stale = l.stale
    BY <1>2, <2>1, InvTypes DEF CreateVolume, LeftOK
  <2>3. LeftOK(m) /\ LeftStep(l, m)
    BY <2>1, <2>2, InvTypes DEF LeftOK, RoomOK, LeftStep
  <2>4. SetVolume(v, NewVolume) /\ ~NewVolume.info
    BY <1>2 DEF CreateVolume, NewVolume
  <2> QED BY <2>1, <2>3, <2>4, SetSteady
<1>3. ASSUME NEW v \in DOMAIN db.vols, NEW avail, UpdateVolume(v, avail) PROVE Steady
  <2>1. LeftOK(left') /\ LeftStep(left, left')
    BY <1>3, InvTypes, SpendLeft DEF UpdateVolume
  <2>2. PICK vol, w : vol = db.vols[v] /\ w = [vol EXCEPT !.avail = avail]
    OBVIOUS
  <2>3. vol.info => w.info
    BY <2>2, StoredVol, VolInfo
  <2>4. SetVolume(v, w)
    BY <1>3, <2>2 DEF UpdateVolume
  <2> QED BY <2>1, <2>2, <2>3, <2>4, SetSteady
<1>4. ASSUME NEW v \in DOMAIN db.vols, RemoveVolume(v) PROVE Steady
  <2>1. LeftOK(left') /\ LeftStep(left, left')
    BY <1>4, InvTypes, SpendLeft DEF RemoveVolume
  <2>2. PICK vol, w : vol = db.vols[v] /\ w = [vol EXCEPT !.deleting = TRUE]
    OBVIOUS
  <2>3. vol.info => w.info
    BY <2>2, StoredVol, VolInfo
  <2>4. SetVolume(v, w)
    BY <1>4, <2>2 DEF RemoveVolume
  <2> QED BY <2>1, <2>2, <2>3, <2>4, SetSteady
<1> QED BY <1>1, <1>2, <1>3, <1>4, AllocateSteady, StopSteady, EndSteady, DeleteSteady,
           JoinSteady, UpdatedSteady, RemoveSteady DEF Others

-----------------------------------------------------------------------------
(* The scheduler handles an event                                           *)

Parts(l, d, E, A, N, V) == NodePart(l, d.nodes, E, A, N) /\ VolPart(l, d.vols, E, A, V)

Elsewhere(A, B, i) ==
  \A j : j # i => (j \in DOMAIN B <=> j \in DOMAIN A) /\ (j \in DOMAIN A => B[j] = A[j])

(* A task is forgotten.                                                     *)
LEMMA PartsCleaned ==
  ASSUME NEW l, RoomOK(l), NEW d, NEW E, NEW A, AllOK(l, A), NEW N, NEW V, Parts(l, d, E, A, N, V),
         NEW t, LiveIn(A, t.id) => t.node = A[t.id].node /\ t.vol = A[t.id].vol,
         NEW B, AllOK(l, B), Elsewhere(A, B, t.id), ~LiveIn(B, t.id)
  PROVE  Parts(l, d, E, B, Removed(N, {t}), releaseVolumes(V, {t}))
<1>1. PICK T : T = {t}
  OBVIOUS
<1>2. {u.id : u \in T} = {t.id}
  BY <1>1
<1>3. ASSUME NEW i
      PROVE  /\ LiveIn(B, i) <=> LiveIn(A, i) /\ i # t.id
             /\ LiveIn(B, i) => B[i] = A[i]
  BY DEF Elsewhere, LiveIn
<1>4. Lost(A, B, {u.id : u \in T})
  BY <1>2, <1>3 DEF Lost
<1>5. \A u \in T : LiveIn(A, u.id) => u.node = A[u.id].node /\ u.vol = A[u.id].vol
  BY <1>1
<1>6. NodePic(l, A, N)
  BY DEF Parts, NodePart
<1>7. /\ NodePic(l, B, Removed(N, T)) /\ DOMAIN Removed(N, T) = DOMAIN N
      /\ \A n \in DOMAIN N : Removed(N, T)[n].node = N[n].node
  BY <1>4, <1>5, <1>6, NodesLost
<1>8. NodePart(l, d.nodes, E, B, Removed(N, T))
  BY <1>3, <1>7, NodesCounted DEF Parts
<1>9. VolPart(l, d.vols, E, B, releaseVolumes(V, T))
  BY <1>4, <1>5, VolsLost DEF Parts
<1> QED BY <1>1, <1>8, <1>9 DEF Parts

(* A task is noted that uses nothing.                                       *)
LEMMA PartsNoted ==
  ASSUME NEW l, RoomOK(l), NEW d, NEW E, NEW A, AllOK(l, A), NEW N, NEW V, Parts(l, d, E, A, N, V),
         NEW i, ~LiveIn(A, i), NEW B, AllOK(l, B), Elsewhere(A, B, i), ~LiveIn(B, i)
  PROVE  Parts(l, d, E, B, N, V)
<1>1. ASSUME NEW j
      PROVE  /\ LiveIn(B, j) <=> LiveIn(A, j)
             /\ LiveIn(B, j) => B[j] = A[j]
  BY DEF Elsewhere, LiveIn
<1>2. Lost(A, B, {})
  BY <1>1 DEF Lost
<1>3. NodePic(l, B, N)
  BY <1>2, NodesSame DEF Parts, NodePart
<1>4. NodePart(l, d.nodes, E, B, N)
  BY <1>1, <1>3, NodesCounted DEF Parts
<1>5. VolPart(l, d.vols, E, B, V)
  <2>1. \A j, v : Uses(l, B, j, v) <=> Uses(l, A, j, v)
    BY <1>1 DEF Uses
  <2>2. \A j, v : Uses(l, A, j, v) => B[j].node = A[j].node
    BY <1>1 DEF Uses
  <2> QED BY <2>1, <2>2, VolsSame DEF Parts
<1> QED BY <1>4, <1>5 DEF Parts

LEMMA PartsPassed ==
  ASSUME NEW l, NEW T, NEW d, NEW E, NEW A, NEW N, NEW V, Parts(l, d, E, A, N, V),
         NEW e, NEW F, First(l, T, d.nodes, E, e, F), ofTask(e)
  PROVE  Parts(l, d, F, A, N, V)
<1>1. ~ofNode(e) /\ e.type # "volume"
  BY DEF ofTask, ofNode
<1> QED BY <1>1, NodesPassed, VolsPassed DEF Parts

LEMMA Kept ==
  ASSUME NEW l, NEW f, AllOK(l, f), NEW t, TaskOK(l, t), NEW i, i = t.id, NEW g, g = Put(f, i, t)
  PROVE  /\ AllOK(l, g) /\ Elsewhere(f, g, i)
         /\ DOMAIN g = DOMAIN f \cup {i} /\ g[i] = t
BY DEF AllOK, Elsewhere, Put

Subset(f, g) == \A j \in DOMAIN g : j \in DOMAIN f /\ g[j] = f[j]

LEMMA Less ==
  ASSUME NEW l, NEW f, AllOK(l, f), NEW i, NEW g, g = Restrict(f, DOMAIN f \ {i})
  PROVE  /\ AllOK(l, g) /\ Elsewhere(f, g, i) /\ i \notin DOMAIN g /\ Subset(f, g)
BY DEF AllOK, Elsewhere, Restrict, Subset

(* deleteTask                                                               *)
Forgets(p, t, p2) ==
  /\ IsPicture(p2)
  /\ p2.all = Restrict(p.all, DOMAIN p.all \ {t.id}) /\ p2.unassigned = p.unassigned
  /\ p2.pre = Restrict(p.pre, DOMAIN p.pre \ {t.id})
  /\ p2.nodes = Removed(p.nodes, {t}) /\ p2.vols = releaseVolumes(p.vols, {t})

LEMMA DeletedParts ==
  ASSUME NEW p, IsPicture(p), NEW t, NEW p2, p2 = deleteTask(p, t)
  PROVE  Forgets(p, t, p2)
<1>1. {u.id : u \in {t}} = {t.id}
  OBVIOUS
<1>2. PICK x, y, z, w : /\ x = Restrict(p.all, DOMAIN p.all \ {t.id})
                        /\ y = Restrict(p.pre, DOMAIN p.pre \ {t.id})
                        /\ z = releaseVolumes(p.vols, {t}) /\ w = Removed(p.nodes, {t})
  OBVIOUS
<1>3. p2 = [p EXCEPT !.all = x, !.pre = y, !.vols = z, !.nodes = w]
  BY <1>1, <1>2 DEF deleteTask, deleteTasks, IsPicture
<1> QED BY <1>2, <1>3 DEF IsPicture, Forgets

(* What is noted of a task when an event of it is seen.                     *)
Taken(l, d, F, p, p2, e) ==
  /\ Seen(p, p2, e) /\ Parts(l, d, F, p2.all, p2.nodes, p2.vols)
  /\ AllOK(l, p2.all) /\ AllOK(l, p2.unassigned) /\ AllOK(l, p2.pre)

Handles(l, d, E, p, r, e, F) ==
  /\ LeftOK(l) /\ IsPicture(p) /\ Kinds(l, d.tasks, p, r) /\ r.phase = "idle"
  /\ TaskPart(l, d.tasks, E, p, r) /\ Parts(l, d, E, p.all, p.nodes, p.vols)
  /\ First(l, d.tasks, d.nodes, E, e, F)

(* A task that an event speaks of is where and what the event says.         *)
LEMMA EventHeld ==
  ASSUME NEW l, NEW d, NEW E, NEW p, NEW r, NEW e, NEW F, Handles(l, d, E, p, r, e, F), ofTask(e)
  PROVE  /\ TaskOK(l, e.obj)
         /\ LiveIn(p.all, e.obj.id) =>
              /\ p.all[e.obj.id].node = e.obj.node /\ p.all[e.obj.id].vol = e.obj.vol
              /\ e.obj.wanted => p.all[e.obj.id].wanted
         /\ e.type = "task" /\ Live(e.obj) => LiveIn(p.all, e.obj.id)
         /\ e.type = "task" /\ e.obj.state <= TaskStatePending => ~LiveIn(p.all, e.obj.id)
<1>1. TaskPart(l, d.tasks, E, p, r) /\ r.phase = "idle" /\ e \in E /\ EventFine(l, d.tasks, d.nodes, e)
  BY DEF Handles, First
<1>2. PICK i : i = e.obj.id
  OBVIOUS
<1>3. Held(p, r, i) <=> LiveIn(p.all, i)
  BY <1>1, IdleHeld
<1>4. ASSUME LiveIn(p.all, i)
      PROVE  /\ p.all[i].node = e.obj.node /\ p.all[i].vol = e.obj.vol
             /\ e.obj.wanted => p.all[i].wanted
  <2>1. HeldOK(d.tasks, E, p, r, i)
    BY <1>1, <1>3, <1>4 DEF TaskPart
  <2>2. Follows(p.all[i], e.obj)
    BY <1>1, <1>2, <2>1 DEF HeldOK, About
  <2> QED BY <2>2 DEF Follows
<1>5. e.type = "task" /\ Live(e.obj) => LiveIn(p.all, i)
  BY <1>1, <1>2, <1>3 DEF TaskPart
<1>6. ASSUME e.type = "task", e.obj.state <= TaskStatePending PROVE ~LiveIn(p.all, i)
  <2>1. ~Live(e.obj)
    BY <1>6 DEF Live, TaskStatePending, TaskStateAssigned
  <2>2. ~Held(p, r, e.obj.id)
    BY <1>1, <1>6, <2>1, NotLater DEF Handles
  <2> QED BY <1>2, <1>3, <2>2
<1>7. TaskOK(l, e.obj)
  BY <1>1 DEF EventFine
<1> QED BY <1>2, <1>4, <1>5, <1>6, <1>7

LEMMA HandleGone ==
  ASSUME NEW l, NEW d, NEW E, NEW p, NEW r, NEW e, NEW F, Handles(l, d, E, p, r, e, F),
         e.type = "gone", NEW p2, p2 = deleteTask(p, e.obj)
  PROVE  Taken(l, d, F, p, p2, e)
<1>1. ofTask(e) /\ RoomOK(l) /\ AllOK(l, p.all) /\ AllOK(l, p.unassigned) /\ AllOK(l, p.pre)
  BY DEF ofTask, Handles, LeftOK, Kinds
<1>2. PICK t, i : t = e.obj /\ i = t.id
  OBVIOUS
<1>3. /\ p2.all = Restrict(p.all, DOMAIN p.all \ {i}) /\ p2.unassigned = p.unassigned
      /\ p2.pre = Restrict(p.pre, DOMAIN p.pre \ {i})
      /\ p2.nodes = Removed(p.nodes, {t}) /\ p2.vols = releaseVolumes(p.vols, {t})
  <2>1. Forgets(p, t, p2)
    BY <1>2, DeletedParts DEF Handles
  <2> QED BY <1>2, <2>1 DEF Forgets
<1>4. /\ AllOK(l, p2.all) /\ Elsewhere(p.all, p2.all, i) /\ i \notin DOMAIN p2.all
      /\ AllOK(l, p2.pre) /\ Subset(p.pre, p2.pre)
  BY <1>1, <1>3, Less
<1>5. ~LiveIn(p2.all, i)
  BY <1>4 DEF LiveIn
<1>6. LiveIn(p.all, i) => t.node = p.all[i].node /\ t.vol = p.all[i].vol
  BY <1>1, <1>2, EventHeld
<1>7. Parts(l, d, F, p.all, p.nodes, p.vols)
  BY <1>1, PartsPassed DEF Handles
<1>8. Parts(l, d, F, p2.all, p2.nodes, p2.vols)
  <2>1. PICK A, B, N, V : A = p.all /\ B = p2.all /\ N = p.nodes /\ V = p.vols
    OBVIOUS
  <2>2. /\ AllOK(l, A) /\ AllOK(l, B) /\ Parts(l, d, F, A, N, V) /\ RoomOK(l)
        /\ Elsewhere(A, B, t.id) /\ ~LiveIn(B, t.id)
        /\ LiveIn(A, t.id) => t.node = A[t.id].node /\ t.vol = A[t.id].vol
    BY <1>1, <1>2, <1>4, <1>5, <1>6, <1>7, <2>1
  <2>3. Parts(l, d, F, B, Removed(N, {t}), releaseVolumes(V, {t}))
    BY <2>2, PartsCleaned
  <2> QED BY <1>3, <2>1, <2>3
<1>9. Seen(p, p2, e)
  BY <1>2, <1>3, <1>4, <1>5 DEF Seen, Waits, Elsewhere, Subset
<1> QED BY <1>1, <1>3, <1>4, <1>8, <1>9 DEF Taken

(* updateTask forgets what it knew of a task that is over or waits.         *)
Cleaned(l, d, F, p, i, c) ==
  /\ IsPicture(c) /\ Parts(l, d, F, c.all, c.nodes, c.vols) /\ c.unassigned = p.unassigned
  /\ AllOK(l, c.all) /\ Elsewhere(p.all, c.all, i) /\ i \notin DOMAIN c.all
  /\ AllOK(l, c.pre) /\ Subset(p.pre, c.pre)

LEMMA Clean ==
  ASSUME NEW l, NEW d, NEW E, NEW p, NEW r, NEW e, NEW F, Handles(l, d, E, p, r, e, F),
         e.type = "task", NEW i, i = e.obj.id,
         NEW c, c = IF i \in DOMAIN p.all THEN deleteTask(p, p.all[i]) ELSE p
  PROVE  Cleaned(l, d, F, p, i, c)
<1>1. ofTask(e) /\ RoomOK(l) /\ AllOK(l, p.all) /\ AllOK(l, p.unassigned) /\ AllOK(l, p.pre)
      /\ IsPicture(p)
  BY DEF ofTask, Handles, LeftOK, Kinds
<1>2. Parts(l, d, F, p.all, p.nodes, p.vols)
  BY <1>1, PartsPassed DEF Handles
<1>3. CASE i \notin DOMAIN p.all
  BY <1>1, <1>2, <1>3 DEF Cleaned, Elsewhere, Subset
<1>4. CASE i \in DOMAIN p.all
  <2>1. PICK t : t = p.all[i]
    OBVIOUS
  <2>2. t.id = i
    BY <1>1, <1>4, <2>1 DEF AllOK
  <2>3. /\ c.all = Restrict(p.all, DOMAIN p.all \ {i}) /\ c.unassigned = p.unassigned
        /\ c.pre = Restrict(p.pre, DOMAIN p.pre \ {i}) /\ IsPicture(c)
        /\ c.nodes = Removed(p.nodes, {t}) /\ c.vols = releaseVolumes(p.vols, {t})
    <3>1. c = deleteTask(p, t)
      BY <1>4, <2>1
    <3>2. Forgets(p, t, c)
      BY <1>1, <3>1, DeletedParts
    <3> QED BY <2>2, <3>2 DEF Forgets
  <2>4. /\ AllOK(l, c.all) /\ Elsewhere(p.all, c.all, i) /\ i \notin DOMAIN c.all
        /\ AllOK(l, c.pre) /\ Subset(p.pre, c.pre)
    BY <1>1, <2>3, Less
  <2>5. ~LiveIn(c.all, t.id) /\ i \notin DOMAIN c.all
    BY <2>2, <2>4 DEF LiveIn
  <2>6. LiveIn(p.all, t.id) => t.node = p.all[t.id].node /\ t.vol = p.all[t.id].vol
    BY <2>1, <2>2
  <2>7. Parts(l, d, F, c.all, c.nodes, c.vols)
    <3>1. PICK A, B, N, V : A = p.all /\ B = c.all /\ N = p.nodes /\ V = p.vols
      OBVIOUS
    <3>2. /\ AllOK(l, A) /\ AllOK(l, B) /\ Parts(l, d, F, A, N, V) /\ RoomOK(l)
          /\ Elsewhere(A, B, t.id) /\ ~LiveIn(B, t.id)
          /\ LiveIn(A, t.id) => t.node = A[t.id].node /\ t.vol = A[t.id].vol
      BY <1>1, <1>2, <2>2, <2>4, <2>5, <2>6, <3>1
    <3>3. Parts(l, d, F, B, Removed(N, {t}), releaseVolumes(V, {t}))
      BY <3>2, PartsCleaned
    <3> QED BY <2>3, <3>1, <3>3
  <2> QED BY <2>3, <2>4, <2>5, <2>7 DEF Cleaned
<1> QED BY <1>3, <1>4

(* A task that waits is noted.                                              *)
LEMMA WaitNoted ==
  ASSUME NEW l, NEW d, NEW E, NEW p, NEW r, NEW e, NEW F, Handles(l, d, E, p, r, e, F),
         e.type = "task", e.obj.state = TaskStatePending,
         NEW i, i = e.obj.id, NEW c, Cleaned(l, d, F, p, i, c),
         NEW p2, p2.all = Put(c.all, i, e.obj), p2.vols = c.vols, p2.nodes = c.nodes,
         \/ p2.unassigned = Put(c.unassigned, i, e.obj) /\ p2.pre = c.pre
         \/ p2.unassigned = c.unassigned /\ p2.pre = Put(c.pre, i, e.obj)
  PROVE  Taken(l, d, F, p, p2, e)
<1>1. ofTask(e) /\ RoomOK(l) /\ AllOK(l, p.unassigned) /\ AllOK(l, p.pre)
  BY DEF ofTask, Handles, LeftOK, Kinds
<1>2. PICK t : t = e.obj
  OBVIOUS
<1>3. TaskOK(l, t) /\ ~Live(t) /\ i = t.id
  BY <1>1, <1>2, EventHeld DEF Live, TaskStatePending, TaskStateAssigned
<1>4. /\ IsPicture(c) /\ Parts(l, d, F, c.all, c.nodes, c.vols) /\ c.unassigned = p.unassigned
      /\ AllOK(l, c.all) /\ Elsewhere(p.all, c.all, i) /\ i \notin DOMAIN c.all
      /\ AllOK(l, c.pre) /\ Subset(p.pre, c.pre)
  BY DEF Cleaned
<1>5. PICK A, U, P, V, N : A = c.all /\ U = c.unassigned /\ P = c.pre /\ V = c.vols /\ N = c.nodes
  OBVIOUS
<1>6. PICK B, X, Y : B = Put(A, i, t) /\ X = Put(U, i, t) /\ Y = Put(P, i, t)
  OBVIOUS
<1>8. /\ p2.all = B /\ p2.vols = V /\ p2.nodes = N
      /\ \/ p2.unassigned = X /\ p2.pre = P
         \/ p2.unassigned = U /\ p2.pre = Y
  BY <1>2, <1>5, <1>6
<1>9. /\ AllOK(l, B) /\ Elsewhere(A, B, i) /\ B[i] = t
      /\ AllOK(l, X) /\ Elsewhere(U, X, i) /\ X[i] = t
      /\ AllOK(l, Y) /\ Elsewhere(P, Y, i) /\ Y[i] = t
  <2>1. AllOK(l, A) /\ AllOK(l, U) /\ AllOK(l, P)
    BY <1>1, <1>4, <1>5
  <2>2. AllOK(l, B) /\ Elsewhere(A, B, i) /\ B[i] = t
    BY <1>3, <1>6, <2>1 DEF AllOK, Elsewhere, Put
  <2>3. AllOK(l, X) /\ Elsewhere(U, X, i) /\ X[i] = t
    BY <1>3, <1>6, <2>1 DEF AllOK, Elsewhere, Put
  <2>4. AllOK(l, Y) /\ Elsewhere(P, Y, i) /\ Y[i] = t
    BY <1>3, <1>6, <2>1 DEF AllOK, Elsewhere, Put
  <2> QED BY <2>2, <2>3, <2>4
<1>10. ~LiveIn(A, i) /\ ~LiveIn(B, i)
  BY <1>3, <1>4, <1>5, <1>9 DEF LiveIn
<1>11. Parts(l, d, F, B, N, V)
  BY <1>1, <1>4, <1>5, <1>9, <1>10, PartsNoted
<1>12. Waits(p.unassigned, X, e) /\ Waits(p.unassigned, U, e) /\ Waits(p.pre, Y, e) /\ Waits(p.pre, P, e)
  <2>1. p.unassigned = U /\ Subset(p.pre, P) /\ i = e.obj.id
    BY <1>4, <1>5
  <2>2. Waits(p.unassigned, U, e) /\ Waits(p.unassigned, X, e)
    BY <1>2, <1>9, <2>1 DEF Waits, Elsewhere
  <2>3. Waits(p.pre, P, e)
    BY <2>1 DEF Waits, Subset
  <2>4. Waits(p.pre, Y, e)
    BY <1>2, <1>9, <2>1 DEF Waits, Elsewhere, Subset
  <2> QED BY <2>2, <2>3, <2>4
<1>13. Elsewhere(p.all, B, i)
  BY <1>4, <1>5, <1>9 DEF Elsewhere
<1>14. Seen(p, p2, e)
  BY <1>2, <1>3, <1>8, <1>10, <1>12, <1>13 DEF Seen, Elsewhere
<1> QED BY <1>1, <1>4, <1>5, <1>8, <1>9, <1>11, <1>14 DEF Taken

LEMMA LiveTaken ==
  ASSUME NEW l, NEW d, NEW E, NEW p, NEW r, NEW e, NEW F, Handles(l, d, E, p, r, e, F),
         e.type = "task", NEW t, t = e.obj, Live(t),
         NEW p2, p2 = [p EXCEPT !.all = Put(p.all, t.id, t), !.nodes = Added(p.nodes, t)]
  PROVE  Taken(l, d, F, p, p2, e)
<1>1. /\ ofTask(e) /\ RoomOK(l) /\ AllOK(l, p.all) /\ AllOK(l, p.unassigned) /\ AllOK(l, p.pre)
      /\ IsPicture(p)
  BY DEF ofTask, Handles, LeftOK, Kinds
<1>2. Parts(l, d, F, p.all, p.nodes, p.vols)
  BY <1>1, PartsPassed DEF Handles
<1>3. PICK i, A, N, V : i = t.id /\ A = p.all /\ N = p.nodes /\ V = p.vols
  OBVIOUS
<1>4. /\ TaskOK(l, t) /\ LiveIn(A, i) /\ A[i].node = t.node /\ A[i].vol = t.vol
      /\ t.wanted => A[i].wanted
  BY <1>1, <1>3, EventHeld
<1>5. PICK B, M : B = Put(A, i, t) /\ M = Added(N, t)
  OBVIOUS
<1>6. /\ p2.all = B /\ p2.nodes = M /\ p2.vols = V /\ p2.unassigned = p.unassigned /\ p2.pre = p.pre
  BY <1>1, <1>3, <1>5 DEF IsPicture
<1>7. AllOK(l, B) /\ Elsewhere(A, B, i) /\ DOMAIN B = DOMAIN A \cup {i} /\ B[i] = t
  BY <1>1, <1>3, <1>4, <1>5, Kept
<1>8. NodePic(l, B, M) /\ DOMAIN M = DOMAIN N /\ \A n \in DOMAIN N : M[n].node = N[n].node
  <2>1. NodePic(l, A, N)
    BY <1>2, <1>3 DEF Parts, NodePart
  <2> QED BY <1>1, <1>3, <1>4, <1>5, <2>1, NodesUpdated
<1>9. ASSUME NEW j
      PROVE  /\ LiveIn(B, j) <=> LiveIn(A, j)
             /\ LiveIn(B, j) => B[j].node = A[j].node /\ B[j].vol = A[j].vol
  BY <1>4, <1>7 DEF LiveIn, Elsewhere
<1>10. NodePart(l, d.nodes, F, B, M)
  BY <1>2, <1>3, <1>8, <1>9, NodesCounted DEF Parts
<1>11. VolPart(l, d.vols, F, B, V)
  <2>1. \A j, v : Uses(l, B, j, v) <=> Uses(l, A, j, v)
    BY <1>9 DEF Uses
  <2>2. \A j, v : Uses(l, A, j, v) => B[j].node = A[j].node
    BY <1>9 DEF Uses
  <2> QED BY <1>2, <1>3, <2>1, <2>2, VolsSame DEF Parts
<1>12. Seen(p, p2, e)
  BY <1>3, <1>6, <1>7 DEF Seen, Waits, Elsewhere
<1> QED BY <1>1, <1>6, <1>7, <1>10, <1>11, <1>12 DEF Taken, Parts

LEMMA HandleTask ==
  ASSUME NEW l, NEW d, NEW E, NEW p, NEW r, NEW e, NEW F, Handles(l, d, E, p, r, e, F),
         e.type = "task", NEW p2, p2 = updateTask(p, e.obj).s
  PROVE  Taken(l, d, F, p, p2, e)
<1>1. PICK t : t = e.obj
  OBVIOUS
<1> DEFINE known == t.id \in DOMAIN p.all
           clean == IF known THEN deleteTask(p, p.all[t.id]) ELSE p
           kept == [clean EXCEPT !.all = Put(@, t.id, t)]
<1>2. /\ ofTask(e) /\ RoomOK(l) /\ AllOK(l, p.all) /\ AllOK(l, p.unassigned) /\ AllOK(l, p.pre)
  BY DEF ofTask, Handles, LeftOK, Kinds
<1>3. PICK c, k : c = clean /\ k = kept
  OBVIOUS
<1>4. CASE t.state = TaskStateNew
  <2>1. p2 = p
    BY <1>1, <1>4 DEF updateTask, TaskStateNew, TaskStateDead, TaskStatePending
  <2>2. ~Live(t) /\ t.state <= TaskStatePending
    BY <1>4 DEF Live, TaskStateNew, TaskStatePending, TaskStateAssigned
  <2>3. ~LiveIn(p.all, t.id)
    BY <1>1, <1>2, <2>2, EventHeld
  <2>4. Parts(l, d, F, p.all, p.nodes, p.vols)
    BY <1>2, PartsPassed DEF Handles
  <2>5. Seen(p, p2, e)
    BY <1>1, <2>1, <2>2, <2>3 DEF Seen, Waits
  <2> QED BY <1>2, <2>1, <2>4, <2>5 DEF Taken
<1>5. CASE t.state = TaskStateDead
  <2>1. p2 = c
    BY <1>1, <1>3, <1>5 DEF updateTask, TaskStateNew, TaskStateDead, TaskStatePending
  <2>2. ~Live(t)
    BY <1>5 DEF Live, TaskStateDead, TaskStateAssigned
  <2>3. PICK i : i = t.id
    OBVIOUS
  <2>4. /\ Parts(l, d, F, c.all, c.nodes, c.vols) /\ c.unassigned = p.unassigned
        /\ AllOK(l, c.all) /\ Elsewhere(p.all, c.all, i) /\ i \notin DOMAIN c.all
        /\ AllOK(l, c.pre) /\ Subset(p.pre, c.pre)
    <3> HIDE DEF kept
    <3>1. c = IF i \in DOMAIN p.all THEN deleteTask(p, p.all[i]) ELSE p
      BY <1>3, <2>3
    <3>2. Cleaned(l, d, F, p, i, c)
      BY <1>1, <2>3, <3>1, Clean
    <3> QED BY <3>2 DEF Cleaned
  <2>5. Seen(p, p2, e)
    BY <1>1, <2>1, <2>2, <2>3, <2>4 DEF Seen, Waits, Elsewhere, Subset, LiveIn
  <2> QED BY <1>2, <2>1, <2>4, <2>5 DEF Taken
<1>6. CASE t.state = TaskStatePending
  <2>1. \/ p2 = [k EXCEPT !.unassigned = Put(@, t.id, t)]
        \/ p2 = [k EXCEPT !.pre = Put(@, t.id, t)]
    <3>1. CASE t.node = None
      BY <1>1, <1>3, <1>6, <3>1 DEF updateTask, TaskStateNew, TaskStateDead, TaskStatePending
    <3>2. CASE t.node # None
      BY <1>1, <1>3, <1>6, <3>2, SMTT(20) DEF updateTask, TaskStateNew, TaskStateDead, TaskStatePending
    <3> QED BY <3>1, <3>2
  <2>2. k = [c EXCEPT !.all = Put(@, t.id, t)] /\ e.obj.state = TaskStatePending
    BY <1>1, <1>3, <1>6
  <2>3. PICK i : i = t.id
    OBVIOUS
  <2>4. Cleaned(l, d, F, p, i, c)
    <3> HIDE DEF kept
    <3>1. c = IF i \in DOMAIN p.all THEN deleteTask(p, p.all[i]) ELSE p
      BY <1>3, <2>3
    <3> QED BY <1>1, <2>3, <3>1, Clean
  <2> HIDE DEF known, clean, kept
  <2>5. /\ IsPicture(k) /\ k.all = Put(c.all, i, t) /\ k.vols = c.vols /\ k.nodes = c.nodes
        /\ k.unassigned = c.unassigned /\ k.pre = c.pre
    BY <2>2, <2>3, <2>4 DEF Cleaned, IsPicture
  <2>6. /\ p2.all = Put(c.all, i, t) /\ p2.vols = c.vols /\ p2.nodes = c.nodes
        /\ \/ p2.unassigned = Put(c.unassigned, i, t) /\ p2.pre = c.pre
           \/ p2.unassigned = c.unassigned /\ p2.pre = Put(c.pre, i, t)
    BY <2>1, <2>3, <2>5 DEF IsPicture
  <2> QED BY <1>1, <2>2, <2>3, <2>4, <2>6, WaitNoted
<1>7. CASE t.state = TaskStateAssigned
  <2>1. p2 = [p EXCEPT !.all = Put(p.all, t.id, t), !.nodes = Added(p.nodes, t)]
    BY <1>1, <1>7 DEF updateTask, TaskStateNew, TaskStateDead, TaskStatePending, TaskStateAssigned
  <2> QED BY <1>1, <1>7, <2>1, LiveTaken DEF Live
<1>8. t.state \in {TaskStateNew, TaskStatePending, TaskStateAssigned, TaskStateDead}
  <2>1. t.state \in TaskStateNew..TaskStateDead
    BY <1>1, <1>2, EventHeld DEF TaskOK, IsTask
  <2> QED BY <2>1 DEF TaskStateNew, TaskStatePending, TaskStateAssigned, TaskStateDead
<1> QED BY <1>4, <1>5, <1>6, <1>7, <1>8

(* Any event.                                                               *)
Settled(l, d, F, p2, r2) ==
  /\ Kinds(l, d.tasks, p2, r2) /\ TaskPart(l, d.tasks, F, p2, r2)
  /\ Parts(l, d, F, p2.all, p2.nodes, p2.vols)

LEMMA TakenSettled ==
  ASSUME NEW l, NEW d, NEW E, NEW p, NEW r, NEW e, NEW F, Handles(l, d, E, p, r, e, F), ofTask(e),
         NEW p2, Taken(l, d, F, p, p2, e), NEW r2, r2.phase = "idle"
  PROVE  Settled(l, d, F, p2, r2)
<1>1. Kinds(l, d.tasks, p2, r2)
  BY DEF Handles, Kinds, Taken
<1>2. TaskPart(l, d.tasks, F, p2, r2)
  BY TasksSeen DEF Handles, Taken
<1> QED BY <1>1, <1>2 DEF Settled, Taken

LEMMA OtherSettled ==
  ASSUME NEW l, NEW d, NEW E, NEW p, NEW r, NEW e, NEW F, Handles(l, d, E, p, r, e, F), ~ofTask(e),
         NEW p2, p2.all = p.all, p2.unassigned = p.unassigned, p2.pre = p.pre,
         Parts(l, d, F, p.all, p2.nodes, p2.vols), NEW r2, r2.phase = "idle"
  PROVE  Settled(l, d, F, p2, r2)
<1>1. Kinds(l, d.tasks, p2, r2)
  BY DEF Handles, Kinds
<1>2. TaskPart(l, d.tasks, F, p2, r2)
  BY TasksPassed DEF Handles
<1> QED BY <1>1, <1>2 DEF Settled

LEMMA HandleNode ==
  ASSUME NEW l, NEW d, NEW E, NEW p, NEW r, NEW e, NEW F, Handles(l, d, E, p, r, e, F),
         e.type = "node", NEW p2, p2 = createOrUpdateNode(p, e.obj), NEW r2, r2.phase = "idle"
  PROVE  Settled(l, d, F, p2, r2)
<1>1. ~ofTask(e) /\ RoomOK(l) /\ AllOK(l, p.all) /\ IsPicture(p)
  BY DEF ofTask, Handles, LeftOK, Kinds
<1>2. PICK M : M = NodePut(p.nodes, e.obj)
  OBVIOUS
<1>3. p2 = [p EXCEPT !.nodes = M]
  BY <1>2 DEF createOrUpdateNode, NodePut, Renewed
<1>4. /\ p2.all = p.all /\ p2.unassigned = p.unassigned /\ p2.pre = p.pre /\ p2.vols = p.vols
      /\ p2.nodes = M
  BY <1>1, <1>3 DEF IsPicture
<1>5. NodePart(l, d.nodes, F, p.all, M)
  BY <1>1, <1>2, NodesPut DEF Handles, Parts
<1>6. VolPart(l, d.vols, F, p.all, p.vols)
  BY VolsPassed DEF Handles, Parts
<1> QED BY <1>1, <1>4, <1>5, <1>6, OtherSettled DEF Parts

LEMMA HandleNodeGone ==
  ASSUME NEW l, NEW d, NEW E, NEW p, NEW r, NEW e, NEW F, Handles(l, d, E, p, r, e, F),
         e.type = "nodegone", NEW p2, p2 = [p EXCEPT !.nodes = Drop(@, e.obj)],
         NEW r2, r2.phase = "idle"
  PROVE  Settled(l, d, F, p2, r2)
<1>1. ~ofTask(e) /\ IsPicture(p)
  BY DEF ofTask, Handles
<1>2. PICK M : M = Drop(p.nodes, e.obj)
  OBVIOUS
<1>4. /\ p2.all = p.all /\ p2.unassigned = p.unassigned /\ p2.pre = p.pre /\ p2.vols = p.vols
      /\ p2.nodes = M
  BY <1>1, <1>2 DEF IsPicture
<1>5. NodePart(l, d.nodes, F, p.all, M)
  BY <1>2, NodesDrop DEF Handles, Parts
<1>6. VolPart(l, d.vols, F, p.all, p.vols)
  BY VolsPassed DEF Handles, Parts
<1> QED BY <1>1, <1>4, <1>5, <1>6, OtherSettled DEF Parts

LEMMA HandleVolume ==
  ASSUME NEW l, NEW d, NEW E, NEW p, NEW r, NEW e, NEW F, Handles(l, d, E, p, r, e, F),
         e.type = "volume", NEW p2, p2 = addOrUpdateVolume(p, e.obj.id, e.obj.vol),
         NEW r2, r2.phase = "idle"
  PROVE  Settled(l, d, F, p2, r2)
<1>1. ~ofTask(e) /\ ~ofNode(e) /\ IsPicture(p)
  BY DEF ofTask, ofNode, Handles
<1>2. PICK V : V = VolPut(p.vols, e.obj.id, e.obj.vol)
  OBVIOUS
<1>3. /\ p2.all = p.all /\ p2.unassigned = p.unassigned /\ p2.pre = p.pre /\ p2.vols = V
      /\ p2.nodes = p.nodes
  <2>1. CASE e.obj.id \in DOMAIN p.vols \/ ~e.obj.vol.info
    <3>1. p2 = p /\ V = p.vols
      BY <1>2, <2>1 DEF addOrUpdateVolume, VolPut
    <3> QED BY <3>1
  <2>2. CASE ~(e.obj.id \in DOMAIN p.vols \/ ~e.obj.vol.info)
    <3>1. p2 = [p EXCEPT !.vols = V]
      BY <1>2, <2>2 DEF addOrUpdateVolume, VolPut
    <3> QED BY <1>1, <3>1 DEF IsPicture
  <2> QED BY <2>1, <2>2
<1>5. NodePart(l, d.nodes, F, p.all, p.nodes)
  BY <1>1, NodesPassed DEF Handles, Parts
<1>6. VolPart(l, d.vols, F, p.all, V)
  BY <1>2, VolsSeen DEF Handles, Parts
<1> QED BY <1>1, <1>3, <1>5, <1>6, OtherSettled DEF Parts

LEMMA HandleSettled ==
  ASSUME NEW l, NEW d, NEW E, NEW p, NEW r, NEW e, NEW F, Handles(l, d, E, p, r, e, F),
         NEW p2, p2 = handle(p, e).s, NEW r2, r2.phase = "idle"
  PROVE  Settled(l, d, F, p2, r2)
<1>1. e.type \in EventTypes
  BY DEF Handles, First, EventFine
<1>2. CASE e.type = "task"
  <2>1. p2 = updateTask(p, e.obj).s /\ ofTask(e)
    BY <1>2 DEF handle, ofTask
  <2> QED BY <1>2, <2>1, HandleTask, TakenSettled
<1>3. CASE e.type = "gone"
  <2>1. p2 = deleteTask(p, e.obj) /\ ofTask(e)
    BY <1>3 DEF handle, ofTask
  <2> QED BY <1>3, <2>1, HandleGone, TakenSettled
<1>4. CASE e.type = "node"
  <2>1. p2 = createOrUpdateNode(p, e.obj)
    BY <1>4 DEF handle
  <2> QED BY <1>4, <2>1, HandleNode
<1>5. CASE e.type = "nodegone"
  <2>1. p2 = [p EXCEPT !.nodes = Drop(@, e.obj)]
    BY <1>5 DEF handle
  <2> QED BY <1>5, <2>1, HandleNodeGone
<1>6. CASE e.type = "volume"
  <2>1. p2 = addOrUpdateVolume(p, e.obj.id, e.obj.vol)
    BY <1>6 DEF handle
  <2> QED BY <1>6, <2>1, HandleVolume
<1> QED BY <1>1, <1>2, <1>3, <1>4, <1>5, <1>6 DEF EventTypes

LEMMA HandlePic ==
  ASSUME Invs, Handle, Pic(left, db, queue, s, run)
  PROVE  Pic(left', db', queue', s', run')
<1>1. PICK l, d, q, p, r, w, e, E, F, p2, r2 :
        /\ l = left /\ d = db /\ q = queue /\ p = s /\ r = run /\ p2 = s' /\ r2 = run'
        /\ w = Tail(q) /\ e = Head(q) /\ E = Range(q) /\ F = Range(w)
  OBVIOUS
<1>2. /\ LeftOK(l) /\ IsPicture(p) /\ IsRun(r)
  BY <1>1, InvTypes DEF PictureOK, RunOK
<1>3. /\ r.phase = "idle" /\ q # <<>> /\ queue' = w /\ db' = d /\ left' = l
      /\ p2 = handle(p, e).s /\ \E x : r2 = [r EXCEPT !.timer = TRUE, !.tick = x]
  BY <1>1 DEF Handle
<1>4. r2.phase = "idle"
  BY <1>2, <1>3 DEF IsRun
<1>5. Pic(l, d, q, p, r)
  BY <1>1
<1>6. QueueInv(l, d.tasks, d.nodes, w) /\ First(l, d.tasks, d.nodes, E, e, F)
  <2>1. PICK T, D : T = d.tasks /\ D = d.nodes
    OBVIOUS
  <2>2. QueueInv(l, T, D, q)
    BY <1>5, <2>1 DEF Pic
  <2> QED BY <1>1, <1>3, <2>1, <2>2, QueueFirst
<1>7. Handles(l, d, E, p, r, e, F)
  BY <1>1, <1>2, <1>3, <1>5, <1>6 DEF Handles, Pic, Parts
<1>8. Settled(l, d, F, p2, r2)
  BY <1>3, <1>4, <1>7, HandleSettled
<1>9. Pic(l, d, w, p2, r2)
  BY <1>1, <1>6, <1>8 DEF Pic, Settled, Parts
<1> QED BY <1>1, <1>3, <1>9

-----------------------------------------------------------------------------
(* A pass begins                                                            *)

LEMMA EmptyOK == \A l : AllOK(l, Empty) /\ \A i : i \notin DOMAIN Empty
BY DEF AllOK, Empty

LEMMA PicStarted ==
  ASSUME NEW l, NEW d, NEW q, NEW p, NEW r, Pic(l, d, q, p, r), r.phase = "idle",
         NEW p2, p2.all = p.all, p2.pre = p.pre, p2.nodes = p.nodes, p2.vols = p.vols,
         p2.unassigned \in {p.unassigned, Empty},
         NEW r2, r2.phase = "plan", r2.dec = Empty, r2.todo \in {p.unassigned, p.pre},
         \A e \in Range(q) : e.type = "task" /\ e.own => l.pre[e.obj.id] # None /\ r2.job = "tick"
  PROVE  Pic(l, d, q, p2, r2)
<1>1. Kinds(l, d.tasks, p2, r2)
  BY EmptyOK DEF Pic, Kinds
<1>2. PICK T, E : T = d.tasks /\ E = Range(q)
  OBVIOUS
<1>3. TaskPart(l, T, E, p, r)
  BY <1>2 DEF Pic
<1>4. TaskPart(l, T, E, p2, r2)
  BY <1>2, <1>3, TasksStarted
<1> QED BY <1>1, <1>2, <1>4 DEF Pic

LEMMA PicIdle ==
  ASSUME NEW l, NEW d, NEW q, NEW p, NEW r, Pic(l, d, q, p, r), r.phase = "idle",
         NEW r2, r2.phase = "idle"
  PROVE  Pic(l, d, q, p, r2)
<1>1. Kinds(l, d.tasks, p, r2)
  BY DEF Pic, Kinds
<1>2. PICK T, E : T = d.tasks /\ E = Range(q)
  OBVIOUS
<1>3. TaskPart(l, T, E, p, r)
  BY <1>2 DEF Pic
<1>4. \A i : ~Claimed(r, i) /\ ~Claimed(r2, i) /\ (Held(p, r, i) <=> Held(p, r2, i))
  BY DEF Claimed, Held
<1>5. \A i : HeldOK(T, E, p, r, i) => HeldOK(T, E, p, r2, i)
  BY DEF HeldOK
<1>6. \A e : BehindOK(l, p, r, e) => BehindOK(l, p, r2, e)
  BY <1>4 DEF BehindOK
<1>7. TaskPart(l, T, E, p, r2)
  BY <1>3, <1>4, <1>5, <1>6 DEF TaskPart
<1> QED BY <1>1, <1>2, <1>7 DEF Pic

LEMMA SchedulePic ==
  ASSUME Invs, left.prompt, Schedule, Pic(left, db, queue, s, run)
  PROVE  Pic(left', db', queue', s', run')
<1>1. PICK l, d, q, p, r, p2, r2, r1 :
        /\ l = left /\ d = db /\ q = queue /\ p = s /\ r = run /\ p2 = s' /\ r2 = run'
        /\ r1 = [run EXCEPT !.timer = FALSE]
  OBVIOUS
<1>2. IsPicture(p) /\ IsRun(r)
  BY <1>1, InvTypes DEF PictureOK, RunOK
<1>3. /\ r.phase = "idle" /\ \A a \in DOMAIN q : ~q[a].own
      /\ \/ r2 = Planning(r1, "pre", p.pre) /\ p2 = p
         \/ p2 = [p EXCEPT !.unassigned = Empty] /\ r2 = Planning(r1, "tick", p.unassigned)
         \/ r2 = r1 /\ p2 = p
  BY <1>1 DEF Schedule, StartTick
<1>4. IsRun(r1) /\ r1.phase = "idle"
  BY <1>1, <1>2, <1>3 DEF IsRun
<1>5. \A e \in Range(q) : ~e.own
  BY <1>3 DEF Range
<1>6. Pic(l, d, q, p, r)
  BY <1>1
<1>7. left' = l /\ db' = d /\ queue' = q
  BY <1>1 DEF Schedule, store
<1> SUFFICES Pic(l, d, q, p2, r2)
  BY <1>1, <1>7
<1>8. CASE r2 = Planning(r1, "pre", p.pre) /\ p2 = p
  <2>1. r2.phase = "plan" /\ r2.dec = Empty /\ r2.todo = p.pre
    BY <1>4, <1>8 DEF Planning, IsRun
  <2> QED BY <1>3, <1>5, <1>6, <1>8, <2>1, PicStarted
<1>9. CASE p2 = [p EXCEPT !.unassigned = Empty] /\ r2 = Planning(r1, "tick", p.unassigned)
  <2>1. r2.phase = "plan" /\ r2.dec = Empty /\ r2.todo = p.unassigned
    BY <1>4, <1>9 DEF Planning, IsRun
  <2>2. /\ p2.all = p.all /\ p2.pre = p.pre /\ p2.nodes = p.nodes /\ p2.vols = p.vols
        /\ p2.unassigned = Empty
    BY <1>2, <1>9 DEF IsPicture
  <2> QED BY <1>3, <1>5, <1>6, <2>1, <2>2, PicStarted
<1>10. CASE r2 = r1 /\ p2 = p
  BY <1>3, <1>4, <1>6, <1>10, PicIdle
<1> QED BY <1>3, <1>8, <1>9, <1>10

-----------------------------------------------------------------------------
(* The scheduler decides on a task                                          *)

Plans(l, d, q, p, r, i, t) ==
  /\ LeftOK(l) /\ IsPicture(p) /\ IsRun(r) /\ Pic(l, d, q, p, r) /\ r.phase = "plan"
  /\ i \in DOMAIN r.todo /\ t = r.todo[i] /\ t.id = i /\ TaskOK(l, t) /\ t.state = TaskStatePending

Decided(p0, r, p2, r2, old, new) ==
  /\ p2 = [p0 EXCEPT !.all = Put(@, new.id, new)]
  /\ r2 = [r EXCEPT !.todo = Drop(@, old.id),
                    !.dec = Put(@, old.id, [old |-> old, new |-> new])]

LEMMA PicDecided ==
  ASSUME NEW l, NEW d, NEW q, NEW p, NEW r, NEW i, NEW t, Plans(l, d, q, p, r, i, t),
         NEW new, TaskOK(l, new), new.id = i, new.ver = t.ver,
         NEW p0, IsPicture(p0), p0.all = p.all, p0.pre = p.pre,
         p0.unassigned \in {p.unassigned, Put(p.unassigned, i, new)},
         NEW p2, NEW r2, Decided(p0, r, p2, r2, t, new),
         ~LiveIn(p.all, i) => Parts(l, d, Range(q), Put(p.all, i, new), p0.nodes, p0.vols)
  PROVE  Pic(l, d, q, p2, r2)
<1>1. PICK T, E, A, U, x : /\ T = d.tasks /\ E = Range(q) /\ A = p.all /\ U = p.unassigned
                           /\ x = [old |-> t, new |-> new]
  OBVIOUS
<1>2. /\ Pic(l, d, q, p, r) /\ r.phase = "plan" /\ IsRun(r) /\ i \in DOMAIN r.todo /\ t = r.todo[i]
      /\ t.id = i /\ TaskOK(l, t)
  BY DEF Plans
<1>3. PICK B, X : B = Put(A, i, new) /\ X = Put(U, i, new)
  OBVIOUS
<1>4. /\ p2.all = B /\ p2.pre = p.pre /\ p2.nodes = p0.nodes /\ p2.vols = p0.vols
      /\ p2.unassigned = p0.unassigned
  BY <1>1, <1>3 DEF Decided, IsPicture
<1>5. /\ r2.phase = "plan" /\ r2.job = r.job /\ r2.todo = Drop(r.todo, i)
      /\ r2.dec = Put(r.dec, i, x)
  BY <1>1, <1>2 DEF Decided, IsRun
<1>6. TaskPart(l, T, E, p, r)
  BY <1>1, <1>2 DEF Pic
<1>7. TaskPart(l, T, E, p2, r2) /\ ~LiveIn(A, i)
  BY <1>1, <1>2, <1>3, <1>4, <1>5, <1>6, TasksDecided
<1>8. AllOK(l, A) /\ AllOK(l, U) /\ AllOK(l, r.todo) /\ AllOK(l, T) /\ AllOK(l, p.pre)
  BY <1>1, <1>2 DEF Pic, Kinds
<1>9. AllOK(l, B) /\ AllOK(l, X)
  BY <1>3, <1>8 DEF AllOK, Put
<1>10. AllOK(l, r2.todo)
  BY <1>5, <1>8 DEF AllOK, Drop, Restrict
<1>11. \A j \in DOMAIN r2.dec : TaskOK(l, r2.dec[j].old) /\ TaskOK(l, r2.dec[j].new)
  <2>1. \A j \in DOMAIN r.dec : TaskOK(l, r.dec[j].old) /\ TaskOK(l, r.dec[j].new)
    BY <1>2 DEF Pic, Kinds
  <2>2. x.old = t /\ x.new = new
    BY <1>1
  <2>3. \A j \in DOMAIN r2.dec : r2.dec[j] = x \/ (j \in DOMAIN r.dec /\ r2.dec[j] = r.dec[j])
    BY <1>5 DEF Put
  <2> QED BY <1>2, <2>1, <2>2, <2>3
<1>12. Kinds(l, T, p2, r2)
  BY <1>1, <1>3, <1>4, <1>5, <1>8, <1>9, <1>10, <1>11 DEF Kinds
<1>13. Parts(l, d, E, B, p2.nodes, p2.vols)
  BY <1>1, <1>3, <1>4, <1>7
<1> QED BY <1>1, <1>2, <1>4, <1>7, <1>12, <1>13 DEF Pic, Parts

LEMMA PicDropped ==
  ASSUME NEW l, NEW d, NEW q, NEW p, NEW r, NEW i, NEW t, Plans(l, d, q, p, r, i, t),
         NEW r2, r2 = [r EXCEPT !.todo = Drop(@, t.id)]
  PROVE  Pic(l, d, q, p, r2)
<1>1. PICK T, E : T = d.tasks /\ E = Range(q)
  OBVIOUS
<1>2. /\ r2.phase = "plan" /\ r2.job = r.job /\ r2.todo = Drop(r.todo, i) /\ r2.dec = r.dec
      /\ r.phase = "plan" /\ Pic(l, d, q, p, r)
  BY DEF Plans, IsRun
<1>3. TaskPart(l, T, E, p, r2)
  BY <1>1, <1>2, TasksDropped DEF Pic
<1>4. AllOK(l, r2.todo)
  BY <1>2 DEF AllOK, Drop, Restrict, Pic, Kinds
<1>5. Kinds(l, T, p, r2)
  BY <1>1, <1>2, <1>4 DEF Pic, Kinds
<1> QED BY <1>1, <1>2, <1>3, <1>5 DEF Pic

(* The task stays where it is, or is given up.                              *)
LEMMA PicWaits ==
  ASSUME NEW l, NEW d, NEW q, NEW p, NEW r, NEW i, NEW t, Plans(l, d, q, p, r, i, t),
         NEW new, TaskOK(l, new), new.id = i, new.ver = t.ver, ~Live(new),
         NEW p0, IsPicture(p0), p0.all = p.all, p0.pre = p.pre, p0.nodes = p.nodes, p0.vols = p.vols,
         p0.unassigned \in {p.unassigned, Put(p.unassigned, i, new)},
         NEW p2, NEW r2, Decided(p0, r, p2, r2, t, new)
  PROVE  Pic(l, d, q, p2, r2)
<1>1. PICK E, A, N, V, B : /\ E = Range(q) /\ A = p.all /\ N = p.nodes /\ V = p.vols
                           /\ B = Put(A, i, new)
  OBVIOUS
<1>2. RoomOK(l) /\ AllOK(l, A) /\ Parts(l, d, E, A, N, V)
  BY <1>1 DEF Plans, LeftOK, Pic, Kinds, Parts
<1>3. AllOK(l, B) /\ Elsewhere(A, B, i) /\ B[i] = new
  BY <1>1, <1>2 DEF AllOK, Elsewhere, Put
<1>4. ~LiveIn(B, i)
  BY <1>3 DEF LiveIn
<1>5. ~LiveIn(A, i) => Parts(l, d, E, B, N, V)
  BY <1>2, <1>3, <1>4, PartsNoted
<1>6. ~LiveIn(p.all, i) => Parts(l, d, Range(q), Put(p.all, i, new), p0.nodes, p0.vols)
  BY <1>1, <1>5
<1> QED BY <1>6, PicDecided

LEMMA AssignedMore ==
  ASSUME NEW t, IsTask(t), NEW n, NEW u, u = Assigned(t, n)
  PROVE  u.svc = t.svc /\ u.vol = Asked(t).volume /\ Asked(u) = Asked(t) /\ Live(u)
<1>1. PICK e, v : e = NoErr /\ v = Asked(t).volume
  OBVIOUS
<1>2. u = [t EXCEPT !.state = TaskStateAssigned, !.node = n, !.err = e, !.vol = v]
  BY <1>1 DEF Assigned
<1>3. u.svc = t.svc /\ u.vol = v /\ u.state = TaskStateAssigned
  BY <1>2 DEF IsTask
<1> QED BY <1>1, <1>3 DEF Asked, Live

(* What the scheduler makes of a task that it places on a node.             *)
Places(l, t, n, new) ==
  /\ TaskOK(l, new) /\ Live(new) /\ new.id = t.id /\ new.ver = t.ver /\ new.svc = t.svc
  /\ new.node = n /\ new.vol = Asked(new).volume

LEMMA PlacedTask ==
  ASSUME NEW l, NEW d, NEW q, NEW p, NEW r, NEW i, NEW t, Plans(l, d, q, p, r, i, t),
         NEW n \in DOMAIN p.nodes, NEW new, new = Assigned(t, n)
  PROVE  Places(l, t, n, new) /\ p.nodes[n].node.id = n
<1>1. TaskOK(l, t) /\ IsTask(t) /\ RoomOK(l) /\ NodePic(l, p.all, p.nodes)
  BY DEF Plans, TaskOK, LeftOK, Pic, NodePart
<1>2. p.nodes[n].node.id = n /\ n \in Nodes
  BY <1>1 DEF NodePic, NodeOK, RoomOK
<1>3. /\ IsTask(new) /\ new.id = t.id /\ new.node = n /\ new.state = TaskStateAssigned
      /\ new.wanted = t.wanted /\ new.ver = t.ver
  BY <1>1, AssignedTask
<1>4. new.svc = t.svc /\ new.vol = Asked(new).volume /\ Live(new)
  BY <1>1, AssignedMore
<1>5. ~(new.state <= TaskStatePending)
  BY <1>3 DEF TaskStateAssigned, TaskStatePending
<1>6. TaskOK(l, new)
  BY <1>1, <1>2, <1>3, <1>4, <1>5 DEF TaskOK
<1> QED BY <1>2, <1>3, <1>4, <1>6 DEF Places

LEMMA PlacedNodes ==
  ASSUME NEW l, RoomOK(l), NEW D, NEW E, NEW A, AllOK(l, A), NEW N, NodePart(l, D, E, A, N),
         NEW t, NEW n \in DOMAIN N, NEW new, Places(l, t, n, new), ~LiveIn(A, t.id),
         NEW V, Process(N[n], V, t)
  PROVE  NodePart(l, D, E, Put(A, t.id, new), Added(N, new))
<1>1. PICK i, B, M : i = new.id /\ B = Put(A, i, new) /\ M = Added(N, new)
  OBVIOUS
<1>2. TaskOK(l, new) /\ Live(new) /\ i = t.id /\ new.svc = t.svc /\ new.node = n /\ NodePic(l, A, N)
  BY <1>1 DEF Places, NodePart
<1>3. NodePic(l, B, M) /\ DOMAIN M = DOMAIN N /\ \A m \in DOMAIN N : M[m].node = N[m].node
  <2>1. /\ new.node \in DOMAIN N /\ Process(N[new.node], V, t) /\ ~LiveIn(A, new.id)
        /\ t.svc = new.svc /\ TaskOK(l, new) /\ Live(new) /\ NodePic(l, A, N)
    BY <1>1, <1>2
  <2>2. /\ NodePic(l, Put(A, new.id, new), Added(N, new)) /\ DOMAIN Added(N, new) = DOMAIN N
        /\ \A m \in DOMAIN N : Added(N, new)[m].node = N[m].node
    BY <2>1, NodesClaimed
  <2> QED BY <1>1, <2>2
<1>4. ASSUME NEW j, LiveIn(B, j)
      PROVE  (LiveIn(A, j) /\ B[j].node = A[j].node) \/ B[j].node \in DOMAIN N
  BY <1>1, <1>2, <1>4 DEF LiveIn, Put
<1>5. NodePart(l, D, E, B, M)
  BY <1>3, <1>4, NodesCounted
<1> QED BY <1>1, <1>2, <1>5

LEMMA ClaimFields ==
  ASSUME NEW p, IsPicture(p), NEW t, t.node \in DOMAIN p.nodes, NEW p0, p0 = Claim(p, t)
  PROVE  /\ IsPicture(p0) /\ p0.all = p.all /\ p0.pre = p.pre /\ p0.unassigned = p.unassigned
         /\ p0.vols = p.vols /\ p0.nodes = Added(p.nodes, t)
<1>1. PICK M : M = [p.nodes EXCEPT ![t.node] = addTask(p.nodes[t.node], t)]
  OBVIOUS
<1>2. M = Added(p.nodes, t)
  BY <1>1 DEF Added
<1>3. p0 = [p EXCEPT !.nodes = M]
  BY <1>1 DEF Claim, IsPicture
<1> QED BY <1>2, <1>3 DEF IsPicture

LEMMA ReserveFields ==
  ASSUME NEW p, IsPicture(p), NEW t, NEW p0, p0 = Reserve(p, t)
  PROVE  /\ IsPicture(p0) /\ p0.all = p.all /\ p0.pre = p.pre /\ p0.unassigned = p.unassigned
         /\ p0.vols = reserveVolume(p.vols, t) /\ p0.nodes = p.nodes
<1>1. PICK V : V = reserveVolume(p.vols, t)
  OBVIOUS
<1>2. p0 = [p EXCEPT !.vols = V]
  BY <1>1 DEF Reserve
<1> QED BY <1>1, <1>2 DEF IsPicture

LEMMA PicFits ==
  ASSUME NEW l, NEW d, NEW q, NEW p, NEW r, NEW i, NEW t, Plans(l, d, q, p, r, i, t),
         t.node # None, t.node \in DOMAIN p.nodes, Process(p.nodes[t.node], p.vols, t),
         NEW new, new = Assigned(t, t.node),
         NEW p2, NEW r2, Decided(Claim(p, new), r, p2, r2, t, new)
  PROVE  Pic(l, d, q, p2, r2)
<1>1. PICK E, A, N, V, p0 : /\ E = Range(q) /\ A = p.all /\ N = p.nodes /\ V = p.vols
                            /\ p0 = Claim(p, new)
  OBVIOUS
<1>2. /\ RoomOK(l) /\ AllOK(l, A) /\ NodePart(l, d.nodes, E, A, N) /\ VolPart(l, d.vols, E, A, V)
      /\ IsPicture(p) /\ t.id = i /\ TaskOK(l, t) /\ t.state = TaskStatePending
  BY <1>1 DEF Plans, LeftOK, Pic, Kinds
<1>3. l.pre[i] # None
  BY <1>2 DEF TaskOK, TaskStatePending
<1>4. Places(l, t, t.node, new)
  BY PlacedTask
<1>5. /\ IsPicture(p0) /\ p0.all = A /\ p0.pre = p.pre /\ p0.unassigned = p.unassigned
      /\ p0.vols = V /\ p0.nodes = Added(N, new)
  <2>1. new.node \in DOMAIN p.nodes
    BY <1>4 DEF Places
  <2> QED BY <1>1, <1>2, <2>1, ClaimFields
<1>6. ASSUME ~LiveIn(A, i) PROVE Parts(l, d, E, Put(A, i, new), p0.nodes, p0.vols)
  <2>1. NodePart(l, d.nodes, E, Put(A, i, new), Added(N, new))
    BY <1>1, <1>2, <1>4, <1>6, PlacedNodes
  <2>2. new.id = i /\ Live(new)
    BY <1>2, <1>4 DEF Places
  <2>3. VolPart(l, d.vols, E, Put(A, i, new), V)
    BY <1>2, <1>3, <1>6, <2>2, VolsPre
  <2> QED BY <1>5, <2>1, <2>3 DEF Parts
<1>7. TaskOK(l, new) /\ new.id = i /\ new.ver = t.ver /\ Decided(p0, r, p2, r2, t, new)
  BY <1>1, <1>2, <1>4 DEF Places
<1> QED BY <1>1, <1>5, <1>6, <1>7, PicDecided

LEMMA PicPlaced ==
  ASSUME NEW l, NEW d, NEW q, NEW p, NEW r, NEW i, NEW t, Plans(l, d, q, p, r, i, t),
         t.node = None, NEW n \in DOMAIN p.nodes, Process(p.nodes[n], p.vols, t),
         NEW new, new = Assigned(t, n),
         NEW p2, NEW r2, Decided(Claim(Reserve(p, new), new), r, p2, r2, t, new)
  PROVE  Pic(l, d, q, p2, r2)
<1>1. PICK E, A, N, V, p1, p0 : /\ E = Range(q) /\ A = p.all /\ N = p.nodes /\ V = p.vols
                                /\ p1 = Reserve(p, new) /\ p0 = Claim(p1, new)
  OBVIOUS
<1>2. /\ RoomOK(l) /\ AllOK(l, A) /\ NodePart(l, d.nodes, E, A, N) /\ VolPart(l, d.vols, E, A, V)
      /\ IsPicture(p) /\ t.id = i /\ TaskOK(l, t) /\ t.state = TaskStatePending
  BY <1>1 DEF Plans, LeftOK, Pic, Kinds
<1>3. l.pre[i] = None
  BY <1>2 DEF TaskOK, TaskStatePending
<1>4. Places(l, t, n, new) /\ N[n].node.id = n
  BY <1>1, PlacedTask
<1>5. /\ IsPicture(p0) /\ p0.all = A /\ p0.pre = p.pre /\ p0.unassigned = p.unassigned
      /\ p0.vols = reserveVolume(V, new) /\ p0.nodes = Added(N, new)
  <2>1. /\ IsPicture(p1) /\ p1.all = A /\ p1.pre = p.pre /\ p1.unassigned = p.unassigned
        /\ p1.vols = reserveVolume(V, new) /\ p1.nodes = N
    BY <1>1, <1>2, ReserveFields
  <2>2. new.node \in DOMAIN p1.nodes
    BY <1>1, <1>4, <2>1 DEF Places
  <2> QED BY <1>1, <2>1, <2>2, ClaimFields
<1>6. ASSUME ~LiveIn(A, i) PROVE Parts(l, d, E, Put(A, i, new), p0.nodes, p0.vols)
  <2>1. NodePart(l, d.nodes, E, Put(A, i, new), Added(N, new))
    BY <1>1, <1>2, <1>4, <1>6, PlacedNodes
  <2>2. new.id = i /\ Live(new) /\ new.vol = Asked(new).volume /\ new.svc = t.svc /\ new.node = n
    BY <1>2, <1>4 DEF Places
  <2>3. PICK ni : ni = N[n]
    OBVIOUS
  <2>4. ni.node.id = new.node /\ Process(ni, V, t)
    BY <1>1, <1>4, <2>2, <2>3
  <2>5. VolPart(l, d.vols, E, Put(A, i, new), reserveVolume(V, new))
    BY <1>2, <1>3, <1>6, <2>2, <2>4, VolsClaimed
  <2> QED BY <1>5, <2>1, <2>5 DEF Parts
<1>7. TaskOK(l, new) /\ new.id = i /\ new.ver = t.ver /\ Decided(p0, r, p2, r2, t, new)
  BY <1>1, <1>2, <1>4 DEF Places
<1> QED BY <1>1, <1>5, <1>6, <1>7, PicDecided

(* The errors and the end of a task that finds no node.                     *)
LEMMA WaitTask ==
  ASSUME NEW l, NEW t, TaskOK(l, t), t.state = TaskStatePending, NEW new,
         \/ \E err : new = [t EXCEPT !.err = err]
         \/ new = t
         \/ new = [t EXCEPT !.state = TaskStateDead, !.err = NoErr]
  PROVE  TaskOK(l, new) /\ new.id = t.id /\ new.ver = t.ver /\ ~Live(new)
<1>1. IsTask(t)
  BY DEF TaskOK
<1>2. /\ IsTask(new) /\ new.id = t.id /\ new.ver = t.ver /\ new.svc = t.svc /\ new.node = t.node
      /\ new.wanted = t.wanted /\ new.state \in {TaskStatePending, TaskStateDead}
  <2>1. TaskStateDead \in TaskStateNew..TaskStateDead
    BY DEF TaskStateNew, TaskStateDead
  <2>2. PICK e, x : new = [t EXCEPT !.state = x, !.err = e] /\ x \in {TaskStatePending, TaskStateDead}
    <3>1. CASE new = t
      <4>1. t = [t EXCEPT !.state = t.state, !.err = t.err]
        BY <1>1 DEF IsTask
      <4> QED BY <3>1, <4>1
    <3>2. ASSUME NEW err, new = [t EXCEPT !.err = err]
          PROVE  new = [t EXCEPT !.state = t.state, !.err = err]
      BY <1>1, <3>2 DEF IsTask
    <3> QED BY <3>1, <3>2
  <2> QED BY <1>1, <2>1, <2>2 DEF IsTask
<1>3. ~Live(new)
  BY <1>2 DEF Live, TaskStatePending, TaskStateDead, TaskStateAssigned
<1>4. t.node = l.pre[t.id]
  BY DEF TaskOK, TaskStatePending
<1>5. TaskOK(l, new)
  BY <1>2, <1>3, <1>4 DEF TaskOK
<1> QED BY <1>2, <1>3, <1>5

LEMMA FitPic ==
  ASSUME NEW l, NEW d, NEW q, NEW i, NEW t, Plans(l, d, q, s, run, i, t), t.node # None, taskFitNode(t)
  PROVE  Pic(l, d, q, s', run')
<1>1. PICK p, r, p2, r2 : p = s /\ r = run /\ p2 = s' /\ r2 = run'
  OBVIOUS
<1>2. Plans(l, d, q, p, r, i, t) /\ TaskOK(l, t) /\ t.state = TaskStatePending /\ IsPicture(p) /\ t.id = i
  BY <1>1 DEF Plans
<1> SUFFICES Pic(l, d, q, p2, r2)
  BY <1>1
<1>3. CASE t.node \notin DOMAIN p.nodes
  <2>1. p2 = p /\ r2 = [r EXCEPT !.todo = Drop(@, t.id)]
    BY <1>1, <1>3 DEF taskFitNode
  <2> QED BY <1>2, <2>1, PicDropped
<1>4. CASE t.node \in DOMAIN p.nodes /\ ~Process(p.nodes[t.node], p.vols, t)
  <2>1. PICK new : /\ \E err : new = [t EXCEPT !.err = err]
                   /\ Decided(p, r, p2, r2, t, new)
    BY <1>1, <1>4 DEF taskFitNode, Decide, Decided
  <2>2. TaskOK(l, new) /\ new.id = i /\ new.ver = t.ver /\ ~Live(new)
    BY <1>2, <2>1, WaitTask
  <2> QED BY <1>2, <2>1, <2>2, PicWaits
<1>5. CASE t.node \in DOMAIN p.nodes /\ Process(p.nodes[t.node], p.vols, t)
  <2>1. PICK new : new = Assigned(t, t.node) /\ Decided(Claim(p, new), r, p2, r2, t, new)
    BY <1>1, <1>5 DEF taskFitNode, Decide, Decided
  <2> QED BY <1>2, <1>5, <2>1, PicFits
<1> QED BY <1>3, <1>4, <1>5

LEMMA PlacePic ==
  ASSUME NEW l, NEW d, NEW q, NEW i, NEW t, Plans(l, d, q, s, run, i, t), t.node = None, Place(t)
  PROVE  Pic(l, d, q, s', run')
<1>1. PICK p, r, p2, r2 : p = s /\ r = run /\ p2 = s' /\ r2 = run'
  OBVIOUS
<1>2. Plans(l, d, q, p, r, i, t)
  BY <1>1
<1>3. PICK n \in DOMAIN p.nodes :
        /\ Process(p.nodes[n], p.vols, t)
        /\ Decided(Claim(Reserve(p, Assigned(t, n)), Assigned(t, n)), r, p2, r2, t, Assigned(t, n))
  BY <1>1 DEF Place, Decide, Decided
<1>4. PICK new : new = Assigned(t, n)
  OBVIOUS
<1>5. Decided(Claim(Reserve(p, new), new), r, p2, r2, t, new)
  BY <1>3, <1>4
<1>6. Pic(l, d, q, p2, r2)
  BY <1>2, <1>3, <1>4, <1>5, PicPlaced
<1> QED BY <1>1, <1>6

LEMMA NoNodePic ==
  ASSUME NEW l, NEW d, NEW q, NEW i, NEW t, Plans(l, d, q, s, run, i, t), noSuitableNode(t)
  PROVE  Pic(l, d, q, s', run')
<1>1. PICK p, r, p2, r2 : p = s /\ r = run /\ p2 = s' /\ r2 = run'
  OBVIOUS
<1>2. Plans(l, d, q, p, r, i, t) /\ TaskOK(l, t) /\ t.state = TaskStatePending /\ IsPicture(p) /\ t.id = i
  BY <1>1 DEF Plans
<1>3. \/ p2 = p /\ r2 = [r EXCEPT !.todo = Drop(@, t.id)]
      \/ \E new : /\ new = t \/ new = [t EXCEPT !.state = TaskStateDead, !.err = NoErr]
                  /\ Decided(p, r, p2, r2, t, new)
      \/ \E err : Decided([p EXCEPT !.unassigned = Put(@, t.id, [t EXCEPT !.err = err])], r, p2, r2, t,
                          [t EXCEPT !.err = err])
  BY <1>1 DEF noSuitableNode, Decide, Decided
<1> SUFFICES Pic(l, d, q, p2, r2)
  BY <1>1
<1>4. CASE p2 = p /\ r2 = [r EXCEPT !.todo = Drop(@, t.id)]
  BY <1>2, <1>4, PicDropped
<1>5. ASSUME NEW new, new = t \/ new = [t EXCEPT !.state = TaskStateDead, !.err = NoErr],
             Decided(p, r, p2, r2, t, new)
      PROVE  Pic(l, d, q, p2, r2)
  <2>1. TaskOK(l, new) /\ new.id = i /\ new.ver = t.ver /\ ~Live(new)
    BY <1>2, <1>5, WaitTask
  <2> QED BY <1>2, <1>5, <2>1, PicWaits
<1>6. ASSUME NEW err, Decided([p EXCEPT !.unassigned = Put(@, t.id, [t EXCEPT !.err = err])], r, p2, r2, t,
                              [t EXCEPT !.err = err])
      PROVE  Pic(l, d, q, p2, r2)
  <2>1. PICK new : new = [t EXCEPT !.err = err]
    OBVIOUS
  <2>2. PICK p0 : p0 = [p EXCEPT !.unassigned = Put(@, t.id, new)]
    OBVIOUS
  <2>3. Decided(p0, r, p2, r2, t, new)
    BY <1>6, <2>1, <2>2
  <2>4. TaskOK(l, new) /\ new.id = i /\ new.ver = t.ver /\ ~Live(new)
    BY <1>2, <2>1, WaitTask
  <2>5. /\ IsPicture(p0) /\ p0.all = p.all /\ p0.pre = p.pre /\ p0.nodes = p.nodes /\ p0.vols = p.vols
        /\ p0.unassigned = Put(p.unassigned, i, new)
    BY <1>2, <2>2 DEF IsPicture
  <2> QED BY <1>2, <2>3, <2>4, <2>5, PicWaits
<1> QED BY <1>3, <1>4, <1>5, <1>6

LEMMA PlanPic ==
  ASSUME Invs, Plan, Pic(left, db, queue, s, run)
  PROVE  Pic(left', db', queue', s', run')
<1>1. PICK i, t : /\ i \in DOMAIN run.todo /\ t = run.todo[i] /\ run.phase = "plan"
                  /\ \/ run.job = "pre" /\ taskFitNode(t)
                     \/ run.job = "tick" /\ (Place(t) \/ noSuitableNode(t))
  BY DEF Plan
<1>2. /\ LeftOK(left) /\ IsPicture(s) /\ IsRun(run) /\ Waiting(db.tasks, left.pre, run.todo, run.job = "tick")
  BY <1>1, InvTypes DEF PictureOK, RunOK
<1>3. t.id = i /\ t.state = TaskStatePending /\ (t.node = None <=> run.job = "tick")
  BY <1>1, <1>2 DEF Waiting, Copies
<1>4. TaskOK(left, t)
  BY <1>1 DEF Pic, Kinds, AllOK
<1>5. Plans(left, db, queue, s, run, i, t)
  BY <1>1, <1>2, <1>3, <1>4 DEF Plans
<1>6. Pic(left, db, queue, s', run')
  <2>1. PICK l, d, q : l = left /\ d = db /\ q = queue
    OBVIOUS
  <2>2. Plans(l, d, q, s, run, i, t)
    BY <1>5, <2>1
  <2>3. Pic(l, d, q, s', run')
    BY <1>1, <1>3, <2>2, FitPic, PlacePic, NoNodePic
  <2> QED BY <2>1, <2>3
<1>7. UNCHANGED <<left, db, queue>>
  BY DEF Plan, store
<1> QED BY <1>6, <1>7

-----------------------------------------------------------------------------
(* The scheduler writes                                                     *)

TellsVols(X, V, y) ==
  /\ IsSeq(y)
  /\ \A a \in DOMAIN y : /\ y[a].type = "volume" /\ y[a].obj.id \in V
                         /\ y[a].obj.vol = X[y[a].obj.id]

LEMMA VolsTold ==
  ASSUME NEW X, NEW V \in SUBSET DOMAIN Volumes, NEW y, y = SetToSeq(VolumeEvents(X, V))
  PROVE  TellsVols(X, V, y)
<1>1. PICK S : S = VolumeEvents(X, V)
  OBVIOUS
<1>2. y \in Seq(S)
  BY <1>1, VolumesTold
<1>3. ASSUME NEW e \in S PROVE e.type = "volume" /\ e.obj.id \in V /\ e.obj.vol = X[e.obj.id]
  <2>1. PICK v \in V : e = Own("volume", [id |-> v, vol |-> X[v]])
    BY <1>1 DEF VolumeEvents
  <2>2. PICK o : o = [id |-> v, vol |-> X[v]]
    OBVIOUS
  <2>3. o.id = v /\ o.vol = X[v]
    BY <2>2
  <2>4. e.type = "volume" /\ e.obj = o
    BY <2>1, <2>2 DEF Own
  <2> QED BY <2>3, <2>4
<1>4. IsSeq(y)
  BY <1>2 DEF IsSeq
<1>5. \A a \in DOMAIN y : y[a] \in S
  BY <1>2
<1> QED BY <1>3, <1>4, <1>5 DEF TellsVols

(* The statuses of volumes are written, and no more.                        *)
Statuses(l, W, X) ==
  /\ \A v \in l.new : v \notin DOMAIN W
  /\ DOMAIN X = DOMAIN W /\ \A v \in DOMAIN W : X[v].info = W[v].info

LEMMA StatusWrites ==
  ASSUME NEW l, NEW W, NEW X, Statuses(l, W, X),
         NEW V, V \subseteq DOMAIN X, NEW y, TellsVols(X, V, y),
         NEW E, NEW F, E \subseteq F, \A e \in F : e \in E \/ e.type # "volume" \/ e \in Range(y)
  PROVE  VolWrites(l, W, X, E, F)
<1>1. ASSUME NEW e \in Range(y) PROVE e.obj.id \in DOMAIN X /\ e.obj.vol = X[e.obj.id]
  <2>1. PICK a \in DOMAIN y : e = y[a]
    BY DEF Range
  <2> QED BY <2>1 DEF TellsVols
<1> QED BY <1>1 DEF VolWrites, Statuses

LEMMA NextOK ==
  ASSUME NEW l, NEW t, TaskOK(l, t), NEW u, u = NextVersion(t)
  PROVE  /\ TaskOK(l, u) /\ u.id = t.id /\ u.svc = t.svc /\ u.node = t.node /\ u.vol = t.vol
         /\ u.wanted = t.wanted /\ (Live(u) <=> Live(t))
<1>1. /\ IsTask(t) /\ IsTask(u) /\ u.id = t.id /\ u.state = t.state /\ u.wanted = t.wanted
      /\ u.node = t.node /\ u.vol = t.vol /\ u.svc = t.svc /\ (Live(u) <=> Live(t))
  BY NextFields, NextMore DEF TaskOK
<1>2. Asked(u) = Asked(t)
  BY <1>1 DEF Asked
<1>3. TaskOK(l, u)
  BY <1>1, <1>2 DEF TaskOK
<1> QED BY <1>1, <1>3

LEMMA PublishedInfo ==
  ASSUME NEW l, NEW d, IsVols(d.vols), \A v \in l.new : v \notin DOMAIN d.vols,
         NEW T, NEW X, X = Published(d, T)
  PROVE  Statuses(l, d.vols, X)
<1>1. DOMAIN X = DOMAIN d.vols
  BY DEF Published
<1>2. ASSUME NEW v \in DOMAIN d.vols PROVE X[v].info = d.vols[v].info
  <2>1. PICK vol : vol = d.vols[v]
    OBVIOUS
  <2>2. \E x : X[v] = [vol EXCEPT !.pub = x]
    BY <2>1 DEF Published
  <2>3. vol \in Vol
    BY <2>1 DEF IsVols
  <2> QED BY <2>1, <2>2, <2>3 DEF Vol
<1> QED BY <1>1, <1>2 DEF Statuses

LEMMA FreedInfo ==
  ASSUME NEW l, NEW d, IsVols(d.vols), \A v \in l.new : v \notin DOMAIN d.vols,
         NEW vs, NEW X, X = Freed(d, vs)
  PROVE  Statuses(l, d.vols, X)
<1>1. DOMAIN X = DOMAIN d.vols
  BY DEF Freed
<1>2. ASSUME NEW v \in DOMAIN d.vols PROVE X[v].info = d.vols[v].info
  <2>1. PICK vol : vol = d.vols[v]
    OBVIOUS
  <2>2. \E x : X[v] = [vol EXCEPT !.pub = x]
    BY <2>1 DEF Freed
  <2>3. vol \in Vol
    BY <2>1 DEF IsVols
  <2> QED BY <2>1, <2>2, <2>3 DEF Vol
<1> QED BY <1>1, <1>2 DEF Statuses

Claims(dec, M) == {dec[i].new : i \in M}

(* What decisions have claimed is given back.                               *)
LEMMA PartsGivenBack ==
  ASSUME NEW l, RoomOK(l), NEW d, NEW E, NEW A, AllOK(l, A), NEW N, NEW V, Parts(l, d, E, A, N, V),
         NEW dec, NEW M, \A i \in M : dec[i].new.id = i /\ (LiveIn(A, i) => A[i] = dec[i].new),
         NEW B, AllOK(l, B), Lost(A, B, M), NEW T, T = Claims(dec, M)
  PROVE  Parts(l, d, E, B, Removed(N, T), releaseVolumes(V, T))
<1>1. {t.id : t \in T} = M
  BY DEF Claims
<1>2. Lost(A, B, {t.id : t \in T})
  BY <1>1
<1>3. \A t \in T : LiveIn(A, t.id) => t.node = A[t.id].node /\ t.vol = A[t.id].vol
  BY DEF Claims
<1>4. ASSUME NEW i, LiveIn(B, i) PROVE LiveIn(A, i) /\ B[i].node = A[i].node
  <2>1. i \in Tasks
    BY <1>4 DEF LiveIn, AllOK, TaskOK, IsTask
  <2> QED BY <1>4, <2>1 DEF Lost
<1>5. NodePic(l, A, N)
  BY DEF Parts, NodePart
<1>6. /\ NodePic(l, B, Removed(N, T)) /\ DOMAIN Removed(N, T) = DOMAIN N
      /\ \A n \in DOMAIN N : Removed(N, T)[n].node = N[n].node
  BY <1>2, <1>3, <1>5, NodesLost
<1>7. NodePart(l, d.nodes, E, B, Removed(N, T))
  BY <1>4, <1>6, NodesCounted DEF Parts
<1>8. VolPart(l, d.vols, E, B, releaseVolumes(V, T))
  BY <1>2, <1>3, VolsLost DEF Parts
<1> QED BY <1>7, <1>8 DEF Parts

Applies(l, d, e, q, p, r, p2, r2, new, F) ==
  /\ LeftOK(l) /\ Pic(l, d, q, p, r) /\ r.phase = "plan"
  /\ PictureOK(d.tasks, l.pre, p) /\ RunOK(d.tasks, l.pre, p, r)
  /\ Written(d.tasks, e.tasks, p, p2, r, r2, new, F) /\ e.nodes = d.nodes

LEMMA AppliedTasks ==
  ASSUME NEW l, NEW d, NEW e, NEW q, NEW p, NEW r, NEW p2, NEW r2, NEW new, NEW F,
         Applies(l, d, e, q, p, r, p2, r2, new, F)
  PROVE  /\ \A i \in DOMAIN r.dec : /\ r.dec[i].new.id = i /\ TaskOK(l, r.dec[i].new)
                                    /\ i \in DOMAIN p.all /\ p.all[i] = r.dec[i].new
         /\ \A i \in DOMAIN new : /\ i \in DOMAIN r.dec /\ i \in DOMAIN d.tasks
                                  /\ TaskOK(l, new[i]) /\ new[i].id = i
                                  /\ new[i] = NextVersion(r.dec[i].new)
<1>1. ASSUME NEW i \in DOMAIN r.dec
      PROVE  /\ r.dec[i].new.id = i /\ TaskOK(l, r.dec[i].new)
             /\ i \in DOMAIN p.all /\ p.all[i] = r.dec[i].new
  <2>1. r.dec[i].new.id = i
    BY DEF Applies, RunOK, Decision
  <2>2. TaskOK(l, r.dec[i].new)
    BY DEF Applies, Pic, Kinds
  <2>3. Claimed(r, i)
    BY DEF Applies, Claimed
  <2> QED BY <2>1, <2>2, <2>3 DEF Applies, Pic, TaskPart
<1>2. ASSUME NEW i \in DOMAIN new
      PROVE  /\ i \in DOMAIN r.dec /\ i \in DOMAIN d.tasks /\ TaskOK(l, new[i]) /\ new[i].id = i
             /\ new[i] = NextVersion(r.dec[i].new)
  <2>1. i \in DOMAIN r.dec /\ i \in DOMAIN d.tasks /\ new[i] = NextVersion(r.dec[i].new)
    BY DEF Applies, Written
  <2> QED BY <1>1, <2>1, NextOK
<1> QED BY <1>1, <1>2

LEMMA AppliedKinds ==
  ASSUME NEW l, NEW d, NEW e, NEW q, NEW p, NEW r, NEW p2, NEW r2, NEW new, NEW F,
         Applies(l, d, e, q, p, r, p2, r2, new, F)
  PROVE  Kinds(l, e.tasks, p2, r2)
<1>1. \A i \in DOMAIN new : TaskOK(l, new[i]) /\ new[i].id = i
  BY AppliedTasks
<1>2. /\ AllOK(l, d.tasks) /\ AllOK(l, p.all) /\ AllOK(l, p.unassigned) /\ AllOK(l, p.pre)
      /\ \A i \in DOMAIN r.dec : TaskOK(l, r.dec[i].old) /\ TaskOK(l, r.dec[i].new)
  BY DEF Applies, Pic, Kinds
<1>3. Written(d.tasks, e.tasks, p, p2, r, r2, new, F)
  BY DEF Applies
<1>4. AllOK(l, e.tasks)
  BY <1>1, <1>2, <1>3 DEF Written, AllOK
<1>5. AllOK(l, p2.all)
  BY <1>1, <1>2, <1>3 DEF Written, AllOK
<1>6. AllOK(l, p2.unassigned) /\ AllOK(l, p2.pre)
  BY <1>1, <1>2, <1>3 DEF Written, AllOK
<1>7. r2.phase = "free" /\ r2.dec = r.dec
  BY <1>3 DEF Written
<1> QED BY <1>2, <1>4, <1>5, <1>6, <1>7 DEF Kinds

LEMMA AppliedLost ==
  ASSUME NEW l, NEW d, NEW e, NEW q, NEW p, NEW r, NEW p2, NEW r2, NEW new, NEW F,
         Applies(l, d, e, q, p, r, p2, r2, new, F), NEW M, M = DOMAIN r.dec \ DOMAIN d.tasks
  PROVE  Lost(p.all, p2.all, M)
<1> SUFFICES ASSUME NEW i \in Tasks
             PROVE  /\ LiveIn(p2.all, i) <=> LiveIn(p.all, i) /\ i \notin M
                    /\ LiveIn(p2.all, i) =>
                         /\ p2.all[i].svc = p.all[i].svc /\ p2.all[i].wanted = p.all[i].wanted
                         /\ p2.all[i].node = p.all[i].node /\ p2.all[i].vol = p.all[i].vol
  BY DEF Lost
<1>1. Written(d.tasks, e.tasks, p, p2, r, r2, new, F)
  BY DEF Applies
<1>2. CASE i \in DOMAIN new
  <2>1. /\ i \in DOMAIN r.dec /\ i \in DOMAIN d.tasks /\ new[i] = NextVersion(r.dec[i].new)
        /\ TaskOK(l, r.dec[i].new) /\ i \in DOMAIN p.all /\ p.all[i] = r.dec[i].new
    BY <1>2, AppliedTasks
  <2>2. PICK t, u : t = r.dec[i].new /\ u = new[i]
    OBVIOUS
  <2>3. /\ u.svc = t.svc /\ u.node = t.node /\ u.vol = t.vol /\ u.wanted = t.wanted
        /\ (Live(u) <=> Live(t))
    BY <2>1, <2>2, NextOK
  <2>4. i \in DOMAIN p2.all /\ p2.all[i] = u /\ p.all[i] = t
    BY <1>1, <1>2, <2>1, <2>2 DEF Written
  <2>5. LiveIn(p2.all, i) <=> LiveIn(p.all, i) /\ i \notin M
    BY <2>1, <2>3, <2>4 DEF LiveIn
  <2> QED BY <2>3, <2>4, <2>5
<1>3. CASE i \notin DOMAIN new
  <2>1. i \in DOMAIN p2.all <=> i \in DOMAIN p.all /\ i \notin M
    BY <1>1, <1>3 DEF Written
  <2>2. i \in DOMAIN p2.all => p2.all[i] = p.all[i]
    BY <1>1, <1>3 DEF Written
  <2> QED BY <2>1, <2>2 DEF LiveIn
<1> QED BY <1>2, <1>3

(* What the scheduler tells itself of its write: tasks, then volumes.       *)
Queued(X, V, new, q, x, y, w) ==
  /\ new = [i \in DOMAIN new |-> new[i]] /\ IsFiniteSet(DOMAIN new)
  /\ x = SetToSeq(TaskEvents(new, TRUE)) /\ TellsVols(X, V, y) /\ w = (q \o x) \o y


LEMMA QueuedRange ==
  ASSUME NEW X, NEW V, NEW new, NEW q, IsSeq(q), NEW x, NEW y, NEW w, Queued(X, V, new, q, x, y, w),
         IsSeq(x), Range(x) = TaskEvents(new, TRUE)
  PROVE  Heard(new, Range(q), Range(y), Range(w))
<1>1. PICK z : z = q \o x
  OBVIOUS
<1>2. IsSeq(z) /\ Range(z) = Range(q) \cup Range(x)
  BY <1>1, CatRange
<1>3. IsSeq(y) /\ w = z \o y
  BY <1>1 DEF Queued, TellsVols
<1>4. Range(w) = Range(z) \cup Range(y)
  BY <1>2, <1>3, CatRange
<1>5. ASSUME NEW e \in Range(x) PROVE \E i \in DOMAIN new : e = Own("task", new[i])
  BY DEF TaskEvents, Range, Own
<1>6. \A i \in DOMAIN new : Own("task", new[i]) \in Range(x)
  BY DEF TaskEvents, Range, Own
<1>7. \A e \in Range(y) : e.type = "volume"
  BY DEF Queued, TellsVols, Range
<1> QED BY <1>2, <1>4, <1>5, <1>6, <1>7 DEF Heard

LEMMA PicApplied ==
  ASSUME NEW l, NEW d, NEW e, NEW q, NEW p, NEW r, NEW p2, NEW r2, NEW new, NEW F,
         Applies(l, d, e, q, p, r, p2, r2, new, F), NEW m, LeftStep(l, m),
         NEW M, M = DOMAIN r.dec \ DOMAIN d.tasks, NEW gone, gone = Claims(r.dec, M),
         p2.nodes = Removed(p.nodes, gone), p2.vols = releaseVolumes(p.vols, gone),
         e.tasks = Overlay(new, d.tasks), \A i \in DOMAIN new : Forward(d.tasks[i], new[i]),
         NEW V, NEW x, NEW y, NEW w, Queued(e.vols, V, new, q, x, y, w),
         V \subseteq DOMAIN e.vols, Statuses(l, d.vols, e.vols)
  PROVE  Pic(m, e, w, p2, r2)
<1>1. /\ Kinds(l, d.tasks, p, r) /\ QueueInv(l, d.tasks, d.nodes, q)
      /\ TaskPart(l, d.tasks, Range(q), p, r) /\ Parts(l, d, Range(q), p.all, p.nodes, p.vols)
      /\ RoomOK(l) /\ r.phase = "plan" /\ PictureOK(d.tasks, l.pre, p) /\ RunOK(d.tasks, l.pre, p, r)
      /\ Written(d.tasks, e.tasks, p, p2, r, r2, new, F) /\ e.nodes = d.nodes
  BY DEF Applies, Pic, Parts, LeftOK
<1>2. Kinds(l, e.tasks, p2, r2)
  BY AppliedKinds
<1>3. /\ \A i \in DOMAIN r.dec : r.dec[i].new.id = i /\ p.all[i] = r.dec[i].new
      /\ \A i \in DOMAIN new : i \in DOMAIN d.tasks /\ new[i].id = i
  BY AppliedTasks
<1>4. PICK T, U, D : T = d.tasks /\ U = e.tasks /\ D = d.nodes
  OBVIOUS
<1>5. /\ new = [i \in DOMAIN new |-> new[i]] /\ IsFiniteSet(DOMAIN new)
      /\ x = SetToSeq(TaskEvents(new, TRUE)) /\ TellsVols(e.vols, V, y) /\ w = (q \o x) \o y
  BY DEF Queued
<1>6. TasksTold(T, U, x) /\ Range(x) = TaskEvents(new, TRUE)
  <2>1. \A i \in DOMAIN new : i \in DOMAIN T /\ Forward(T[i], new[i]) /\ new[i].id = i
    BY <1>3, <1>4
  <2>2. U = Overlay(new, T)
    BY <1>4
  <2>3. PICK own : own = TRUE
    OBVIOUS
  <2>4. new = [i \in DOMAIN new |-> new[i]] /\ IsFiniteSet(DOMAIN new)
    BY <1>5
  <2>5. x = SetToSeq(TaskEvents(new, own))
    BY <1>5, <2>3
  <2>6. TasksTold(T, U, x) /\ Range(x) = TaskEvents(new, own)
    BY <2>1, <2>2, <2>4, <2>5, ToldMany
  <2> QED BY <2>3, <2>6
<1>7. IsSeq(x) /\ IsSeq(q)
  BY <1>1, <1>6 DEF TasksTold, QueueInv
<1>8. Heard(new, Range(q), Range(y), Range(w))
  <2>1. PICK X : X = e.vols
    OBVIOUS
  <2>2. Queued(X, V, new, q, x, y, w) /\ IsSeq(q) /\ IsSeq(x) /\ Range(x) = TaskEvents(new, TRUE)
    BY <1>6, <1>7, <2>1
  <2> QED BY <2>2, QueuedRange
<1>9. QueueInv(m, U, D, w)
  <2>1. PICK z : z = q \o x
    OBVIOUS
  <2>2. AllOK(l, T) /\ AllOK(l, U) /\ QueueInv(l, T, D, q)
    BY <1>1, <1>2, <1>4 DEF Kinds
  <2>3. QueueInv(l, U, D, z)
    BY <1>6, <2>1, <2>2, QueueTasks
  <2>4. IsSeq(y) /\ (\A a \in DOMAIN y : y[a].type = "volume") /\ w = z \o y
    BY <1>5, <2>1 DEF TellsVols
  <2>5. QueueInv(l, U, D, w)
    BY <2>3, <2>4, QueueVols
  <2> QED BY <2>5, QueueLeft
<1>10. PICK E, G : E = Range(q) /\ G = Range(w)
  OBVIOUS
<1>11. TaskPart(m, U, G, p2, r2)
  <2>1. TaskPart(l, T, E, p, r) /\ Kinds(l, T, p, r) /\ PictureOK(T, l.pre, p)
        /\ RunOK(T, l.pre, p, r) /\ Written(T, U, p, p2, r, r2, new, F) /\ r.phase = "plan"
    BY <1>1, <1>4, <1>10
  <2>2. \A a \in E : EventFine(l, T, D, a)
    BY <1>1, <1>4, <1>10 DEF QueueInv, Range
  <2>3. PICK Y : Y = Range(y)
    OBVIOUS
  <2>4. Heard(new, E, Y, G)
    BY <1>8, <1>10, <2>3
  <2>5. TaskPart(l, U, G, p2, r2)
    BY <2>1, <2>2, <2>4, TasksWritten
  <2>6. m.pre = l.pre
    BY DEF LeftStep
  <2> QED BY <2>5, <2>6, TasksOther
<1>12. Parts(l, d, E, p2.all, p2.nodes, p2.vols)
  <2>1. AllOK(l, p.all) /\ AllOK(l, p2.all)
    BY <1>1, <1>2 DEF Kinds
  <2>2. PICK dec, A, B : dec = r.dec /\ A = p.all /\ B = p2.all
    OBVIOUS
  <2>3. \A i \in M : dec[i].new.id = i /\ (LiveIn(A, i) => A[i] = dec[i].new)
    BY <1>3, <2>2
  <2>4. Lost(A, B, M)
    BY <2>2, AppliedLost
  <2>5. PICK N, W : N = p.nodes /\ W = p.vols
    OBVIOUS
  <2>6. /\ AllOK(l, A) /\ AllOK(l, B) /\ Parts(l, d, E, A, N, W) /\ RoomOK(l)
        /\ gone = Claims(dec, M)
    BY <1>1, <1>10, <2>1, <2>2, <2>5
  <2>7. Parts(l, d, E, B, Removed(N, gone), releaseVolumes(W, gone))
    BY <2>3, <2>4, <2>6, PartsGivenBack
  <2> QED BY <2>2, <2>5, <2>7
<1>13. NodePart(m, D, G, p2.all, p2.nodes)
  <2>1. NodePart(l, D, E, p2.all, p2.nodes)
    BY <1>4, <1>12 DEF Parts
  <2>2. E \subseteq G
    BY <1>8, <1>10 DEF Heard
  <2>3. ASSUME NEW a \in G PROVE a \in E \/ ~ofNode(a)
    <3>1. CASE a \in Range(y)
      BY <1>8, <3>1 DEF ofNode, Heard
    <3>2. CASE \E i \in DOMAIN new : a = Own("task", new[i])
      BY <3>2 DEF ofNode, Own
    <3> QED BY <1>8, <1>10, <3>1, <3>2 DEF Heard
  <2> QED BY <2>1, <2>2, <2>3, NodesOther
<1>14. VolPart(m, e.vols, G, p2.all, p2.vols)
  <2>1. VolPart(l, d.vols, E, p2.all, p2.vols)
    BY <1>12 DEF Parts
  <2>2. PICK W, X : W = d.vols /\ X = e.vols
    OBVIOUS
  <2>3. Statuses(l, W, X) /\ V \subseteq DOMAIN X /\ TellsVols(X, V, y)
    BY <1>5, <2>2
  <2>4. E \subseteq G /\ \A a \in G : a \in E \/ a.type # "volume" \/ a \in Range(y)
    BY <1>8, <1>10 DEF Heard, Own
  <2>5. VolWrites(l, W, X, E, G)
    BY <2>3, <2>4, StatusWrites
  <2> QED BY <2>1, <2>2, <2>5, VolsWritten
<1>15. Kinds(m, U, p2, r2)
  BY <1>2, <1>4, KindsLeft
<1> QED BY <1>1, <1>4, <1>9, <1>10, <1>11, <1>13, <1>14, <1>15 DEF Pic

Names(T, M) == {t.id : t \in T} = M

Bare(p, T, M, b) ==
  /\ IsPicture(b) /\ b.unassigned = p.unassigned
  /\ b.all = Restrict(p.all, DOMAIN p.all \ M) /\ b.pre = Restrict(p.pre, DOMAIN p.pre \ M)
  /\ b.nodes = Removed(p.nodes, T) /\ b.vols = releaseVolumes(p.vols, T)

LEMMA BareFields ==
  ASSUME NEW p, IsPicture(p), NEW T, NEW M, Names(T, M), NEW b, b = deleteTasks(p, T)
  PROVE  Bare(p, T, M, b)
<1>1. PICK all, pre, nodes, vols :
        /\ all = Restrict(p.all, DOMAIN p.all \ M) /\ pre = Restrict(p.pre, DOMAIN p.pre \ M)
        /\ nodes = Removed(p.nodes, T) /\ vols = releaseVolumes(p.vols, T)
  OBVIOUS
<1>2. b = [p EXCEPT !.all = all, !.pre = pre, !.vols = vols, !.nodes = nodes]
  <2>1. PICK I : I = {t.id : t \in T}
    OBVIOUS
  <2>2. b = [p EXCEPT !.all = Restrict(@, DOMAIN @ \ {t.id : t \in T}),
                      !.pre = Restrict(@, DOMAIN @ \ {t.id : t \in T}),
                      !.vols = releaseVolumes(@, T), !.nodes = Removed(@, T)]
    BY Zenon DEF deleteTasks
  <2>3. b = [p EXCEPT !.all = Restrict(@, DOMAIN @ \ I), !.pre = Restrict(@, DOMAIN @ \ I),
                      !.vols = vols, !.nodes = nodes]
    BY <1>1, <2>1, <2>2, Zenon
  <2>4. I = M
    BY <2>1 DEF Names
  <2> QED BY <1>1, <2>3, <2>4 DEF IsPicture
<1> QED BY <1>1, <1>2 DEF IsPicture, Bare

(* What was written, in the picture.                                        *)
Noted(b, new, ok, p2) ==
  p2 = [b EXCEPT !.all = Overlay(new, @),
                 !.unassigned = Overlay(Restrict(new, ok \cap DOMAIN @), @)]

Notes(p, T, M, new, p2) ==
  LET ok == DOMAIN new
  IN  /\ p2.nodes = Removed(p.nodes, T) /\ p2.vols = releaseVolumes(p.vols, T)
      /\ \A i : i \in DOMAIN p2.all <=> i \in ok \/ (i \in DOMAIN p.all /\ i \notin M)
      /\ \A i \in DOMAIN p2.all : p2.all[i] = IF i \in ok THEN new[i] ELSE p.all[i]
      /\ \A i \in DOMAIN p2.pre : i \in DOMAIN p.pre /\ p2.pre[i] = p.pre[i]
      /\ \A i \in DOMAIN p2.unassigned :
           /\ i \in DOMAIN p.unassigned
           /\ p2.unassigned[i] = IF i \in ok THEN new[i] ELSE p.unassigned[i]

LEMMA AppliedPicture ==
  ASSUME NEW p, NEW T, NEW M, NEW b, Bare(p, T, M, b),
         NEW new, NEW ok, ok = DOMAIN new,
         NEW p2, Noted(b, new, ok, p2)
  PROVE  Notes(p, T, M, new, p2)
<1>1. /\ IsPicture(b) /\ b.unassigned = p.unassigned
      /\ b.all = Restrict(p.all, DOMAIN p.all \ M) /\ b.pre = Restrict(p.pre, DOMAIN p.pre \ M)
      /\ b.nodes = Removed(p.nodes, T) /\ b.vols = releaseVolumes(p.vols, T)
  BY DEF Bare
<1>2. PICK all, una : /\ all = Overlay(new, b.all)
                      /\ una = Overlay(Restrict(new, ok \cap DOMAIN p.unassigned), p.unassigned)
  OBVIOUS
<1>3. p2 = [b EXCEPT !.all = all, !.unassigned = una]
  BY <1>1, <1>2 DEF Noted
<1>4. /\ p2.all = all /\ p2.unassigned = una /\ p2.pre = b.pre /\ p2.nodes = b.nodes
      /\ p2.vols = b.vols
  BY <1>1, <1>3 DEF IsPicture
<1>5. \A i : i \in DOMAIN all <=> i \in ok \/ (i \in DOMAIN p.all /\ i \notin M)
  BY <1>1, <1>2 DEF Overlay, Restrict
<1>6. \A i \in DOMAIN all : all[i] = IF i \in ok THEN new[i] ELSE p.all[i]
  BY <1>1, <1>2 DEF Overlay, Restrict
<1>7. \A i \in DOMAIN b.pre : i \in DOMAIN p.pre /\ b.pre[i] = p.pre[i]
  BY <1>1 DEF Restrict
<1>8. \A i \in DOMAIN una : /\ i \in DOMAIN p.unassigned
                            /\ una[i] = IF i \in ok THEN new[i] ELSE p.unassigned[i]
  BY <1>2 DEF Overlay, Restrict
<1> QED BY <1>1, <1>4, <1>5, <1>6, <1>7, <1>8 DEF Notes

(* Which decisions are written, which are refused, and which say nothing.   *)
Sorted(T, r, r2, M, F, same, ok, new) ==
  /\ M = DOMAIN r.dec \ DOMAIN T /\ F \subseteq DOMAIN r.dec \ M
  /\ \A i \in same : T[i].state = r.dec[i].new.state
  /\ ok = DOMAIN r.dec \ (M \cup same \cup F)
  /\ \A i \in ok : T[i].ver = r.dec[i].old.ver
  /\ new = [i \in ok |-> NextVersion(r.dec[i].new)]
  /\ r2.phase = "free" /\ r2.failed = F /\ r2.ok = ok /\ r2.dec = r.dec /\ r2.job = r.job

LEMMA AppliedWritten ==
  ASSUME NEW T, NEW p, NEW r, NEW r2, NEW M, NEW F, NEW same, NEW ok, NEW new,
         Sorted(T, r, r2, M, F, same, ok, new),
         NEW gone, NEW b, Bare(p, gone, M, b), NEW p2, Noted(b, new, ok, p2),
         NEW U, U = Overlay(new, T)
  PROVE  /\ Written(T, U, p, p2, r, r2, new, F)
         /\ p2.nodes = Removed(p.nodes, gone) /\ p2.vols = releaseVolumes(p.vols, gone)
<1> USE DEF Sorted
<1>1. ok = DOMAIN new /\ \A i \in ok : new[i] = NextVersion(r.dec[i].new)
  OBVIOUS
<1>2. Notes(p, gone, M, new, p2)
  BY <1>1, AppliedPicture
<1>3. ok \subseteq DOMAIN r.dec \cap DOMAIN T /\ F \subseteq DOMAIN r.dec \cap DOMAIN T /\ ok \cap F = {}
  OBVIOUS
<1>4. \A i \in (DOMAIN r.dec \cap DOMAIN T) \ (ok \cup F) : T[i].state = r.dec[i].new.state
  OBVIOUS
<1>5. DOMAIN U = DOMAIN T /\ \A i \in DOMAIN T : U[i] = IF i \in ok THEN new[i] ELSE T[i]
  BY <1>1, <1>3 DEF Overlay
<1>6. /\ p2.nodes = Removed(p.nodes, gone) /\ p2.vols = releaseVolumes(p.vols, gone)
      /\ \A i \in DOMAIN p2.all : p2.all[i] = IF i \in ok THEN new[i] ELSE p.all[i]
      /\ \A i \in DOMAIN p2.pre : i \in DOMAIN p.pre /\ p2.pre[i] = p.pre[i]
      /\ \A i \in DOMAIN p2.unassigned :
           /\ i \in DOMAIN p.unassigned
           /\ p2.unassigned[i] = IF i \in ok THEN new[i] ELSE p.unassigned[i]
  BY <1>1, <1>2 DEF Notes
<1>7. \A i : i \in DOMAIN p2.all <=>
             i \in ok \/ (i \in DOMAIN p.all /\ ~(i \in DOMAIN r.dec /\ i \notin DOMAIN T))
  BY <1>1, <1>2 DEF Notes
<1> QED BY <1>1, <1>3, <1>4, <1>5, <1>6, <1>7 DEF Written

LEMMA ApplyPic ==
  ASSUME Invs, Apply, Pic(left, db, queue, s, run)
  PROVE  LeftOK(left') /\ LeftStep(left, left') /\ Pic(left', db', queue', s', run')
<1> DEFINE ok == DOMAIN run.dec \ (Missing \cup Unchanged \cup Refused)
           new == [i \in ok |-> NextVersion(run.dec[i].new)]
           vols == Published(db, Range(new))
           changed == {v \in DOMAIN vols : vols[v] # db.vols[v]}
           gone == {run.dec[i].new : i \in Missing}
           bare == deleteTasks(s, gone)
<1>1. /\ db' = [db EXCEPT !.tasks = Overlay(new, @), !.vols = vols]
      /\ s' = [bare EXCEPT !.all = Overlay(new, @),
                           !.unassigned = Overlay(Restrict(new, ok \cap DOMAIN @), @)]
      /\ run' = [run EXCEPT !.phase = "free", !.ok = ok, !.failed = Refused]
      /\ queue' = queue \o SetToSeq({Own("task", t) : t \in Range(new)})
                        \o SetToSeq({Own("volume", [id |-> v, vol |-> vols[v]]) : v \in changed})
      /\ \E x : left' = [left EXCEPT !.stale = left.stale \/ x]
      /\ run.phase = "plan"
  BY DEF Apply
<1>2. new = [i \in ok |-> NextVersion(run.dec[i].new)] /\ DOMAIN new = ok
      /\ ok = DOMAIN run.dec \ (Missing \cup Unchanged \cup Refused)
  OBVIOUS
<1>3. changed \subseteq DOMAIN vols
  OBVIOUS
<1>4. gone = Claims(run.dec, Missing) /\ bare = deleteTasks(s, gone)
  BY DEF Claims
<1>5. vols = Published(db, Range(new))
  OBVIOUS
<1> HIDE DEF ok, new, vols, changed, gone, bare
<1>6. /\ IsDb(db) /\ VolumeTypes /\ LeftOK(left)
      /\ PictureOK(db.tasks, left.pre, s) /\ RunOK(db.tasks, left.pre, s, run)
      /\ IsFiniteSet(DOMAIN db.tasks) /\ \A v \in left.new : v \notin DOMAIN db.vols
      /\ Copies(db.tasks, left.pre, db.tasks)
  BY InvTypes DEF Invs, DecisionInv
<1>7. LeftOK(left') /\ LeftStep(left, left')
  <2>1. PICK l, m, x : l = left /\ m = left' /\ m = [l EXCEPT !.stale = l.stale \/ x]
    BY <1>1
  <2>2. l.stale => (l.stale \/ x)
    OBVIOUS
  <2>3. LeftOK(m) /\ LeftStep(l, m)
    BY <1>6, <2>1, <2>2, LeftFrames
  <2> QED BY <2>1, <2>3
<1>8. /\ IsRun(run) /\ run.job \in {"pre", "tick"} /\ IsPicture(s)
      /\ \A i \in DOMAIN run.dec : Decision(db.tasks, left.pre, i, run.dec[i], run.job = "tick")
  BY <1>1, <1>6 DEF RunOK, PictureOK
<1>9. /\ db'.tasks = Overlay(new, db.tasks) /\ db'.nodes = db.nodes /\ db'.vols = vols
  BY <1>1, <1>6 DEF IsDb
<1>10. /\ run'.phase = "free" /\ run'.failed = Refused /\ run'.ok = ok /\ run'.dec = run.dec
       /\ run'.job = run.job
  BY <1>1, <1>8 DEF IsRun
<1>11. PICK p, r, d, e, q, w, l, m, p2, r2 :
         /\ p = s /\ r = run /\ d = db /\ e = db' /\ q = queue /\ w = queue'
         /\ l = left /\ m = left' /\ p2 = s' /\ r2 = run'
  OBVIOUS
<1>12. PICK T, M, F, same : T = db.tasks /\ M = Missing /\ F = Refused /\ same = Unchanged
  OBVIOUS
<1>13. /\ M = DOMAIN r.dec \ DOMAIN T /\ F \subseteq DOMAIN r.dec \ M
       /\ \A i \in same : T[i].state = r.dec[i].new.state
       /\ \A i \in ok : T[i].ver = r.dec[i].old.ver
  BY <1>2, <1>11, <1>12 DEF Missing, Refused, Unchanged
<1>14. Bare(p, gone, M, bare)
  <2>1. \A i \in M : r.dec[i].new.id = i
    BY <1>8, <1>11, <1>13 DEF Decision
  <2>2. gone = Claims(r.dec, M)
    BY <1>4, <1>11, <1>12
  <2>3. Names(gone, M)
    BY <2>1, <2>2 DEF Names, Claims
  <2>4. IsPicture(p) /\ bare = deleteTasks(p, gone)
    BY <1>4, <1>8, <1>11
  <2> QED BY <2>3, <2>4, BareFields
<1>15. /\ Written(T, Overlay(new, T), p, p2, r, r2, new, F)
       /\ p2.nodes = Removed(p.nodes, gone) /\ p2.vols = releaseVolumes(p.vols, gone)
  <2>1. Noted(bare, new, ok, p2)
    BY <1>1, <1>11 DEF Noted
  <2>2. PICK U : U = Overlay(new, T)
    OBVIOUS
  <2>3. ok = DOMAIN r.dec \ (M \cup same \cup F) /\ new = [i \in ok |-> NextVersion(r.dec[i].new)]
    BY <1>2, <1>11, <1>12
  <2>4. r2.phase = "free" /\ r2.failed = F /\ r2.ok = ok /\ r2.dec = r.dec /\ r2.job = r.job
    BY <1>10, <1>11, <1>12
  <2>5. /\ Written(T, U, p, p2, r, r2, new, F)
        /\ p2.nodes = Removed(p.nodes, gone) /\ p2.vols = releaseVolumes(p.vols, gone)
    <3>1. Sorted(T, r, r2, M, F, same, ok, new)
      BY <1>13, <2>3, <2>4 DEF Sorted
    <3> QED BY <1>14, <2>1, <2>2, <3>1, AppliedWritten
  <2> QED BY <2>2, <2>5
<1>16. Applies(l, d, e, q, p, r, p2, r2, new, F)
  <2>1. Written(d.tasks, e.tasks, p, p2, r, r2, new, F) /\ e.nodes = d.nodes
    BY <1>9, <1>11, <1>12, <1>15
  <2>2. LeftOK(l) /\ Pic(l, d, q, p, r) /\ r.phase = "plan"
    BY <1>1, <1>6, <1>11
  <2>3. PictureOK(d.tasks, l.pre, p) /\ RunOK(d.tasks, l.pre, p, r)
    BY <1>6, <1>11
  <2> QED BY <2>1, <2>2, <2>3 DEF Applies
<1>17. \A i \in DOMAIN new : i \in DOMAIN T /\ Forward(T[i], new[i])
  <2> SUFFICES ASSUME NEW i \in DOMAIN new PROVE i \in DOMAIN T /\ Forward(T[i], new[i])
    OBVIOUS
  <2>1. i \in DOMAIN r.dec /\ i \in DOMAIN T /\ T[i].ver = r.dec[i].old.ver
    BY <1>2, <1>11, <1>12, <1>13
  <2>2. PICK free \in BOOLEAN : Decision(T, l.pre, i, r.dec[i], free)
    BY <1>8, <1>11, <1>12, <2>1
  <2>3. Copies(T, l.pre, T) /\ new[i] = NextVersion(r.dec[i].new)
    BY <1>2, <1>6, <1>11, <1>12
  <2>4. Forward(T[i], NextVersion(r.dec[i].new))
    BY <2>1, <2>2, <2>3, AppliedForward
  <2> QED BY <2>1, <2>3, <2>4
<1>18. Statuses(l, d.vols, e.vols) /\ changed \subseteq DOMAIN e.vols /\ e.vols = vols
  <2>1. vols = Published(d, Range(new)) /\ IsVols(d.vols) /\ \A v \in l.new : v \notin DOMAIN d.vols
    BY <1>5, <1>6, <1>11 DEF VolumeTypes
  <2>2. Statuses(l, d.vols, vols)
    BY <2>1, PublishedInfo
  <2> QED BY <1>3, <1>9, <1>11, <2>2
<1>19. PICK x, y : x = SetToSeq(TaskEvents(new, TRUE)) /\ y = SetToSeq(VolumeEvents(vols, changed))
  OBVIOUS
<1>20. Queued(vols, changed, new, q, x, y, w)
  <2>1. {Own("task", t) : t \in Range(new)} = TaskEvents(new, TRUE)
    BY DEF TaskEvents, Own
  <2>2. {Own("volume", [id |-> v, vol |-> vols[v]]) : v \in changed} = VolumeEvents(vols, changed)
    BY DEF VolumeEvents
  <2>3. w = (q \o x) \o y
    BY <1>1, <1>11, <1>19, <2>1, <2>2
  <2>4. changed \subseteq DOMAIN Volumes
    BY <1>6, <1>11, <1>18 DEF VolumeTypes, IsVols, Statuses
  <2>5. TellsVols(vols, changed, y)
    BY <1>19, <2>4, VolsTold
  <2>6. new = [i \in DOMAIN new |-> new[i]]
    BY <1>2
  <2>7. IsFiniteSet(DOMAIN new)
    BY <1>6, <1>12, <1>17, FS_Subset
  <2> QED BY <1>19, <2>3, <2>5, <2>6, <2>7 DEF Queued
<1>21. Pic(m, e, w, p2, r2)
  <2>1. LeftStep(l, m) /\ M = DOMAIN r.dec \ DOMAIN d.tasks /\ gone = Claims(r.dec, M)
    BY <1>4, <1>7, <1>11, <1>12, <1>13
  <2>2. p2.nodes = Removed(p.nodes, gone) /\ p2.vols = releaseVolumes(p.vols, gone)
    BY <1>15
  <2>3. e.tasks = Overlay(new, d.tasks) /\ \A i \in DOMAIN new : Forward(d.tasks[i], new[i])
    BY <1>9, <1>11, <1>12, <1>17
  <2>4. Queued(e.vols, changed, new, q, x, y, w)
    BY <1>18, <1>20
  <2> QED BY <1>16, <1>18, <2>1, <2>2, <2>3, <2>4, PicApplied
<1> QED BY <1>7, <1>11, <1>21

-----------------------------------------------------------------------------
(* The pass ends                                                            *)

Olds(dec, M) == [i \in M |-> dec[i].old]

(* What the refused decisions claimed is given back.                        *)
Undone(p, r, p2) ==
  /\ p2.all = Overlay(Olds(r.dec, r.failed), p.all)
  /\ p2.nodes = Removed(p.nodes, Claims(r.dec, r.failed))
  /\ p2.vols = releaseVolumes(p.vols, Claims(r.dec, r.failed))
  /\ p2.unassigned \in {p.unassigned, Overlay(Olds(r.dec, r.failed), p.unassigned)}
  /\ \A i \in DOMAIN p2.pre : /\ i \in DOMAIN p.pre /\ p2.pre[i] = p.pre[i]
                              /\ ~(r.job = "pre" /\ i \in r.ok /\ Live(r.dec[i].new))

LEMMA PicUndone ==
  ASSUME NEW l, LeftOK(l), NEW d, NEW q, NEW p, NEW r, Pic(l, d, q, p, r), r.phase = "free",
         RunOK(d.tasks, l.pre, p, r), NEW p2, Undone(p, r, p2), NEW r2, r2.phase = "idle"
  PROVE  Pic(l, d, q, p2, r2)
<1>1. PICK T, E, F, again, dec : /\ T = d.tasks /\ E = Range(q) /\ F = r.failed /\ dec = r.dec
                                 /\ again = Olds(r.dec, r.failed)
  OBVIOUS
<1>2. /\ Kinds(l, T, p, r) /\ QueueInv(l, T, d.nodes, q) /\ TaskPart(l, T, E, p, r)
      /\ Parts(l, d, E, p.all, p.nodes, p.vols) /\ RoomOK(l) /\ RunOK(T, l.pre, p, r)
  BY <1>1 DEF Pic, Parts, LeftOK
<1>3. /\ AllOK(l, T) /\ AllOK(l, p.all) /\ AllOK(l, p.unassigned) /\ AllOK(l, p.pre)
  BY <1>2 DEF Kinds
<1>4. ASSUME NEW i \in F
      PROVE  /\ TaskOK(l, dec[i].old) /\ dec[i].old.id = i /\ dec[i].new.id = i
             /\ ~Live(dec[i].old) /\ i \in DOMAIN p.all /\ p.all[i] = dec[i].new
  <2>1. i \in DOMAIN r.dec /\ Claimed(r, i)
    BY <1>1, <1>2, <1>4 DEF RunOK, Claimed
  <2>2. TaskOK(l, dec[i].old)
    BY <1>1, <1>2, <2>1 DEF Kinds
  <2>3. dec[i].old.id = i /\ dec[i].new.id = i /\ dec[i].old.state = TaskStatePending
    BY <1>1, <1>2, <2>1 DEF RunOK, Decision
  <2>4. ~Live(dec[i].old)
    BY <2>3 DEF Live, TaskStatePending, TaskStateAssigned
  <2>5. i \in DOMAIN p.all /\ p.all[i] = dec[i].new
    BY <1>1, <1>2, <2>1 DEF TaskPart
  <2> QED BY <2>2, <2>3, <2>4, <2>5
<1>5. DOMAIN again = F /\ \A i \in F : again[i] = dec[i].old
  BY <1>1 DEF Olds
<1>6. /\ p2.all = Overlay(again, p.all)
      /\ p2.unassigned \in {p.unassigned, Overlay(again, p.unassigned)}
      /\ \A i \in DOMAIN p2.pre : /\ i \in DOMAIN p.pre /\ p2.pre[i] = p.pre[i]
                                  /\ ~(r.job = "pre" /\ i \in r.ok /\ Live(r.dec[i].new))
  BY <1>1 DEF Undone
<1>7. ASSUME NEW f, AllOK(l, f) PROVE AllOK(l, Overlay(again, f))
  BY <1>4, <1>5, <1>7 DEF AllOK, Overlay
<1>8. AllOK(l, p2.all) /\ AllOK(l, p2.unassigned)
  BY <1>3, <1>6, <1>7
<1>9. AllOK(l, p2.pre)
  BY <1>3, <1>6 DEF AllOK
<1>10. Kinds(l, T, p2, r2)
  BY <1>3, <1>8, <1>9 DEF Kinds
<1>11. TaskPart(l, T, E, p2, r2)
  <2>1. again = [i \in r.failed |-> r.dec[i].old]
    BY <1>1 DEF Olds
  <2> QED BY <1>2, <1>6, <2>1, TasksFinished
<1>12. Lost(p.all, p2.all, F)
  <2> SUFFICES ASSUME NEW i \in Tasks
               PROVE  /\ LiveIn(p2.all, i) <=> LiveIn(p.all, i) /\ i \notin F
                      /\ LiveIn(p2.all, i) => p2.all[i] = p.all[i]
    BY DEF Lost
  <2>1. CASE i \in F
    <3>1. i \in DOMAIN p2.all /\ p2.all[i] = dec[i].old
      BY <1>5, <1>6, <2>1 DEF Overlay
    <3> QED BY <1>4, <2>1, <3>1 DEF LiveIn
  <2>2. CASE i \notin F
    <3>1. (i \in DOMAIN p2.all <=> i \in DOMAIN p.all) /\ (i \in DOMAIN p.all => p2.all[i] = p.all[i])
      BY <1>5, <1>6, <2>2 DEF Overlay
    <3> QED BY <2>2, <3>1 DEF LiveIn
  <2> QED BY <2>1, <2>2
<1>13. Parts(l, d, E, p2.all, p2.nodes, p2.vols)
  <2>1. PICK A, B, N, W, gone : /\ A = p.all /\ B = p2.all /\ N = p.nodes /\ W = p.vols
                                /\ gone = Claims(dec, F)
    OBVIOUS
  <2>2. \A i \in F : dec[i].new.id = i /\ (LiveIn(A, i) => A[i] = dec[i].new)
    BY <1>4, <2>1
  <2>3. /\ AllOK(l, A) /\ AllOK(l, B) /\ Parts(l, d, E, A, N, W) /\ RoomOK(l) /\ Lost(A, B, F)
        /\ gone = Claims(dec, F)
    BY <1>2, <1>3, <1>8, <1>12, <2>1
  <2>4. Parts(l, d, E, B, Removed(N, gone), releaseVolumes(W, gone))
    BY <2>2, <2>3, PartsGivenBack
  <2>5. p2.nodes = Removed(N, gone) /\ p2.vols = releaseVolumes(W, gone)
    BY <1>1, <2>1 DEF Undone
  <2> QED BY <2>1, <2>4, <2>5
<1> QED BY <1>1, <1>2, <1>10, <1>11, <1>13 DEF Pic, Parts

LEMMA GivenFields ==
  ASSUME NEW q, IsPicture(q), NEW old, NEW new, NEW u, u = GiveBack(q, old, new)
  PROVE  /\ IsPicture(u) /\ u.unassigned = q.unassigned /\ u.pre = q.pre
         /\ u.all = Overlay(old, q.all) /\ u.nodes = Removed(q.nodes, new)
         /\ u.vols = releaseVolumes(q.vols, new)
<1>1. PICK a, n, v : /\ a = Overlay(old, q.all) /\ n = Removed(q.nodes, new)
                     /\ v = releaseVolumes(q.vols, new)
  OBVIOUS
<1>2. u = [q EXCEPT !.all = a, !.nodes = n, !.vols = v]
  BY <1>1 DEF GiveBack
<1> QED BY <1>1, <1>2 DEF IsPicture

(* The volumes freed are written after the picture is settled.              *)
LEMMA PicFreed ==
  ASSUME NEW l, NEW d, NEW q, NEW p, NEW r, Pic(l, d, q, p, r),
         NEW e, e.tasks = d.tasks, e.nodes = d.nodes, Statuses(l, d.vols, e.vols),
         NEW V, V \subseteq DOMAIN e.vols, NEW y, TellsVols(e.vols, V, y), NEW w, w = q \o y,
         LeftStep(l, l)
  PROVE  Pic(l, e, w, p, r)
<1>1. IsSeq(q) /\ IsSeq(y) /\ \A a \in DOMAIN y : y[a].type = "volume"
  BY DEF Pic, QueueInv, TellsVols
<1>2. Range(w) = Range(q) \cup Range(y)
  BY <1>1, CatRange
<1>4. PICK W, X, E, G : W = d.vols /\ X = e.vols /\ E = Range(q) /\ G = Range(w)
  OBVIOUS
<1>5. Statuses(l, W, X) /\ V \subseteq DOMAIN X /\ TellsVols(X, V, y) /\ E \subseteq G
      /\ \A a \in G : a \in E \/ a.type # "volume" \/ a \in Range(y)
  BY <1>2, <1>4
<1>6. VolWrites(l, W, X, E, G)
  BY <1>5, StatusWrites
<1>7. VolWrites(l, d.vols, e.vols, Range(q), Range(w))
  BY <1>4, <1>6
<1> QED BY <1>1, <1>7, PicVols

LEMMA FreedRange ==
  ASSUME NEW q, IsSeq(q), NEW X, NEW V, NEW y, TellsVols(X, V, y), NEW w, w = q \o y
  PROVE  \A a \in Range(w) : a \in Range(q) \/ a.type = "volume"
<1>1. IsSeq(y) /\ \A a \in DOMAIN y : y[a].type = "volume"
  BY DEF TellsVols
<1>2. Range(w) = Range(q) \cup Range(y)
  BY <1>1, CatRange
<1>3. \A a \in Range(y) : a.type = "volume"
  BY <1>1 DEF Range
<1> QED BY <1>2, <1>3

LEMMA PicTicked ==
  ASSUME NEW l, NEW d, NEW q, NEW p, NEW r, Pic(l, d, q, p, r), r.phase = "free", r.job = "pre"
  PROVE  \A e \in Range(q) : e.type = "task" /\ e.own => l.pre[e.obj.id] # None
<1> SUFFICES ASSUME NEW e \in Range(q), e.type = "task", e.own PROVE l.pre[e.obj.id] # None
  OBVIOUS
<1>1. BehindOK(l, p, r, e)
  BY DEF Pic, TaskPart
<1> QED BY <1>1 DEF BehindOK

LEMMA FinishPic ==
  ASSUME Invs, Finish, Pic(left, db, queue, s, run)
  PROVE  LeftOK(left') /\ LeftStep(left, left') /\ Pic(left', db', queue', s', run')
<1> DEFINE vols == Freed(db, s.vols)
           changed == {v \in DOMAIN vols : vols[v] # db.vols[v]}
           again == [i \in run.failed |-> run.dec[i].old]
           undone == GiveBack(s, again, {run.dec[i].new : i \in run.failed})
           done == {i \in run.ok : Live(run.dec[i].new)}
           r0 == [Idle EXCEPT !.timer = run.timer, !.tick = run.tick]
           p0 == [undone EXCEPT !.pre = Restrict(@, DOMAIN @ \ done)]
<1>1. /\ run.phase = "free" /\ db' = [db EXCEPT !.vols = vols] /\ left' = left
      /\ queue' = queue \o SetToSeq({Own("volume", [id |-> v, vol |-> vols[v]]) : v \in changed})
      /\ \/ run.job = "tick" /\ s' = [undone EXCEPT !.unassigned = Overlay(again, @)]
            /\ run' = Ticked(r0)
         \/ run.job = "pre" /\ (StartTick(p0, r0) \/ (s' = p0 /\ run' = r0))
  BY DEF Finish
<1>2. changed \subseteq DOMAIN vols /\ vols = Freed(db, s.vols)
  OBVIOUS
<1>3. again = Olds(run.dec, run.failed) /\ undone = GiveBack(s, again, Claims(run.dec, run.failed))
  BY DEF Olds, Claims
<1>4. done = {i \in run.ok : Live(run.dec[i].new)}
  OBVIOUS
<1>5. IsRun(r0) /\ r0.phase = "idle" /\ IsRun(Ticked(r0)) /\ Ticked(r0).phase = "idle"
  BY IdleRun
<1>6. PICK p1 : p1 = p0 /\ p1 = [undone EXCEPT !.pre = Restrict(@, DOMAIN @ \ done)]
  OBVIOUS
<1> HIDE DEF vols, changed, again, undone, done, r0, p0
<1>7. /\ IsDb(db) /\ VolumeTypes /\ LeftOK(left)
      /\ PictureOK(db.tasks, left.pre, s) /\ RunOK(db.tasks, left.pre, s, run)
      /\ \A v \in left.new : v \notin DOMAIN db.vols
  BY InvTypes
<1>8. LeftOK(left') /\ LeftStep(left, left')
  BY <1>1, <1>7, SameLeft
<1>9. PICK p, r, d, e, q, w, l, p2, r2 :
         /\ p = s /\ r = run /\ d = db /\ e = db' /\ q = queue /\ w = queue'
         /\ l = left /\ p2 = s' /\ r2 = run'
  OBVIOUS
<1>10. e.tasks = d.tasks /\ e.nodes = d.nodes /\ e.vols = vols
  BY <1>1, <1>7, <1>9 DEF IsDb
<1>11. Statuses(l, d.vols, e.vols) /\ changed \subseteq DOMAIN e.vols
  <2>1. vols = Freed(d, s.vols) /\ IsVols(d.vols) /\ \A v \in l.new : v \notin DOMAIN d.vols
    BY <1>2, <1>7, <1>9 DEF VolumeTypes
  <2>2. Statuses(l, d.vols, vols)
    BY <2>1, FreedInfo
  <2> QED BY <1>2, <1>10, <2>2
<1>12. PICK y : y = SetToSeq(VolumeEvents(vols, changed))
  OBVIOUS
<1>13. TellsVols(e.vols, changed, y) /\ w = q \o y
  <2>1. {Own("volume", [id |-> v, vol |-> vols[v]]) : v \in changed} = VolumeEvents(vols, changed)
    BY DEF VolumeEvents
  <2>2. changed \subseteq DOMAIN Volumes
    BY <1>7, <1>9, <1>11 DEF VolumeTypes, IsVols, Statuses
  <2>3. TellsVols(vols, changed, y)
    BY <1>12, <2>2, VolsTold
  <2> QED BY <1>1, <1>9, <1>10, <1>12, <2>1, <2>3
<1>14. /\ IsPicture(undone) /\ undone.unassigned = p.unassigned /\ undone.pre = p.pre
       /\ undone.all = Overlay(again, p.all) /\ again = Olds(r.dec, r.failed)
       /\ undone.nodes = Removed(p.nodes, Claims(r.dec, r.failed))
       /\ undone.vols = releaseVolumes(p.vols, Claims(r.dec, r.failed))
  <2>1. PICK gone : gone = Claims(r.dec, r.failed)
    OBVIOUS
  <2>2. undone = GiveBack(p, again, gone) /\ IsPicture(p)
    BY <1>3, <1>7, <1>9, <2>1 DEF PictureOK
  <2>3. /\ IsPicture(undone) /\ undone.unassigned = p.unassigned /\ undone.pre = p.pre
        /\ undone.all = Overlay(again, p.all) /\ undone.nodes = Removed(p.nodes, gone)
        /\ undone.vols = releaseVolumes(p.vols, gone)
    BY <2>2, GivenFields
  <2> QED BY <1>3, <1>9, <2>1, <2>3
<1>15. LeftOK(l) /\ Pic(l, d, q, p, r) /\ r.phase = "free" /\ RunOK(d.tasks, l.pre, p, r) /\ LeftStep(l, l)
  BY <1>1, <1>7, <1>8, <1>9
<1>16. ASSUME NEW u, Undone(p, r, u), NEW o, o.phase = "idle"
       PROVE  Pic(l, e, w, u, o)
  <2>1. Pic(l, d, q, u, o)
    BY <1>15, <1>16, PicUndone
  <2>2. e.tasks = d.tasks /\ e.nodes = d.nodes
    BY <1>10
  <2> QED BY <1>11, <1>13, <1>15, <2>1, <2>2, PicFreed
<1> SUFFICES Pic(l, e, w, p2, r2)
  BY <1>1, <1>8, <1>9
<1>17. CASE /\ run.job = "tick" /\ s' = [undone EXCEPT !.unassigned = Overlay(again, @)]
            /\ run' = Ticked(r0)
  <2>1. PICK una : una = Overlay(again, p.unassigned)
    OBVIOUS
  <2>2. p2 = [undone EXCEPT !.unassigned = una]
    BY <1>9, <1>14, <1>17, <2>1
  <2>3. /\ p2.all = undone.all /\ p2.unassigned = una /\ p2.pre = p.pre
        /\ p2.nodes = undone.nodes /\ p2.vols = undone.vols
    BY <1>14, <2>2 DEF IsPicture
  <2>4. r.job = "tick"
    BY <1>9, <1>17
  <2>5. Undone(p, r, p2)
    BY <1>14, <2>1, <2>3, <2>4 DEF Undone
  <2>6. r2.phase = "idle"
    BY <1>5, <1>9, <1>17
  <2> QED BY <1>16, <2>5, <2>6
<1>18. CASE run.job = "pre" /\ (StartTick(p0, r0) \/ (s' = p0 /\ run' = r0))
  <2>1. PICK pre, D : D = DOMAIN p.pre \ done /\ pre = Restrict(p.pre, D)
    OBVIOUS
  <2>2. p1 = [undone EXCEPT !.pre = pre]
    BY <1>6, <1>14, <2>1
  <2>3. /\ p1.all = undone.all /\ p1.unassigned = p.unassigned /\ p1.pre = pre
        /\ p1.nodes = undone.nodes /\ p1.vols = undone.vols /\ IsPicture(p1)
    BY <1>14, <2>2 DEF IsPicture
  <2>4. \A i \in DOMAIN pre : /\ i \in DOMAIN p.pre /\ pre[i] = p.pre[i]
                              /\ ~(i \in r.ok /\ Live(r.dec[i].new))
    BY <1>4, <1>9, <2>1 DEF Restrict
  <2>5. Undone(p, r, p1)
    BY <1>14, <2>3, <2>4 DEF Undone
  <2>6. Pic(l, e, w, p1, r0)
    BY <1>5, <1>16, <2>5
  <2>7. CASE s' = p0 /\ run' = r0
    BY <1>6, <1>9, <2>6, <2>7
  <2>8. CASE StartTick(p0, r0)
    <3>1. p2 = [p1 EXCEPT !.unassigned = Empty] /\ r2 = Planning(r0, "tick", p1.unassigned)
      BY <1>6, <1>9, <2>8 DEF StartTick
    <3>2. r2.phase = "plan" /\ r2.dec = Empty /\ r2.todo = p1.unassigned /\ r2.job = "tick"
      BY <1>5, <3>1 DEF Planning, IsRun
    <3>3. /\ p2.all = p1.all /\ p2.pre = p1.pre /\ p2.nodes = p1.nodes /\ p2.vols = p1.vols
          /\ p2.unassigned = Empty
      BY <2>3, <3>1 DEF IsPicture
    <3>4. r.job = "pre"
      BY <1>9, <1>18
    <3>5. \A a \in Range(q) : a.type = "task" /\ a.own => l.pre[a.obj.id] # None
      BY <1>15, <3>4, PicTicked
    <3>6. \A a \in Range(w) : a.type = "task" /\ a.own => l.pre[a.obj.id] # None /\ r2.job = "tick"
      <4>1. IsSeq(q)
        BY <1>15 DEF Pic, QueueInv
      <4>2. \A a \in Range(w) : a \in Range(q) \/ a.type = "volume"
        BY <1>13, <4>1, FreedRange
      <4> QED BY <3>2, <3>5, <4>2
    <3> QED BY <1>5, <2>6, <3>2, <3>3, <3>6, PicStarted
  <2> QED BY <1>18, <2>7, <2>8
<1> QED BY <1>1, <1>17, <1>18

-----------------------------------------------------------------------------
(* The picture of a new leader                                              *)

Setup(d, p) ==
  /\ Subset(d.tasks, p.all) /\ Subset(d.tasks, p.unassigned) /\ Subset(d.tasks, p.pre)
  /\ \A i : LiveIn(d.tasks, i) => i \in DOMAIN p.all
  /\ \A i \in DOMAIN p.unassigned \cup DOMAIN p.pre : ~Live(d.tasks[i])
  /\ p.nodes = NodesOf(d.nodes, p.all) /\ p.vols = VolsOf(d.vols, p.all)

LEMMA SetupFields ==
  ASSUME NEW l, NEW d, AllOK(l, d.tasks), NEW p, p = setupTasksList(d)
  PROVE  Setup(d, p)
<1> DEFINE seen == {t \in Range(d.tasks) : t.state \in {TaskStatePending, TaskStateAssigned}
                                          /\ (t.state = TaskStatePending => t.wanted)}
           todo(b) == {t \in seen : t.state = TaskStatePending /\ (t.node = None) = b}
           byId(T) == [i \in {t.id : t \in T} |-> d.tasks[i]]
           live == {t \in seen : Live(t)}
<1>1. /\ p.all = byId(seen) /\ p.unassigned = byId(todo(TRUE)) /\ p.pre = byId(todo(FALSE))
      /\ p.nodes = [n \in DOMAIN d.nodes |-> newNodeInfo(d.nodes[n], LiveAt(byId(seen), n))]
      /\ p.vols = initVolumes(d, live)
  BY DEF setupTasksList
<1>2. ASSUME NEW t \in Range(d.tasks) PROVE t.id \in DOMAIN d.tasks /\ d.tasks[t.id] = t
  BY DEF Range, AllOK
<1>3. \A i \in DOMAIN d.tasks : d.tasks[i] \in Range(d.tasks) /\ d.tasks[i].id = i
  BY DEF Range, AllOK
<1>4. \A i : i \in DOMAIN p.all <=> i \in DOMAIN d.tasks /\ d.tasks[i] \in seen
  BY <1>1, <1>2, <1>3
<1>5. \A i \in DOMAIN p.all : p.all[i] = d.tasks[i]
  BY <1>1
<1>6. \A t \in seen : Live(t) \/ t.state = TaskStatePending
  BY DEF Live
<1>7. \A t \in Range(d.tasks) : Live(t) => t \in seen /\ t.state # TaskStatePending
  BY DEF Live, TaskStateAssigned, TaskStatePending
<1>8. \A i \in DOMAIN p.unassigned : /\ i \in DOMAIN d.tasks /\ p.unassigned[i] = d.tasks[i]
                                     /\ d.tasks[i].state = TaskStatePending
  BY <1>1, <1>2
<1>9. \A i \in DOMAIN p.pre : /\ i \in DOMAIN d.tasks /\ p.pre[i] = d.tasks[i]
                              /\ d.tasks[i].state = TaskStatePending
  BY <1>1, <1>2
<1>10. \A i : LiveIn(d.tasks, i) => i \in DOMAIN p.all
  BY <1>3, <1>4, <1>7 DEF LiveIn
<1>11. \A i \in DOMAIN p.unassigned \cup DOMAIN p.pre : ~Live(d.tasks[i])
  BY <1>3, <1>7, <1>8, <1>9
<1>12. p.nodes = NodesOf(d.nodes, p.all)
  BY <1>1 DEF NodesOf
<1>13. p.vols = VolsOf(d.vols, p.all)
  <2>1. PICK B, W, V : B = p.all /\ W = d.vols /\ V = p.vols
    OBVIOUS
  <2>2. PICK L : L = live
    OBVIOUS
  <2>3. \A i, v : i \in {t.id : t \in {t \in L : t.vol = v}} <=>
                  i \in DOMAIN B /\ Live(B[i]) /\ B[i].vol = v
    BY <1>2, <1>3, <1>4, <1>5, <1>7, <2>1, <2>2
  <2>4. \A i \in DOMAIN B : B[i] = d.tasks[i]
    BY <1>5, <2>1
  <2> HIDE DEF live
  <2> DEFINE f(v) == [i \in {t.id : t \in {t \in L : t.vol = v}} |-> d.tasks[i].node]
             g(v) == [i \in {i \in DOMAIN B : Live(B[i]) /\ B[i].vol = v} |-> B[i].node]
  <2>5. V = [v \in {v \in DOMAIN W : W[v].info} |-> [active |-> W[v].avail = "active", users |-> f(v)]]
    BY <1>1, <2>1, <2>2, ZenonT(40) DEF initVolumes
  <2>6. ASSUME NEW v PROVE f(v) = g(v)
    <3>1. PICK I, J : /\ I = {t.id : t \in {t \in L : t.vol = v}}
                      /\ J = {i \in DOMAIN B : Live(B[i]) /\ B[i].vol = v}
      OBVIOUS
    <3>2. \A i : i \in I <=> i \in DOMAIN B /\ Live(B[i]) /\ B[i].vol = v
      BY <2>3, <3>1
    <3>3. I = J
      BY <3>1, <3>2
    <3>4. f(v) = [i \in I |-> d.tasks[i].node]
      BY <3>1
    <3>5. g(v) = [i \in J |-> B[i].node]
      BY <3>1
    <3>6. \A i \in J : B[i] = d.tasks[i]
      BY <2>4, <3>1
    <3> HIDE DEF f, g
    <3> QED BY <3>3, <3>4, <3>5, <3>6
  <2>7. VolsOf(W, B)
          = [v \in {v \in DOMAIN W : W[v].info} |-> [active |-> W[v].avail = "active", users |-> g(v)]]
    BY DEF VolsOf
  <2> HIDE DEF f, g
  <2>8. V = VolsOf(W, B)
    BY <2>5, <2>6, <2>7
  <2> QED BY <2>1, <2>8
<1> QED BY <1>4, <1>5, <1>8, <1>9, <1>10, <1>11, <1>12, <1>13 DEF Setup, Subset

LEMMA EmptyRange == IsSeq(<<>>) /\ Range(<<>>) = {} /\ DOMAIN <<>> = {}
  BY DEF IsSeq, Range

LEMMA SetupKinds ==
  ASSUME NEW l, NEW d, AllOK(l, d.tasks), NEW p, Setup(d, p),
         NEW r, r.phase = "plan", r.dec = Empty, r.todo = p.pre
  PROVE  /\ Kinds(l, d.tasks, p, r) /\ TaskPart(l, d.tasks, {}, p, r)
         /\ \A i : LiveIn(p.all, i) <=> LiveIn(d.tasks, i)
         /\ \A i : LiveIn(p.all, i) => p.all[i] = d.tasks[i]
<1>1. AllOK(l, p.all) /\ AllOK(l, p.unassigned) /\ AllOK(l, p.pre)
  BY DEF AllOK, Setup, Subset
<1>2. DOMAIN r.dec = {}
  BY EmptyOK
<1>3. Kinds(l, d.tasks, p, r)
  BY <1>1, <1>2 DEF Kinds
<1>4. \A i : LiveIn(p.all, i) <=> LiveIn(d.tasks, i)
  BY DEF LiveIn, Setup, Subset
<1>5. \A i : LiveIn(p.all, i) => p.all[i] = d.tasks[i]
  BY DEF LiveIn, Setup, Subset
<1>6. \A i : LiveIn(d.tasks, i) => d.tasks[i].state >= TaskStateAssigned
  BY DEF LiveIn, Live, TaskStateAssigned
<1>7. \A i : LiveIn(d.tasks, i) => i \notin DOMAIN p.unassigned /\ i \notin DOMAIN p.pre
  BY DEF LiveIn, Setup
<1>8. TaskPart(l, d.tasks, {}, p, r)
  BY <1>4, <1>5, <1>6, <1>7, TasksFresh
<1> QED BY <1>3, <1>4, <1>5, <1>8

LEMMA PicAnew ==
  ASSUME NEW l, LeftOK(l), NEW m, LeftStep(l, m), NEW d, NEW q, NEW p0, NEW r0, Pic(l, d, q, p0, r0),
         \A v \in l.new : v \notin DOMAIN d.vols,
         NEW p, Setup(d, p), NEW r, r.phase = "plan", r.dec = Empty, r.todo = p.pre
  PROVE  Pic(m, d, <<>>, p, r)
<1>1. PICK T, D, W, E, B : T = d.tasks /\ D = d.nodes /\ W = d.vols /\ E = Range(q) /\ B = p.all
  OBVIOUS
<1>2. /\ AllOK(l, T) /\ AllOK(l, p0.all) /\ TaskPart(l, T, E, p0, r0) /\ RoomOK(l)
      /\ NodePart(l, D, E, p0.all, p0.nodes) /\ VolPart(l, W, E, p0.all, p0.vols)
      /\ \A e \in E : EventFine(l, T, D, e)
  BY <1>1 DEF Pic, Kinds, QueueInv, Range, LeftOK
<1>3. /\ Kinds(l, T, p, r) /\ TaskPart(l, T, {}, p, r)
      /\ \A i : LiveIn(B, i) => LiveIn(T, i) /\ B[i] = T[i]
  <2>1. AllOK(l, d.tasks)
    BY <1>1, <1>2
  <2>2. /\ Kinds(l, d.tasks, p, r) /\ TaskPart(l, d.tasks, {}, p, r)
        /\ \A i : LiveIn(p.all, i) <=> LiveIn(d.tasks, i)
        /\ \A i : LiveIn(p.all, i) => p.all[i] = d.tasks[i]
    BY <2>1, SetupKinds
  <2> QED BY <1>1, <2>2
<1>4. AllOK(l, B)
  BY <1>1, <1>3 DEF Kinds
<1>5. NodePart(l, D, {}, B, p.nodes)
  <2>1. NodePart(l, D, {}, B, NodesOf(D, B))
    BY <1>2, <1>3, <1>4, NodesAnew
  <2> QED BY <1>1, <2>1 DEF Setup
<1>6. VolPart(l, W, {}, B, p.vols)
  <2>1. \A v \in l.new : v \notin DOMAIN W
    BY <1>1
  <2>2. VolPart(l, W, {}, B, VolsOf(W, B))
    BY <1>2, <1>3, <2>1, VolsAnew
  <2> QED BY <1>1, <2>2 DEF Setup
<1>7. QueueInv(l, T, D, <<>>)
  BY EmptyRange DEF QueueInv, Ordered, TasksConclude, NodesConclude
<1>8. Pic(l, d, <<>>, p, r)
  BY <1>1, <1>3, <1>5, <1>6, <1>7, EmptyRange DEF Pic
<1> QED BY <1>8, PicSame

LEMMA BegunRun ==
  ASSUME NEW p, NEW r, r = Begun(p)
  PROVE  r.phase = "plan" /\ r.dec = Empty /\ r.todo = p.pre
<1>1. PICK o : o = [Idle EXCEPT !.tick = TRUE]
  OBVIOUS
<1>2. IsRun(o)
  BY <1>1 DEF Idle, IsRun
<1> QED BY <1>1, <1>2 DEF Begun, Planning, IsRun

LEMMA LeaderPic ==
  ASSUME Invs, Leader, Pic(left, db, queue, s, run)
  PROVE  LeftOK(left') /\ LeftStep(left, left') /\ Pic(left', db', queue', s', run')
<1>1. LeftOK(left) /\ \A v \in left.new : v \notin DOMAIN db.vols
  BY InvTypes
<1>2. LeftOK(left') /\ LeftStep(left, left')
  BY <1>1, SpendLeft DEF Leader
<1>3. PICK l, m, d, q, p0, r0, p, r :
        /\ l = left /\ m = left' /\ d = db /\ q = queue /\ p0 = s /\ r0 = run
        /\ p = s' /\ r = run'
  OBVIOUS
<1>4. p = setupTasksList(d) /\ r = Begun(p) /\ queue' = <<>> /\ db' = d
  BY <1>3 DEF Leader
<1>5. AllOK(l, d.tasks) /\ Pic(l, d, q, p0, r0)
  BY <1>3 DEF Pic, Kinds
<1>6. Setup(d, p)
  BY <1>4, <1>5, SetupFields
<1>7. r.phase = "plan" /\ r.dec = Empty /\ r.todo = p.pre
  BY <1>4, BegunRun
<1>8. LeftOK(l) /\ LeftStep(l, m) /\ \A v \in l.new : v \notin DOMAIN d.vols
  BY <1>1, <1>2, <1>3
<1>9. Pic(m, d, <<>>, p, r)
  BY <1>5, <1>6, <1>7, <1>8, PicAnew
<1> QED BY <1>2, <1>3, <1>4, <1>9

(* The store that the first leader reads has no task that is assigned.      *)
LEMMA PicFirst ==
  ASSUME NEW l, LeftOK(l), NEW d, AllOK(l, d.tasks), \A i : ~LiveIn(d.tasks, i),
         \A n \in DOMAIN d.nodes : NodeOK(l, n, d.nodes[n]),
         \A v \in l.new : v \notin DOMAIN d.vols,
         NEW p, Setup(d, p), NEW r, r.phase = "plan", r.dec = Empty, r.todo = p.pre
  PROVE  Pic(l, d, <<>>, p, r)
<1>1. PICK T, D, W, B : T = d.tasks /\ D = d.nodes /\ W = d.vols /\ B = p.all
  OBVIOUS
<1>2. /\ Kinds(l, d.tasks, p, r) /\ TaskPart(l, d.tasks, {}, p, r)
      /\ \A i : LiveIn(p.all, i) <=> LiveIn(d.tasks, i)
  BY SetupKinds
<1>3. \A i : ~LiveIn(B, i)
  BY <1>1, <1>2
<1>4. NodePart(l, D, {}, B, p.nodes)
  <2>1. \A n \in DOMAIN D : NodeOK(l, n, D[n]) /\ Within(l, n, LiveAt(B, n))
    <3> SUFFICES ASSUME NEW n \in DOMAIN D PROVE NodeOK(l, n, D[n]) /\ Within(l, n, LiveAt(B, n))
      OBVIOUS
    <3>1. NodeOK(l, n, D[n])
      BY <1>1
    <3>2. l.room[n] \in Nat
      BY <3>1 DEF NodeOK, LeftOK, RoomOK
    <3>3. PICK f : f = LiveAt(B, n)
      OBVIOUS
    <3>4. DOMAIN f = {}
      BY <1>3, <3>3, LiveAtIn
    <3> QED BY <3>1, <3>2, <3>3, <3>4, WithinNone
  <2>2. NodePart(l, D, {}, B, NodesOf(D, B))
    BY <1>3, <2>1, NodesFresh
  <2> QED BY <1>1, <2>2 DEF Setup
<1>5. VolPart(l, W, {}, B, p.vols)
  <2>1. \A v \in l.new : v \notin DOMAIN W
    BY <1>1
  <2>2. \A v \in DOMAIN Volumes : /\ \A i : Uses(l, B, i, v) => KnownOK(l, W, v)
                                  /\ ShareOK(l, B, v)
    BY <1>3 DEF Uses, ShareOK
  <2>3. VolPart(l, W, {}, B, VolsOf(W, B))
    BY <2>1, <2>2, VolsFresh
  <2> QED BY <1>1, <2>3 DEF Setup
<1>6. QueueInv(l, T, D, <<>>)
  BY EmptyRange DEF QueueInv, Ordered, TasksConclude, NodesConclude
<1> QED BY <1>1, <1>2, <1>4, <1>5, <1>6, EmptyRange DEF Pic

LEMMA InitPic == Init => LeftOK(left) /\ Pic(left, db, queue, s, run)
<1> SUFFICES ASSUME Init PROVE LeftOK(left) /\ Pic(left, db, queue, s, run)
  OBVIOUS
<1>1. /\ left \in Scenarios /\ s = setupTasksList(db) /\ run = Begun(s) /\ queue = <<>>
      /\ db.tasks = [i \in DOMAIN left.of |->
                       [id |-> i, svc |-> left.of[i], state |-> TaskStateNew, wanted |-> TRUE,
                        node |-> left.pre[i], err |-> NoErr, vol |-> None, ver |-> 0]]
      /\ db.nodes = [n \in DOMAIN left.room |-> Node(n, left.room[n])]
      /\ DOMAIN db.vols = DOMAIN Volumes \ left.new
  BY DEF Init, Stored
<1>2. /\ DOMAIN left.of \subseteq Tasks
      /\ \A i \in DOMAIN left.of : left.of[i] \in Services /\ left.pre[i] \in Nodes \cup {None}
  BY <1>1, ClusterAssumption
<1>3. LeftOK(left)
  BY <1>1, ClusterAssumption DEF LeftOK, RoomOK
<1>4. PICK l, d, p, r : l = left /\ d = db /\ p = s /\ r = run
  OBVIOUS
<1>5. LeftOK(l) /\ \A v \in l.new : v \notin DOMAIN d.vols
  BY <1>1, <1>3, <1>4
<1>6. ASSUME NEW i \in DOMAIN d.tasks
      PROVE  d.tasks[i].id = i /\ TaskOK(l, d.tasks[i]) /\ ~Live(d.tasks[i])
  <2>1. PICK t, e : /\ t = db.tasks[i] /\ e = NoErr
                    /\ t = [id |-> i, svc |-> left.of[i], state |-> TaskStateNew,
                            wanted |-> TRUE, node |-> left.pre[i], err |-> e, vol |-> None,
                            ver |-> 0]
    BY <1>1, <1>4
  <2>2. i \in Tasks /\ i \in DOMAIN l.of
    BY <1>1, <1>2, <1>4
  <2>3. /\ t.id = i /\ t.state = TaskStateNew /\ t.node = l.pre[i] /\ t.ver = 0 /\ t.svc = l.of[i]
        /\ t = [id |-> t.id, svc |-> t.svc, state |-> t.state, wanted |-> t.wanted,
                node |-> t.node, err |-> t.err, vol |-> t.vol, ver |-> t.ver]
    BY <1>4, <2>1
  <2>4. IsTask(t)
    BY <2>2, <2>3 DEF IsTask, TaskStateNew, TaskStateDead
  <2>5. t.wanted \in BOOLEAN
    BY <2>1
  <2>6. ~Live(t)
    BY <2>3 DEF Live, TaskStateNew, TaskStateAssigned
  <2>7. t.svc \in Services /\ t.node \in Nodes \cup {None}
    BY <1>2, <1>4, <2>2, <2>3
  <2>8. TaskOK(l, t)
    BY <2>2, <2>3, <2>4, <2>5, <2>6, <2>7 DEF TaskOK
  <2> QED BY <1>4, <2>1, <2>3, <2>6, <2>8
<1>7. AllOK(l, d.tasks) /\ \A i : ~LiveIn(d.tasks, i)
  BY <1>6 DEF AllOK, LiveIn
<1>8. \A n \in DOMAIN d.nodes : NodeOK(l, n, d.nodes[n])
  <2> SUFFICES ASSUME NEW n \in DOMAIN d.nodes PROVE NodeOK(l, n, d.nodes[n])
    OBVIOUS
  <2>1. n \in DOMAIN l.room /\ d.nodes[n] = Node(n, l.room[n])
    BY <1>1, <1>4
  <2>2. l.room[n] \in Nat
    BY <1>5, <2>1 DEF LeftOK, RoomOK
  <2>3. PICK node, x : /\ node = d.nodes[n] /\ x = l.room[n]
                       /\ node = [id |-> n, state |-> "ready", label |-> TRUE, room |-> x]
    BY <2>1 DEF Node
  <2>4. /\ node.id = n /\ node.room = x /\ node.label \in BOOLEAN
        /\ {"state", "label", "room"} \subseteq DOMAIN node
    BY <2>3
  <2>5. x <= x
    BY <2>2, <2>3
  <2> QED BY <2>1, <2>2, <2>3, <2>4, <2>5 DEF NodeOK
<1>9. p = setupTasksList(d) /\ r = Begun(p)
  BY <1>1, <1>4
<1>10. Setup(d, p)
  BY <1>7, <1>9, SetupFields
<1>11. r.phase = "plan" /\ r.dec = Empty /\ r.todo = p.pre
  BY <1>9, BegunRun
<1>12. Pic(l, d, <<>>, p, r)
  BY <1>5, <1>7, <1>8, <1>10, <1>11, PicFirst
<1> QED BY <1>1, <1>3, <1>4, <1>12

-----------------------------------------------------------------------------
(* The picture through every step                                           *)

(* The inductive invariant. A scheduler that is not prompt may plan before  *)
(* it has handled the events of its own writes, and a late event then puts  *)
(* an old copy in the place of its decision.                                *)
PictureInv == LeftOK(left) /\ (left.prompt => Pic(left, db, queue, s, run))

LEMMA StepLeft ==
  ASSUME Invs, [Next]_vars
  PROVE  LeftOK(left') /\ LeftStep(left, left')
<1>1. LeftOK(left)
  BY DEF Invs
<1>2. CASE UNCHANGED left
  BY <1>1, <1>2, SameLeft
<1>3. CASE Handle \/ Schedule \/ Plan \/ Finish
  BY <1>2, <1>3 DEF Handle, Schedule, Plan, Finish, store
<1>4. CASE Apply
  <2>1. PICK l, m, x : l = left /\ m = left' /\ m = [l EXCEPT !.stale = l.stale \/ x]
    BY <1>4 DEF Apply
  <2>2. LeftOK(l)
    BY <1>1, <2>1
  <2>3. l.stale => (l.stale \/ x)
    OBVIOUS
  <2>4. LeftOK(m) /\ LeftStep(l, m)
    BY <2>1, <2>2, <2>3, LeftFrames
  <2> QED BY <2>1, <2>4
<1>5. CASE Leader
  BY <1>1, <1>5, SpendLeft DEF Leader
<1>6. CASE Manage \/ Agents
  BY <1>6, ManageSteady DEF Steady
<1>7. CASE Enforce
  BY <1>7, EnforceSteady DEF Steady
<1>8. CASE Others
  BY <1>8, OthersSteady DEF Steady
<1>9. CASE UNCHANGED vars
  BY <1>2, <1>9 DEF vars, store
<1> QED BY <1>3, <1>4, <1>5, <1>6, <1>7, <1>8, <1>9 DEF Next, Progress, Steps

LEMMA StepPic ==
  ASSUME Invs, [Next]_vars, left.prompt, Pic(left, db, queue, s, run)
  PROVE  Pic(left', db', queue', s', run')
<1>1. ASSUME Steady, UNCHANGED <<s, run>> PROVE Pic(left', db', queue', s', run')
  BY <1>1 DEF Steady
<1>2. CASE Handle
  BY <1>2, HandlePic
<1>3. CASE Schedule
  BY <1>3, SchedulePic
<1>4. CASE Plan
  BY <1>4, PlanPic
<1>5. CASE Apply
  BY <1>5, ApplyPic
<1>6. CASE Finish
  BY <1>6, FinishPic
<1>7. CASE Leader
  BY <1>7, LeaderPic
<1>8. CASE (Manage \/ Agents) /\ UNCHANGED <<enf, s, run>>
  BY <1>1, <1>8, ManageSteady
<1>9. CASE Enforce /\ UNCHANGED <<csi, s, run>>
  BY <1>1, <1>9, EnforceSteady
<1>10. CASE Others /\ UNCHANGED <<csi, enf, s, run>>
  BY <1>1, <1>10, OthersSteady
<1>11. CASE UNCHANGED vars
  <2>1. UNCHANGED <<left, db, queue, s, run>>
    BY <1>11 DEF vars, store
  <2> QED BY <2>1
<1> QED BY <1>2, <1>3, <1>4, <1>5, <1>6, <1>7, <1>8, <1>9, <1>10, <1>11 DEF Next, Progress, Steps

LEMMA PictureNext ==
  VolumeInv /\ DecisionInv /\ PictureInv /\ [Next]_vars =>
    PictureInv' /\ LeftStep(left, left')
<1> SUFFICES ASSUME VolumeInv, DecisionInv, PictureInv, [Next]_vars
             PROVE  PictureInv' /\ LeftStep(left, left')
  OBVIOUS
<1>1. Invs
  BY DEF Invs, PictureInv
<1>2. LeftOK(left') /\ LeftStep(left, left')
  BY <1>1, StepLeft
<1>3. left'.prompt = left.prompt
  BY <1>2 DEF LeftStep
<1>4. left.prompt => Pic(left', db', queue', s', run')
  BY <1>1, StepPic DEF PictureInv
<1> QED BY <1>2, <1>3, <1>4 DEF PictureInv

(* For each task that is assigned the picture has a copy with its node and  *)
(* its volume; what it counts on the nodes it knows is what these copies    *)
(* come to; where no event of a task, a node or a volume waits in the       *)
(* queue, the copy is the stored one; and the events tell of each object    *)
(* in the order of its writes, the last of them of what is stored.          *)
THEOREM PictureInvariant == Spec => []PictureInv
<1>1. Init => PictureInv
  BY InitPic DEF PictureInv
<1> QED BY <1>1, PictureNext, VolumeInvariant, DecisionInvariant, PTL DEF Spec

LEMMA PromptNext == LeftStep(left, left') /\ left.prompt => (left.prompt)'
BY DEF LeftStep

LEMMA AlwaysPrompt == Spec /\ left.prompt => [](left.prompt)
BY PictureInvariant, PictureNext, PromptNext, VolumeInvariant, DecisionInvariant, PTL DEF Spec

-----------------------------------------------------------------------------
(* The picture a new leader would have                                      *)

(* Two sets of copies that agree on the tasks that are assigned.            *)
Agree(l, A, B) ==
  /\ \A i : LiveIn(A, i) <=> LiveIn(B, i)
  /\ \A i : LiveIn(A, i) => /\ A[i].svc = B[i].svc /\ A[i].wanted = B[i].wanted
                            /\ A[i].node = B[i].node /\ A[i].vol = B[i].vol

(* The users of a volume that the scheduler placed itself.                  *)
PlacedUsers(l, f) == RestrictDomain(f, LAMBDA i : l.pre[i] = None)

LEMMA RestAgree ==
  ASSUME NEW l, NEW d, NEW p, NEW r, r.phase = "idle", Kinds(l, d.tasks, p, r),
         TaskPart(l, d.tasks, {}, p, r)
  PROVE  Agree(l, p.all, d.tasks)
<1>1. \A i : Held(p, r, i) <=> LiveIn(p.all, i)
  BY IdleHeld
<1>2. ASSUME NEW i, LiveIn(p.all, i)
      PROVE  /\ LiveIn(d.tasks, i) /\ d.tasks[i].wanted = p.all[i].wanted
             /\ d.tasks[i].node = p.all[i].node /\ d.tasks[i].vol = p.all[i].vol
             /\ d.tasks[i].svc = p.all[i].svc
  <2>1. HeldOK(d.tasks, {}, p, r, i)
    BY <1>1, <1>2 DEF TaskPart
  <2>2. LiveIn(d.tasks, i) /\ d.tasks[i].wanted = p.all[i].wanted
    BY <2>1 DEF HeldOK
  <2>3. Follows(p.all[i], d.tasks[i])
    BY <2>1, <2>2 DEF HeldOK, LiveIn
  <2>4. TaskOK(l, p.all[i]) /\ p.all[i].id = i /\ TaskOK(l, d.tasks[i]) /\ d.tasks[i].id = i
    BY <1>2, <2>2 DEF Kinds, AllOK, LiveIn
  <2> QED BY <2>2, <2>3, <2>4 DEF Follows, TaskOK
<1>3. \A i : LiveIn(d.tasks, i) => LiveIn(p.all, i)
  BY <1>1 DEF TaskPart
<1> QED BY <1>2, <1>3 DEF Agree

LEMMA NodesAgree ==
  ASSUME NEW l, NEW D, NEW A, NEW B, Agree(l, A, B), NEW N, NodePart(l, D, {}, A, N)
  PROVE  N = NodesOf(D, B)
<1>1. \A n : /\ n \in DOMAIN N <=> n \in DOMAIN D
             /\ n \in DOMAIN N => N[n].node = D[n]
  BY DEF NodePart
<1>2. DOMAIN N = DOMAIN D /\ N = [n \in DOMAIN N |-> N[n]]
  BY <1>1 DEF NodePart, NodePic
<1>3. ASSUME NEW n \in DOMAIN D PROVE N[n] = newNodeInfo(D[n], LiveAt(B, n))
  <2>1. N[n] = newNodeInfo(D[n], LiveAt(A, n))
    BY <1>1, <1>2 DEF NodePart, NodePic
  <2>2. PICK f, g : f = LiveAt(A, n) /\ g = LiveAt(B, n)
    OBVIOUS
  <2>3. /\ \A i : i \in DOMAIN f <=> LiveIn(A, i) /\ A[i].node = n
        /\ \A i \in DOMAIN f : f[i] = A[i]
        /\ \A i : i \in DOMAIN g <=> LiveIn(B, i) /\ B[i].node = n
        /\ \A i \in DOMAIN g : g[i] = B[i]
    BY <2>2, LiveAtIn
  <2>4. \A i : i \in DOMAIN f <=> i \in DOMAIN g
    BY <2>3 DEF Agree
  <2>5. DOMAIN f = DOMAIN g
    BY <2>4
  <2>6. Alike(f, g)
    BY <2>3, <2>5 DEF Agree, Alike
  <2> QED BY <2>1, <2>2, <2>6, InfoAlike
<1> QED BY <1>2, <1>3 DEF NodesOf

LEMMA VolsAgree ==
  ASSUME NEW l, NEW W, IsVols(W), NEW A, NEW B, Agree(l, A, B), NEW V, VolPart(l, W, {}, A, V),
         NEW v \in DOMAIN VolsOf(W, B)
  PROVE  v \in DOMAIN V /\ PlacedUsers(l, V[v].users) = PlacedUsers(l, VolsOf(W, B)[v].users)
<1>1. v \in DOMAIN W /\ W[v].info /\ v \in DOMAIN Volumes
  BY DEF VolsOf, IsVols
<1>2. v \in DOMAIN V /\ UsersOK(l, A, V, v)
  BY <1>1 DEF VolPart, VolOK
<1>3. PICK f, g : f = V[v].users /\ g = VolsOf(W, B)[v].users
  OBVIOUS
<1>4. g = [i \in {i \in DOMAIN B : Live(B[i]) /\ B[i].vol = v} |-> B[i].node]
  BY <1>1, <1>3 DEF VolsOf
<1>5. /\ \A i : i \in DOMAIN g <=> LiveIn(B, i) /\ B[i].vol = v
      /\ \A i \in DOMAIN g : g[i] = B[i].node
  BY <1>4 DEF LiveIn
<1>6. /\ \A i : i \in DOMAIN f /\ l.pre[i] = None <=> LiveIn(A, i) /\ A[i].vol = v /\ l.pre[i] = None
      /\ \A i : LiveIn(A, i) /\ A[i].vol = v /\ l.pre[i] = None => f[i] = A[i].node
  BY <1>2, <1>3 DEF UsersOK, Uses
<1>7. \A i : i \in DOMAIN f /\ l.pre[i] = None <=> i \in DOMAIN g /\ l.pre[i] = None
  BY <1>5, <1>6 DEF Agree
<1>8. \A i : i \in DOMAIN f /\ l.pre[i] = None => f[i] = g[i]
  BY <1>5, <1>6, <1>7 DEF Agree
<1>9. PICK I, J : I = {i \in DOMAIN f : l.pre[i] = None} /\ J = {i \in DOMAIN g : l.pre[i] = None}
  OBVIOUS
<1>10. I = J /\ \A i \in I : f[i] = g[i]
  BY <1>7, <1>8, <1>9
<1>11. Restrict(f, I) = Restrict(g, J)
  BY <1>10 DEF Restrict
<1>12. PlacedUsers(l, f) = Restrict(f, I) /\ PlacedUsers(l, g) = Restrict(g, J)
  BY <1>9 DEF PlacedUsers, RestrictDomain
<1> QED BY <1>2, <1>3, <1>11, <1>12

Renews(l, p, f) ==
  /\ p.nodes = f.nodes /\ DOMAIN f.vols \subseteq DOMAIN p.vols
  /\ \A v \in DOMAIN f.vols : PlacedUsers(l, p.vols[v].users) = PlacedUsers(l, f.vols[v].users)

LEMMA QuietPicture ==
  ASSUME NEW l, NEW d, IsVols(d.vols), NEW p, NEW r, r.phase = "idle", Pic(l, d, <<>>, p, r),
         NEW f, f = setupTasksList(d)
  PROVE  Renews(l, p, f)
<1>1. /\ Kinds(l, d.tasks, p, r) /\ TaskPart(l, d.tasks, {}, p, r)
      /\ NodePart(l, d.nodes, {}, p.all, p.nodes) /\ VolPart(l, d.vols, {}, p.all, p.vols)
  BY EmptyRange DEF Pic
<1>2. Setup(d, f)
  BY <1>1, SetupFields DEF Kinds
<1>3. Agree(l, p.all, d.tasks)
  BY <1>1, RestAgree
<1>4. Agree(l, p.all, f.all)
  <2>1. \A i : LiveIn(f.all, i) <=> LiveIn(d.tasks, i)
    BY <1>2 DEF Setup, Subset, LiveIn
  <2>2. \A i : LiveIn(f.all, i) => f.all[i] = d.tasks[i]
    BY <1>2 DEF Setup, Subset, LiveIn
  <2> QED BY <1>3, <2>1, <2>2 DEF Agree
<1>5. PICK D, W, A, B, N, V : /\ D = d.nodes /\ W = d.vols /\ A = p.all /\ B = f.all
                              /\ N = p.nodes /\ V = p.vols
  OBVIOUS
<1>6. Agree(l, A, B) /\ NodePart(l, D, {}, A, N) /\ VolPart(l, W, {}, A, V) /\ IsVols(W)
  BY <1>1, <1>4, <1>5
<1>7. N = NodesOf(D, B)
  BY <1>6, NodesAgree
<1>8. \A v \in DOMAIN VolsOf(W, B) :
        v \in DOMAIN V /\ PlacedUsers(l, V[v].users) = PlacedUsers(l, VolsOf(W, B)[v].users)
  BY <1>6, VolsAgree
<1>9. f.nodes = NodesOf(D, B) /\ f.vols = VolsOf(W, B)
  BY <1>2, <1>5 DEF Setup
<1> QED BY <1>5, <1>7, <1>8, <1>9 DEF Renews

LEMMA NodeRanges ==
  ASSUME NEW l, NEW A, AllOK(l, A), NEW N, NodePic(l, A, N), NEW n \in DOMAIN N
  PROVE  /\ DOMAIN N[n].tasks \subseteq Tasks
         /\ \A x \in Services : N[n].active[x] \in 0..Cardinality(Tasks)
         /\ N[n].avail <= N[n].node.room
<1>1. PICK f, node, ni : f = LiveAt(A, n) /\ node = N[n].node /\ ni = N[n]
  OBVIOUS
<1>2. ni = newNodeInfo(node, f) /\ node.room \in Nat
  BY <1>1 DEF NodePic, NodeOK
<1>3. Fine(f)
  BY <1>1, LiveAtFine
<1>4. DOMAIN ni.tasks \subseteq Tasks
  BY <1>2, <1>3, InfoTasks DEF Fine
<1>5. \A x \in Services : ni.active[x] = Cardinality(ActiveTasks(f, x))
  BY <1>2 DEF newNodeInfo
<1>6. ni.avail = node.room - reserved(f) /\ reserved(f) \in Nat
  BY <1>2, <1>3, UnitsFinite DEF newNodeInfo
<1>7. ni.avail <= node.room
  BY <1>2, <1>6
<1>8. \A x \in Services : ni.active[x] \in 0..Cardinality(Tasks)
  BY <1>3, <1>5, ActiveIn
<1> QED BY <1>1, <1>4, <1>7, <1>8

LEMMA PicTypes ==
  ASSUME Invs, Pic(left, db, queue, s, run)
  PROVE  TypeOK
<1>1. PICK l, d, p, r : l = left /\ d = db /\ p = s /\ r = run
  OBVIOUS
<1>2. /\ AllOK(l, d.tasks) /\ AllOK(l, p.all) /\ AllOK(l, p.unassigned) /\ AllOK(l, p.pre)
      /\ NodePic(l, p.all, p.nodes) /\ \A n \in DOMAIN d.nodes : NodeOK(l, n, d.nodes[n])
  BY <1>1 DEF Pic, Kinds, NodePart
<1>3. ASSUME NEW f, AllOK(l, f) PROVE DOMAIN f \subseteq Tasks
  BY <1>3 DEF AllOK, TaskOK, IsTask
<1>4. DOMAIN d.nodes \subseteq Nodes
  BY <1>1, <1>2, InvTypes DEF NodeOK, LeftOK, RoomOK
<1>5. \A t \in Range(d.tasks) :
        /\ t.state \in TaskStateNew..TaskStateDead /\ t.ver \in Nat
        /\ t.node \in Nodes \cup {None} /\ t.wanted \in BOOLEAN
        /\ Live(t) => t.node # None
  <2> SUFFICES ASSUME NEW t \in Range(d.tasks)
               PROVE  /\ t.state \in TaskStateNew..TaskStateDead /\ t.ver \in Nat
                      /\ t.node \in Nodes \cup {None} /\ t.wanted \in BOOLEAN
                      /\ Live(t) => t.node # None
    OBVIOUS
  <2>1. TaskOK(l, t)
    BY <1>2 DEF Range, AllOK
  <2>2. None \notin Nodes
    BY NodeInfoAssumption
  <2> QED BY <2>1, <2>2 DEF TaskOK, IsTask
<1>6. \A n \in DOMAIN p.nodes :
        /\ DOMAIN p.nodes[n].tasks \subseteq Tasks
        /\ \A x \in Services : p.nodes[n].active[x] \in 0..Cardinality(Tasks)
        /\ p.nodes[n].avail <= p.nodes[n].node.room
  <2>1. PICK A, N : A = p.all /\ N = p.nodes
    OBVIOUS
  <2>2. AllOK(l, A) /\ NodePic(l, A, N)
    BY <1>2, <2>1
  <2> QED BY <2>1, <2>2, NodeRanges
<1>7. DOMAIN p.all \cup DOMAIN p.unassigned \cup DOMAIN p.pre \subseteq Tasks
  BY <1>2, <1>3
<1>8. r.phase \in {"idle", "plan", "free"}
  BY <1>1, InvTypes DEF RunOK
<1>9. \A vol \in Range(d.vols) : vol.pub \in [Nodes -> PublishStates]
  BY <1>1, InvTypes, VolTypes DEF Range
<1> QED BY <1>1, <1>2, <1>3, <1>4, <1>5, <1>6, <1>7, <1>8, <1>9 DEF TypeOK

(* The counts stay in their ranges, and once a prompt scheduler has handled *)
(* every event its nodes and volumes are those setupTasksList would give a  *)
(* new leader: addTask, removeTask, reserveVolume and releaseVolume undo    *)
(* each other exactly, through refused writes, deletions, ends of tasks,    *)
(* nodes that come and go and changes of the leader.                        *)
THEOREM PictureAlwaysFollows == Spec /\ left.prompt => []PictureFollows
<1>1. ASSUME Invs, Pic(left, db, queue, s, run) PROVE PictureFollows
  <2>1. TypeOK
    BY <1>1, PicTypes
  <2>2. ASSUME Quiet
        PROVE  LET fresh == setupTasksList(db)
                   placed(f) == RestrictDomain(f, LAMBDA i : left.pre[i] = None)
               IN  /\ s.nodes = fresh.nodes
                   /\ DOMAIN fresh.vols \subseteq DOMAIN s.vols
                   /\ \A v \in DOMAIN fresh.vols :
                        placed(s.vols[v].users) = placed(fresh.vols[v].users)
    <3>1. PICK l, d, p, r, f : l = left /\ d = db /\ p = s /\ r = run /\ f = setupTasksList(d)
      OBVIOUS
    <3>2. Pic(l, d, <<>>, p, r) /\ r.phase = "idle" /\ IsVols(d.vols)
      BY <1>1, <2>2, <3>1, InvTypes DEF Quiet, VolumeTypes
    <3>3. Renews(l, p, f)
      <4>1. f = setupTasksList(d)
        BY <3>1
      <4> QED BY <3>2, <4>1, QuietPicture
    <3>4. f = setupTasksList(db) /\ Renews(left, s, f)
      BY <3>1, <3>3
    <3> QED BY <3>4 DEF Renews, PlacedUsers, RestrictDomain
  <2> QED BY <2>1, <2>2 DEF PictureFollows
<1>2. VolumeInv /\ DecisionInv /\ PictureInv /\ left.prompt => PictureFollows
  BY <1>1 DEF Invs, PictureInv
<1> QED BY <1>2, AlwaysPrompt, PictureInvariant, VolumeInvariant, DecisionInvariant, PTL

-----------------------------------------------------------------------------
(* Who takes a volume that is published                                     *)

(* The status of no volume goes from PUBLISHED to PENDING_NODE_UNPUBLISH.   *)
NoneTaken(W, X) ==
  \A v \in DOMAIN W \cap DOMAIN X, n \in Nodes :
    ~(W[v].pub[n] = "published" /\ X[v].pub[n] = "nodeUnpublish")

LEMMA SetTakesNone ==
  ASSUME VolumeTypes, NEW v, NEW vol, SetVolume(v, vol),
         v \in DOMAIN db.vols =>
           \A n \in Nodes : ~(db.vols[v].pub[n] = "published" /\ vol.pub[n] = "nodeUnpublish")
  PROVE  NoneTaken(db.vols, db'.vols)
<1>1. PICK W, X : W = db.vols /\ X = db'.vols
  OBVIOUS
<1>2. X = Put(W, v, vol)
  BY <1>1 DEF SetVolume, VolumeTypes, IsDb
<1>3. /\ v \in DOMAIN W =>
           \A n \in Nodes : ~(W[v].pub[n] = "published" /\ vol.pub[n] = "nodeUnpublish")
  BY <1>1
<1>4. NoneTaken(W, X)
  BY <1>2, <1>3 DEF NoneTaken, Put
<1> QED BY <1>1, <1>4

LEMMA SameTakesNone ==
  ASSUME NEW W, NEW X, DOMAIN X \subseteq DOMAIN W, \A v \in DOMAIN X : X[v] = W[v]
  PROVE  NoneTaken(W, X)
BY DEF NoneTaken

LEMMA DriftTakesNone ==
  ASSUME VolumeInv, Manage \/ Agents
  PROVE  NoneTaken(db.vols, db'.vols)
<1>1. VolumeTypes /\ JobOK
  BY DEF VolumeInv
<1>2. CASE db' = db
  BY <1>2, SameTakesNone
<1>3. ASSUME NEW v, handleVolume(v) PROVE db' = db
  BY <1>3 DEF handleVolume
<1>4. CASE createVolume
  <2>1. CASE Retry
    BY <1>2, <2>1 DEF Retry
  <2>2. CASE SetVolume(csi.job.v, [db.vols[csi.job.v] EXCEPT !.info = TRUE])
    <3>1. PICK v, vol, w : /\ v = csi.job.v /\ vol = db.vols[v] /\ w = [vol EXCEPT !.info = TRUE]
      OBVIOUS
    <3>2. SetVolume(v, w)
      BY <2>2, <3>1
    <3>3. v \in DOMAIN db.vols => w.pub = vol.pub
      BY <1>1, <3>1, VolTypes DEF Vol
    <3> QED BY <1>1, <3>1, <3>2, <3>3, SetTakesNone
  <2> QED BY <1>4, <2>1, <2>2 DEF createVolume
<1>5. CASE WriteBack
  <2>1. PICK v, vol, w : /\ v = csi.job.v /\ vol = db.vols[v] /\ w = [vol EXCEPT !.pub = csi.job.pub]
    OBVIOUS
  <2>2. SetVolume(v, w)
    BY <1>5, <2>1 DEF WriteBack
  <2>3. csi.job # NoJob /\ csi.job.kind = "publish"
    BY <1>1, <1>5, Busy DEF WriteBack
  <2>4. v \in DOMAIN db.vols /\ \A n \in Nodes : JobFollows(n)
    BY <1>1, <2>1, <2>3 DEF JobOK
  <2>5. w.pub = csi.job.pub
    BY <1>1, <2>1, <2>4, VolTypes DEF Vol
  <2>6. \A n \in Nodes : ~(vol.pub[n] = "published" /\ w.pub[n] = "nodeUnpublish")
    BY <2>1, <2>4, <2>5 DEF JobFollows
  <2> QED BY <1>1, <2>1, <2>2, <2>6, SetTakesNone
<1>6. CASE deleteVolume
  <2>1. CASE UNCHANGED store \/ Retry
    BY <1>2, <2>1 DEF store, Retry
  <2>2. ASSUME NEW v, db' = [db EXCEPT !.vols = Drop(@, v)] PROVE NoneTaken(db.vols, db'.vols)
    <3>1. PICK W, X : W = db.vols /\ X = db'.vols
      OBVIOUS
    <3>2. X = Drop(W, v)
      BY <1>1, <2>2, <3>1 DEF VolumeTypes, IsDb
    <3>3. NoneTaken(W, X)
      BY <3>2 DEF NoneTaken, Drop, Restrict
    <3> QED BY <3>1, <3>3
  <2> QED BY <1>6, <2>1, <2>2 DEF deleteVolume
<1>7. ASSUME NEW n, CallPlugin(n) PROVE db' = db
  BY <1>7 DEF CallPlugin
<1>8. ASSUME NEW v, NEW n, AgentUnpublishes(v, n) PROVE db' = db
  BY <1>8 DEF AgentUnpublishes, store
<1>9. ASSUME NEW v, NEW n, processUpdates(v, n) PROVE NoneTaken(db.vols, db'.vols)
  <2>1. PICK vol, x, w : /\ vol = db.vols[v] /\ w = [vol EXCEPT !.pub = x]
                         /\ x = [vol.pub EXCEPT ![n] = IF @ = "no" THEN @ ELSE "unpublish"]
    OBVIOUS
  <2>2. v \in DOMAIN db.vols /\ SetVolume(v, w)
    BY <1>9, <2>1 DEF processUpdates
  <2>3. w.pub = x /\ vol.pub \in [Nodes -> PublishStates]
    BY <1>1, <2>1, <2>2, VolTypes DEF Vol
  <2>4. \A m \in Nodes : ~(vol.pub[m] = "published" /\ w.pub[m] = "nodeUnpublish")
    BY <2>1, <2>3
  <2> QED BY <1>1, <2>1, <2>2, <2>4, SetTakesNone
<1> QED BY <1>2, <1>3, <1>4, <1>5, <1>6, <1>7, <1>8, <1>9 DEF Manage, Agents

LEMMA OthersTakeNone ==
  ASSUME VolumeInv, Others
  PROVE  NoneTaken(db.vols, db'.vols)
<1>1. VolumeTypes
  BY DEF VolumeInv
<1>2. CASE db'.vols = db.vols
  BY <1>2, SameTakesNone
<1>3. ASSUME NEW t, Allocate(t) \/ Stop(t) \/ End(t) \/ Delete(t) PROVE db'.vols = db.vols
  BY <1>1, <1>3, WriteFrame, DbFrame DEF Allocate, Stop, End, Delete
<1>4. ASSUME NEW x, ChangeService(x) PROVE db'.vols = db.vols
  BY <1>1, <1>4, DbFrame DEF ChangeService
<1>5. ASSUME NEW n, \/ Join(n) \/ Flip(n) \/ Halt(n) \/ Relabel(n) \/ RemoveNode(n)
                    \/ \E room : Resize(n, room)
      PROVE  db'.vols = db.vols
  BY <1>1, <1>5, NodeFrame, DbFrame
     DEF Join, Flip, Halt, Relabel, RemoveNode, Resize, SetUpdated
<1>6. ASSUME NEW v \in left.new, CreateVolume(v) PROVE NoneTaken(db.vols, db'.vols)
  <2>1. v \notin DOMAIN db.vols
    BY <1>6 DEF VolumeInv, Fresh
  <2> QED BY <1>1, <1>6, <2>1, SetTakesNone DEF CreateVolume
<1>7. ASSUME NEW v \in DOMAIN db.vols, NEW avail, UpdateVolume(v, avail)
      PROVE  NoneTaken(db.vols, db'.vols)
  <2>1. PICK vol, w : vol = db.vols[v] /\ w = [vol EXCEPT !.avail = avail]
    OBVIOUS
  <2>2. SetVolume(v, w) /\ w.pub = vol.pub
    BY <1>1, <1>7, <2>1, VolTypes DEF UpdateVolume, Vol
  <2> QED BY <1>1, <2>1, <2>2, SetTakesNone
<1>8. ASSUME NEW v \in DOMAIN db.vols, RemoveVolume(v)
      PROVE  NoneTaken(db.vols, db'.vols)
  <2>1. PICK vol, w : vol = db.vols[v] /\ w = [vol EXCEPT !.deleting = TRUE]
    OBVIOUS
  <2>2. SetVolume(v, w) /\ w.pub = vol.pub
    BY <1>1, <1>8, <2>1, VolTypes DEF RemoveVolume, Vol
  <2> QED BY <1>1, <2>1, <2>2, SetTakesNone
<1> QED BY <1>2, <1>3, <1>4, <1>5, <1>6, <1>7, <1>8 DEF Others

LEMMA EnforceTakesNone ==
  ASSUME VolumeInv, Enforce
  PROVE  NoneTaken(db.vols, db'.vols)
<1>1. VolumeTypes
  BY DEF VolumeInv
<1>2. db'.vols = db.vols
  BY <1>1, WriteFrame
     DEF Enforce, rejectNoncompliantTasks, rejectVolumeUsers, RejectUnfit, RejectUser, Rejected
<1> QED BY <1>2, SameTakesNone

LEMMA StepsTakeNone ==
  ASSUME VolumeInv, Handle \/ Schedule \/ Plan \/ Apply \/ Leader
  PROVE  NoneTaken(db.vols, db'.vols)
<1>1. CASE Handle \/ Schedule \/ Plan \/ Leader
  <2>1. db' = db
    BY <1>1 DEF Handle, Schedule, Plan, Leader, store
  <2> QED BY <2>1, SameTakesNone
<1>2. CASE Apply
  <2>1. PICK T : db'.vols = Published(db, T)
    <3>1. VolumeTypes
      BY DEF VolumeInv
    <3>2. PICK T, x, X : db' = [db EXCEPT !.tasks = x, !.vols = X] /\ X = Published(db, T)
      BY <1>2 DEF Apply
    <3> QED BY <3>1, <3>2, DbFrame
  <2>2. PICK W, X : W = db.vols /\ X = db'.vols
    OBVIOUS
  <2>3. ASSUME NEW v \in DOMAIN W, NEW n \in Nodes, W[v].pub[n] = "published"
        PROVE  X[v].pub[n] = "published"
    <3>1. PICK vol, pub : /\ vol = W[v]
                          /\ pub = [m \in Nodes |-> IF vol.pub[m] = "no" /\ \E t \in T : t.vol = v /\ t.node = m
                                                    THEN "pending" ELSE vol.pub[m]]
      OBVIOUS
    <3>2. X[v] = [vol EXCEPT !.pub = pub]
      BY <2>1, <2>2, <2>3, <3>1 DEF Published
    <3>3. vol \in Vol
      BY <2>2, <2>3, <3>1, VolTypes DEF VolumeInv
    <3>4. X[v].pub = pub
      BY <3>2, <3>3 DEF Vol
    <3> QED BY <2>3, <3>1, <3>4
  <2> QED BY <2>2, <2>3 DEF NoneTaken
<1> QED BY <1>1, <1>2

(* A volume a task placed on a node uses is in use there in the picture,    *)
(* if the picture has the volume.                                           *)
LEMMA UsedInPicture ==
  ASSUME NEW l, NEW d, IsVols(d.vols), NEW q, NEW p, NEW r, Pic(l, d, q, p, r),
         NEW i, LiveIn(d.tasks, i), l.pre[i] = None, NEW v \in DOMAIN p.vols, v \in DOMAIN d.vols,
         d.tasks[i].vol = v
  PROVE  inUse(p.vols, v, d.tasks[i].node)
<1>1. PICK T, E, V, A : T = d.tasks /\ E = Range(q) /\ V = p.vols /\ A = p.all
  OBVIOUS
<1>2. Held(p, r, i) /\ HeldOK(T, E, p, r, i)
  BY <1>1 DEF Pic, TaskPart
<1>3. LiveIn(A, i) /\ Follows(A[i], T[i])
  BY <1>1, <1>2 DEF Held, HeldOK, LiveIn
<1>4. Uses(l, A, i, v) /\ A[i].node = T[i].node
  BY <1>1, <1>3 DEF Uses, Follows
<1>5. UsersOK(l, A, V, v)
  BY <1>1 DEF Pic, VolPart, VolOK, IsVols
<1>6. i \in DOMAIN V[v].users /\ V[v].users[i] = T[i].node
  BY <1>4, <1>5 DEF UsersOK
<1> QED BY <1>1, <1>6 DEF inUse, Range

LEMMA FinishTakesUnused ==
  ASSUME Invs, Finish, Pic(left, db, queue, s, run),
         NEW v \in DOMAIN db.vols \cap DOMAIN db'.vols, NEW n \in Nodes,
         db.vols[v].pub[n] = "published", db'.vols[v].pub[n] = "nodeUnpublish",
         NEW t \in LiveOn(n), Placed(t)
  PROVE  t.vol # v
<1>1. PICK W, X, V : W = db.vols /\ X = db'.vols /\ V = s.vols
  OBVIOUS
<1>2. X = Freed(db, V)
  <2>1. PICK Y : db' = [db EXCEPT !.vols = Y] /\ Y = Freed(db, V)
    BY <1>1 DEF Finish
  <2> QED BY <1>1, <2>1, InvTypes, DbFrame
<1>3. v \in DOMAIN V /\ ~inUse(V, v, n)
  <2>1. PICK vol, pub : /\ vol = W[v]
                        /\ pub = [m \in Nodes |-> IF vol.pub[m] = "published" /\ v \in DOMAIN V /\ ~inUse(V, v, m)
                                                  THEN "nodeUnpublish" ELSE vol.pub[m]]
    OBVIOUS
  <2>2. X[v] = [vol EXCEPT !.pub = pub]
    BY <1>1, <1>2, <2>1 DEF Freed
  <2>3. vol \in Vol
    BY <1>1, <2>1, InvTypes, VolTypes
  <2>4. X[v].pub = pub
    BY <2>2, <2>3 DEF Vol
  <2>5. pub[n] = "nodeUnpublish" /\ vol.pub[n] = "published"
    BY <1>1, <2>1, <2>4
  <2> QED BY <2>1, <2>5
<1>4. PICK i \in DOMAIN db.tasks : Live(db.tasks[i]) /\ db.tasks[i].node = n /\ db.tasks[i] = t
  BY DEF LiveOn, Range, LiveAt, Restrict
<1>5. db.tasks[i].id = i
  BY <1>4 DEF Pic, Kinds, AllOK
<1>6. PICK l, d, q, p, r : l = left /\ d = db /\ q = queue /\ p = s /\ r = run
  OBVIOUS
<1>7. LiveIn(d.tasks, i) /\ l.pre[i] = None /\ v \in DOMAIN p.vols /\ v \in DOMAIN d.vols
  BY <1>1, <1>3, <1>4, <1>5, <1>6 DEF LiveIn, Placed
<1>8. Pic(l, d, q, p, r) /\ IsVols(d.vols) /\ ~inUse(p.vols, v, n) /\ d.tasks[i].node = n
  BY <1>1, <1>3, <1>4, <1>6, InvTypes DEF VolumeTypes
<1>9. d.tasks[i].vol # v
  BY <1>7, <1>8, UsedInPicture
<1> QED BY <1>4, <1>6, <1>9

(* freeVolumes looks at the picture, not at the store, and still takes no   *)
(* volume from a node where a task that a prompt scheduler placed uses it.  *)
THEOREM UsedAlwaysStaysPublished == Spec /\ left.prompt => UsedStaysPublished
<1>1. ASSUME Invs, left.prompt, Pic(left, db, queue, s, run), [Next]_vars
      PROVE  [\A v \in DOMAIN db.vols \cap DOMAIN db'.vols, n \in Nodes :
                db.vols[v].pub[n] = "published" /\ db'.vols[v].pub[n] = "nodeUnpublish" =>
                  \A t \in LiveOn(n) : Placed(t) => t.vol # v]_vars
  <2>1. VolumeInv
    BY <1>1 DEF Invs
  <2>2. CASE NoneTaken(db.vols, db'.vols)
    BY <2>2 DEF NoneTaken
  <2>3. CASE Finish
    BY <1>1, <2>3, FinishTakesUnused
  <2>4. CASE Handle \/ Schedule \/ Plan \/ Apply \/ Leader
    BY <2>1, <2>2, <2>4, StepsTakeNone
  <2>5. CASE Manage \/ Agents
    BY <2>1, <2>2, <2>5, DriftTakesNone
  <2>6. CASE Enforce
    BY <2>1, <2>2, <2>6, EnforceTakesNone
  <2>7. CASE Others
    BY <2>1, <2>2, <2>7, OthersTakeNone
  <2> QED BY <1>1, <2>3, <2>4, <2>5, <2>6, <2>7 DEF Next, Progress, Steps
<1>2. VolumeInv /\ DecisionInv /\ PictureInv /\ left.prompt =>
        Invs /\ Pic(left, db, queue, s, run)
  BY DEF Invs, PictureInv
<1> QED BY <1>1, <1>2, AlwaysPrompt, PictureInvariant, VolumeInvariant, DecisionInvariant, PTL
        DEF Spec, UsedStaysPublished

=============================================================================
