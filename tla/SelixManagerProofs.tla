------------------------ MODULE SelixManagerProofs ------------------------
(***************************************************************************)
(* Nodes, their descriptors and their ids are kept apart, for any number   *)
(* of threads and nodes; and whatever addresses the allocator hands out    *)
(* again, the id keeps a thread that comes back from select() from walking *)
(* another node of the same manager.  The tables handed out never have     *)
(* more places than the manager's limit, and every block is accounted for. *)
(***************************************************************************)
EXTENDS SelixManager, FiniteSetTheorems, TLAPS

-----------------------------------------------------------------------------
(* Sizes of sets. *)

(* A set has as many elements as one it can be paired with. *)
LEMMA SameSize ==
  ASSUME NEW S, IsFiniteSet(S), NEW T, NEW f \in [S -> T],
         \A x, y \in S : f[x] = f[y] => x = y,
         \A t \in T : \E x \in S : f[x] = t
  PROVE  IsFiniteSet(T) /\ Cardinality(T) = Cardinality(S)
<1>1. f \in Injection(S, T)
  BY DEF Injection, IsInjective
<1>2. f \in Surjection(S, T)
  BY DEF Surjection
<1>3. ExistsBijection(S, T)
  BY <1>1, <1>2 DEF ExistsBijection, Bijection
<1> QED
  BY <1>3, FS_Bijection, Zenon

(* Two sets with nothing in common. *)
LEMMA DisjointSize ==
  ASSUME NEW S, IsFiniteSet(S), NEW T, IsFiniteSet(T), S \cap T = {}
  PROVE  /\ IsFiniteSet(S \cup T) /\ Cardinality(S) \in Nat /\ Cardinality(T) \in Nat
         /\ Cardinality(S \cup T) = Cardinality(S) + Cardinality(T)
<1>1. Cardinality(S) \in Nat /\ Cardinality(T) \in Nat
  BY FS_CardinalityType, Zenon
<1>2. /\ IsFiniteSet(S \cup T)
      /\ Cardinality(S \cup T) = Cardinality(S) + Cardinality(T) - Cardinality(S \cap T)
  BY FS_Union, Zenon
<1>3. Cardinality(S \cap T) = 0
  BY FS_EmptySet, Zenon
<1> DEFINE s == Cardinality(S)  t == Cardinality(T)  u == Cardinality(S \cup T)
<1>4. s \in Nat /\ t \in Nat /\ u = s + t - 0
  BY <1>1, <1>2, <1>3
<1> HIDE DEF s, t, u
<1>5. u = s + t
  BY <1>4
<1> QED
  BY <1>1, <1>2, <1>5 DEF s, t, u
-----------------------------------------------------------------------------
(* What the proofs need of the types. *)
Shape ==
  /\ inited \in BOOLEAN /\ maxId \in Nat /\ made \in Nat
  /\ nodes = [h \in Blocks |-> nodes[h]]
  /\ \A h \in Blocks : /\ nodes[h].data \in Blocks \cup {NoBlock}
                       /\ nodes[h].id \in Nat /\ nodes[h].serial \in Nat
  /\ pc \in [Threads -> {"out", "selecting", "walking", "orphaned"}]
  /\ sel \in [Threads -> SelRec]

(* A manager that is not inited has no nodes. *)
EmptyIfNotInited == ~inited => Live = {}

(* The lock is held across a walk, so the manager stays. *)
WalkerInited == \A t \in Threads : InWalk(t) => inited

Inv == Shape /\ NodesDistinct /\ EmptyIfNotInited /\ WalkerInited

(* Nothing lives at the start. *)
LEMMA InitInv == Init => Inv
<1> SUFFICES ASSUME Init PROVE Inv
  OBVIOUS
<1>1. Live = {}
  BY DEF Init, Live, NoNode
<1>2. Shape
  BY ManagerAssumption DEF ManagerAssumption, Init, Shape, NoNode, NoSel, SelRec
<1> QED
  BY <1>1, <1>2 DEF Inv, NodesDistinct, EmptyIfNotInited, WalkerInited, InWalk, Init

(* A new node is at addresses that were free and has an id above the others. *)
LEMMA AddNodeInv ==
  ASSUME Inv, inited, NEW req, NEW h \in Blocks, NEW d \in Blocks,
         AddNode(req, h, d), UNCHANGED <<lifecycle, freed>>,
         pc' = pc, sel' = sel
  PROVE  Inv'
<1> DEFINE new == [size |-> NodeSize(req), id |-> maxId + 1, data |-> d, serial |-> made + 1]
<1>1. /\ nodes' = [nodes EXCEPT ![h] = new] /\ maxId' = maxId + 1 /\ made' = made + 1
      /\ h \notin Taken /\ d \notin Taken /\ h # d
  BY DEF AddNode, Free
<1>2. nodes'[h] = new /\ \A g \in Blocks \ {h} : nodes'[g] = nodes[g]
  BY <1>1 DEF Inv, Shape
<1>3. /\ new.id = maxId + 1 /\ new.data = d /\ new.serial = made + 1
  OBVIOUS
<1> HIDE DEF new
<1>4. Shape'
  <2>1. nodes' = [g \in Blocks |-> nodes'[g]]
    BY <1>1 DEF Inv, Shape
  <2>2. \A g \in Blocks : /\ nodes'[g].data \in Blocks \cup {NoBlock}
                          /\ nodes'[g].id \in Nat /\ nodes'[g].serial \in Nat
    BY <1>2, <1>3 DEF Inv, Shape
  <2> QED
    BY <1>1, <2>1, <2>2 DEF Inv, Shape, lifecycle
<1>5. Live' = Live \cup {h}
  BY <1>2, <1>3, ManagerAssumption DEF Live, ManagerAssumption
<1>6. NodesDistinct'
  <2>1. \A g \in Live : /\ nodes'[g] = nodes[g] /\ g # h /\ nodes[g].data # h
                        /\ g # d /\ nodes[g].data # d
                        /\ nodes[g].id <= maxId /\ nodes[g].id \in Nat
    BY <1>1, <1>2 DEF Taken, Live, Inv, Shape, NodesDistinct
  <2>2. \A g \in Live' : nodes'[g].id <= maxId' /\ g # nodes'[g].data
    <3>1. nodes'[h].id <= maxId' /\ h # nodes'[h].data
      BY <1>1, <1>2, <1>3 DEF Inv, Shape
    <3>2. ASSUME NEW g \in Live PROVE nodes'[g].id <= maxId' /\ g # nodes'[g].data
      <4>1. nodes'[g] = nodes[g] /\ nodes[g].id <= maxId /\ nodes[g].id \in Nat
        BY <2>1
      <4>2. maxId \in Nat /\ g # nodes[g].data
        BY DEF Inv, Shape, NodesDistinct
      <4> QED
        BY <1>1, <4>1, <4>2
    <3> QED
      BY <1>5, <3>1, <3>2
  <2>3. ASSUME NEW f \in Live', NEW g \in Live', f # g
        PROVE  /\ nodes'[f].id # nodes'[g].id
               /\ {f, nodes'[f].data} \cap {g, nodes'[g].data} = {}
    <3>1. CASE f \in Live /\ g \in Live
      <4>1. nodes'[f] = nodes[f] /\ nodes'[g] = nodes[g]
        BY <2>1, <3>1
      <4> QED
        BY <2>3, <3>1, <4>1 DEF Inv, NodesDistinct
    <3>2. CASE f = h /\ g \in Live
      <4>1. /\ nodes'[g] = nodes[g] /\ nodes[g].id <= maxId /\ nodes[g].id \in Nat
            /\ g # h /\ nodes[g].data # h /\ g # d /\ nodes[g].data # d
        BY <2>1, <3>2
      <4>2. nodes'[f].id = maxId + 1 /\ nodes'[f].data = d /\ maxId \in Nat
        BY <1>2, <1>3, <3>2 DEF Inv, Shape
      <4> QED
        BY <4>1, <4>2, <3>2
    <3>3. CASE f \in Live /\ g = h
      <4>1. /\ nodes'[f] = nodes[f] /\ nodes[f].id <= maxId /\ nodes[f].id \in Nat
            /\ f # h /\ nodes[f].data # h /\ f # d /\ nodes[f].data # d
        BY <2>1, <3>3
      <4>2. nodes'[g].id = maxId + 1 /\ nodes'[g].data = d /\ maxId \in Nat
        BY <1>2, <1>3, <3>3 DEF Inv, Shape
      <4> QED
        BY <4>1, <4>2, <3>3
    <3> QED
      BY <1>5, <2>3, <3>1, <3>2, <3>3
  <2> QED
    BY <2>2, <2>3 DEF NodesDistinct
<1> QED
  BY <1>4, <1>6 DEF Inv, EmptyIfNotInited, WalkerInited, InWalk, lifecycle

(* Taking a node out disturbs no other. *)
LEMMA RemoveNodeInv ==
  ASSUME Inv, NEW h \in Live, RemoveNode(h),
         UNCHANGED <<lifecycle, maxId, made, sel>>,
         pc' \in [Threads -> {"out", "selecting", "walking", "orphaned"}], WalkerInited'
  PROVE  Inv'
<1>1. h \in Blocks /\ nodes[h].data \in Blocks
  BY DEF Live, Inv, Shape
<1>2. nodes' = [nodes EXCEPT ![h] = NoNode]
  BY DEF RemoveNode
<1>3. nodes'[h] = NoNode /\ \A g \in Blocks \ {h} : nodes'[g] = nodes[g]
  BY <1>1, <1>2 DEF Inv, Shape
<1>4. Live' = Live \ {h}
  BY <1>1, <1>3 DEF Live, NoNode
<1>5. Shape'
  <2>1. nodes' = [g \in Blocks |-> nodes'[g]]
    BY <1>2 DEF Inv, Shape
  <2>2. \A g \in Blocks : /\ nodes'[g].data \in Blocks \cup {NoBlock}
                          /\ nodes'[g].id \in Nat /\ nodes'[g].serial \in Nat
    BY <1>3 DEF Inv, Shape, NoNode
  <2> QED
    BY <1>1, <2>1, <2>2 DEF Inv, Shape, RemoveNode, lifecycle
<1>6. \A g \in Live' : g \in Live /\ nodes'[g] = nodes[g]
  BY <1>3, <1>4 DEF Live
<1> QED
  BY <1>4, <1>5, <1>6 DEF Inv, NodesDistinct, EmptyIfNotInited, lifecycle

(* Steps that leave the nodes and the counter of ids as they are. *)
LEMMA SameNodesInv ==
  ASSUME Inv, nodes' = nodes, maxId' \in Nat, maxId <= maxId', UNCHANGED <<made, freed>>,
         inited' \in BOOLEAN, inited => inited', WalkerInited',
         pc' \in [Threads -> {"out", "selecting", "walking", "orphaned"}], sel' \in [Threads -> SelRec]
  PROVE  Inv'
<1>1. Live' = Live /\ Shape'
  BY DEF Live, Inv, Shape
<1>2. NodesDistinct'
  <2>1. \A h \in Live : nodes'[h].id <= maxId' /\ h # nodes'[h].data
    <3>1. ASSUME NEW h \in Live PROVE nodes[h].id <= maxId'
      <4>1. nodes[h].id \in Nat /\ nodes[h].id <= maxId /\ maxId \in Nat
        BY DEF Live, Inv, Shape, NodesDistinct
      <4> QED
        BY <4>1
    <3> QED
      BY <3>1 DEF Inv, NodesDistinct
  <2> QED
    BY <1>1, <2>1 DEF Inv, NodesDistinct
<1> QED
  BY <1>1, <1>2 DEF Inv, EmptyIfNotInited

(* selixInit and selixEnd. *)
LEMMA LifecycleInv ==
  ASSUME Inv, NEW t \in Threads, Lifecycle(t)
  PROVE  Inv'
<1>1. ASSUME NEW n \in Limits, selixInit(t, n) PROVE Inv'
  <2>1. /\ UNCHANGED <<table, pc, sel>> /\ inited' \in BOOLEAN /\ (inited => inited')
    BY <1>1 DEF selixInit, Inv, Shape
  <2>2. nodes' = nodes /\ maxId' = maxId /\ maxId \in Nat /\ maxId <= maxId
    BY <2>1 DEF table, Inv, Shape
  <2>3. WalkerInited'
    BY <2>1 DEF Inv, WalkerInited, InWalk
  <2> QED
    BY <2>1, <2>2, <2>3, SameNodesInv DEF table, Inv, Shape
<1>2. CASE selixEnd(t)
  <2>1. CASE UNCHANGED <<inited, limit, maxId, nodes, freed, past>>
    BY <1>2, <2>1, SameNodesInv DEF selixEnd, Inv, Shape, WalkerInited, InWalk
  <2>2. CASE TearDown
    <3>1. Live' = {}
      BY <2>2 DEF TearDown, Live, NoNode
    <3>2. Taken \subseteq Blocks
      BY DEF Taken, Live, Inv, Shape
    <3>3. Shape'
      BY <1>2, <2>2, <3>2 DEF selixEnd, TearDown, Inv, Shape, NoNode
    <3>4. WalkerInited'
      BY <1>2 DEF selixEnd, SerialLifecycle, LockFree, InWalk, WalkerInited, Inv, Shape
    <3> QED
      BY <3>1, <3>3, <3>4 DEF Inv, NodesDistinct, EmptyIfNotInited
  <2> QED
    BY <1>2, <2>1, <2>2 DEF selixEnd
<1> QED
  BY <1>1, <1>2 DEF Lifecycle

(* The steps of selixSelect touch no node. *)
LEMMA SelectInv ==
  ASSUME Inv, NEW t \in Threads, Select(t)
  PROVE  Inv'
<1>0. NoSel \in SelRec
  BY DEF NoSel, SelRec
<1>1. UNCHANGED <<lifecycle, table>> /\ pc' \in [Threads -> {"out", "selecting", "walking", "orphaned"}]
  BY DEF Select, SelectCopy, SelectReturn, EnvironmentGone, SelectGivesUp, WalkEnds, Inv, Shape
<1>2. sel' \in [Threads -> SelRec]
  <2>1. ASSUME NEW h \in Blocks, SelectCopy(t, h) PROVE sel' \in [Threads -> SelRec]
    BY <2>1 DEF SelectCopy, Inv, Shape, SelRec
  <2> QED
    BY <1>0, <2>1
    DEF Select, SelectReturn, EnvironmentGone, SelectGivesUp, WalkEnds, Inv, Shape
<1>3. WalkerInited'
  BY <1>1 DEF Select, SelectCopy, SelectReturn, SameEnvironment, EnvironmentGone,
              SelectGivesUp, WalkEnds, Inv, Shape, WalkerInited, InWalk, lifecycle
<1> QED
  BY <1>1, <1>2, <1>3, SameNodesInv DEF lifecycle, table, Inv, Shape

(* Every step keeps the nodes distinct. *)
LEMMA StepInv == Inv /\ [Next]_vars => Inv'
<1> SUFFICES ASSUME Inv, [Next]_vars PROVE Inv'
  OBVIOUS
<1>1. CASE UNCHANGED vars
  BY <1>1, SameNodesInv DEF vars, lifecycle, table, Inv, Shape, WalkerInited, InWalk
<1>2. ASSUME NEW t \in Threads, Lifecycle(t) PROVE Inv'
  BY <1>2, LifecycleInv
<1>3. ASSUME NEW t \in Threads, Create(t) PROVE Inv'
  <2>1. CASE \E req \in Requests : CreateRefused(req) /\ selixCreateNode(t, req)
    BY <2>1, SameNodesInv
    DEF CreateRefused, selixCreateNode, lifecycle, Inv, Shape, WalkerInited, InWalk
  <2>2. ASSUME NEW req \in Requests, NEW h \in Blocks, NEW d \in Blocks,
               AddNode(req, h, d), UNCHANGED <<lifecycle, pc, sel, past, opened, freed>>, inited
        PROVE  Inv'
    BY <2>2, AddNodeInv
  <2>3. CASE \E req \in Requests : CallbackCreates(t, req)
    <3>1. PICK req \in Requests, h \in Blocks, d \in Blocks :
            NodeSize(req) > 0 /\ AddNode(req, h, d) /\ UNCHANGED <<lifecycle, pc, sel, past, opened, freed>>
      BY <2>3 DEF CallbackCreates
    <3>2. inited
      BY <2>3 DEF CallbackCreates, Inv, WalkerInited
    <3> QED
      BY <2>2, <3>1, <3>2
  <2> QED
    BY <1>3, <2>1, <2>2, <2>3 DEF Create, selixCreateNode
<1>4. ASSUME NEW t \in Threads, Destroy(t) PROVE Inv'
  <2>1. PICK h \in Blocks : selixDestroyNode(t, h) \/ CallbackDestroys(t, h)
    BY <1>4 DEF Destroy
  <2>2. /\ pc' \in [Threads -> {"out", "selecting", "walking", "orphaned"}]
        /\ UNCHANGED <<lifecycle, maxId, made, sel>>
    BY <2>1 DEF selixDestroyNode, CallbackDestroys, Inv, Shape
  <2>3. WalkerInited'
    BY <2>1, <2>2 DEF selixDestroyNode, CallbackDestroys, lifecycle, Inv, Shape, WalkerInited, InWalk
  <2>4. CASE h \in Live /\ RemoveNode(h)
    BY <2>2, <2>3, <2>4, RemoveNodeInv
  <2>5. CASE UNCHANGED <<nodes, freed>>
    BY <2>2, <2>3, <2>5, SameNodesInv DEF lifecycle, Inv, Shape
  <2> QED
    BY <2>1, <2>4, <2>5 DEF selixDestroyNode, CallbackDestroys
<1>5. ASSUME NEW t \in Threads, Select(t) PROVE Inv'
  BY <1>5, SelectInv
<1>6. ASSUME NEW t \in Threads, lixOpen(t) PROVE Inv'
  BY <1>6, SameNodesInv DEF lixOpen, lifecycle, Inv, Shape, WalkerInited, InWalk
<1> QED
  BY <1>1, <1>2, <1>3, <1>4, <1>5, <1>6 DEF Next

(* For every number of threads, nodes and sockets, live nodes have ids and  *)
(* blocks of their own, whether or not the allocator reuses addresses.      *)
THEOREM ManagerNodesDistinct == Spec => []NodesDistinct
<1>1. Inv => NodesDistinct
  BY DEF Inv
<1> QED
  BY <1>1, InitInv, StepInv, PTL DEF Spec

-----------------------------------------------------------------------------
(* The number of a copy made under this manager is no later node's, and ids *)
(* and serial numbers grow together, so it is no other node's either.       *)
PastNodes == past \in Nat /\ past <= made /\ \A h \in Live : nodes[h].serial <= made

CopyTells ==
  \A t \in Threads : pc[t] # "out" /\ sel[t].serial > past =>
    /\ sel[t].id <= maxId
    /\ \A h \in Live : nodes[h].id = sel[t].id => nodes[h].serial = sel[t].serial

CopiesMade == \A t \in Threads : sel[t].serial <= made

CopyInv == Inv /\ PastNodes /\ CopyTells /\ CopiesMade

(* At the start nobody selects. *)
LEMMA InitCopyInv == Init => CopyInv
<1> SUFFICES ASSUME Init PROVE CopyInv
  OBVIOUS
<1>1. Live = {}
  BY DEF Init, Live, NoNode
<1>2. PastNodes /\ CopyTells /\ CopiesMade
  BY <1>1 DEF Init, PastNodes, CopyTells, CopiesMade, NoSel
<1> QED
  BY <1>2, InitInv DEF CopyInv

(* Steps after which the live nodes were live before, with the same numbers. *)
LEMMA FewerNodesCopyInv ==
  ASSUME CopyInv, Inv', UNCHANGED <<made, past, sel>>, maxId <= maxId',
         \A h \in Live' : h \in Live /\ nodes'[h] = nodes[h],
         \A t \in Threads : pc'[t] = "out" <=> pc[t] = "out"
  PROVE  CopyInv'
<1>1. maxId \in Nat /\ maxId' \in Nat
  BY DEF CopyInv, Inv, Shape
<1>2. PastNodes' /\ CopiesMade'
  BY DEF CopyInv, PastNodes, CopiesMade
<1>3. CopyTells'
  <2> SUFFICES ASSUME NEW t \in Threads, pc'[t] # "out", sel'[t].serial > past'
      PROVE  /\ sel'[t].id <= maxId'
             /\ \A h \in Live' : nodes'[h].id = sel'[t].id => nodes'[h].serial = sel'[t].serial
    BY DEF CopyTells
  <2>1. /\ sel[t].id <= maxId /\ sel'[t] = sel[t]
        /\ \A h \in Live : nodes[h].id = sel[t].id => nodes[h].serial = sel[t].serial
    BY DEF CopyInv, CopyTells
  <2>2. sel[t].id \in Nat
    BY DEF CopyInv, Inv, Shape, SelRec
  <2> QED
    BY <1>1, <2>1, <2>2
<1> QED
  BY <1>2, <1>3 DEF CopyInv

(* A new node has an id that no copy has. *)
LEMMA AddNodeCopyInv ==
  ASSUME CopyInv, Inv', NEW req, NEW h \in Blocks, NEW d \in Blocks,
         AddNode(req, h, d), UNCHANGED <<past, pc, sel>>
  PROVE  CopyInv'
<1>1. /\ nodes' = [nodes EXCEPT ![h] = [size |-> NodeSize(req), id |-> maxId + 1,
                                        data |-> d, serial |-> made + 1]]
      /\ maxId' = maxId + 1 /\ made' = made + 1
  BY DEF AddNode
<1>2. /\ nodes'[h].id = maxId + 1 /\ nodes'[h].serial = made + 1
      /\ \A g \in Blocks \ {h} : nodes'[g] = nodes[g]
  BY <1>1 DEF CopyInv, Inv, Shape
<1>3. \A g \in Live' : g = h \/ (g \in Live /\ nodes'[g] = nodes[g])
  BY <1>2 DEF Live
<1>4. maxId \in Nat /\ made \in Nat /\ past \in Nat
  BY DEF CopyInv, Inv, Shape, PastNodes
<1>5. PastNodes'
  <2>1. \A g \in Live' : nodes'[g].serial <= made'
    <3> SUFFICES ASSUME NEW g \in Live' PROVE nodes'[g].serial <= made'
      OBVIOUS
    <3>1. CASE g = h
      BY <1>1, <1>2, <1>4, <3>1
    <3>2. CASE g \in Live /\ nodes'[g] = nodes[g]
      <4>1. nodes[g].serial \in Nat /\ nodes[g].serial <= made
        BY <3>2 DEF CopyInv, PastNodes, Inv, Shape, Live
      <4> QED
        BY <1>1, <1>4, <3>2, <4>1
    <3> QED
      BY <1>3, <3>1, <3>2
  <2> QED
    BY <1>1, <1>4, <2>1 DEF CopyInv, PastNodes
<1>6. ASSUME NEW t \in Threads PROVE sel[t].serial \in Nat /\ sel[t].id \in Nat /\ sel[t].serial <= made
  BY DEF CopyInv, CopiesMade, Inv, Shape, SelRec
<1>7. CopiesMade'
  BY <1>1, <1>4, <1>6 DEF CopiesMade
<1>8. CopyTells'
  <2> SUFFICES ASSUME NEW t \in Threads, pc'[t] # "out", sel'[t].serial > past'
      PROVE  /\ sel'[t].id <= maxId'
             /\ \A g \in Live' : nodes'[g].id = sel'[t].id => nodes'[g].serial = sel'[t].serial
    BY DEF CopyTells
  <2>1. /\ sel[t].id <= maxId /\ sel'[t] = sel[t]
        /\ \A g \in Live : nodes[g].id = sel[t].id => nodes[g].serial = sel[t].serial
    BY DEF CopyInv, CopyTells
  <2>2. sel'[t].id <= maxId' /\ nodes'[h].id # sel'[t].id
    BY <1>1, <1>2, <1>4, <1>6, <2>1
  <2> QED
    BY <1>3, <2>1, <2>2
<1> QED
  BY <1>5, <1>7, <1>8 DEF CopyInv

(* selixSelect copies a live node, and otherwise leaves the copies alone. *)
LEMMA SelectCopyInv ==
  ASSUME CopyInv, Inv', NEW t \in Threads, Select(t)
  PROVE  CopyInv'
<1>1. UNCHANGED <<nodes, maxId, made, past>> /\ Live' = Live
  BY DEF Select, SelectCopy, SelectReturn, EnvironmentGone, SelectGivesUp, WalkEnds, table, Live
<1>2. pc \in [Threads -> {"out", "selecting", "walking", "orphaned"}] /\ sel \in [Threads -> SelRec]
  BY DEF CopyInv, Inv, Shape
<1>3. PastNodes'
  BY <1>1 DEF CopyInv, PastNodes
<1>4. ASSUME NEW h \in Blocks, SelectCopy(t, h) PROVE CopyTells' /\ CopiesMade'
  <2>1. /\ h \in Live /\ pc' = [pc EXCEPT ![t] = "selecting"]
        /\ sel' = [sel EXCEPT ![t] = [at |-> h, data |-> nodes[h].data,
                        id |-> nodes[h].id, serial |-> nodes[h].serial]]
    BY <1>4 DEF SelectCopy
  <2>2. sel'[t].id = nodes[h].id /\ sel'[t].serial = nodes[h].serial
    BY <1>2, <2>1
  <2>3. \A u \in Threads \ {t} : sel'[u] = sel[u] /\ pc'[u] = pc[u]
    BY <1>2, <2>1
  <2>4. /\ sel'[t].id <= maxId' /\ sel'[t].serial <= made'
        /\ \A g \in Live' : nodes'[g].id = sel'[t].id => nodes'[g].serial = sel'[t].serial
    BY <1>1, <2>1, <2>2 DEF CopyInv, Inv, NodesDistinct, PastNodes
  <2>5. ASSUME NEW u \in Threads, pc'[u] # "out", sel'[u].serial > past'
        PROVE  /\ sel'[u].id <= maxId'
               /\ \A g \in Live' : nodes'[g].id = sel'[u].id => nodes'[g].serial = sel'[u].serial
    <3>1. CASE u = t
      BY <2>4, <3>1
    <3>2. CASE u # t
      BY <1>1, <2>3, <2>5, <3>2 DEF CopyInv, CopyTells
    <3> QED
      BY <3>1, <3>2
  <2>6. CopiesMade'
    BY <1>1, <2>3, <2>4 DEF CopyInv, CopiesMade
  <2> QED
    BY <2>5, <2>6 DEF CopyTells
<1>5. CASE UNCHANGED sel /\ \A u \in Threads : pc'[u] # "out" => pc[u] # "out"
  <2>1. CopyTells' /\ CopiesMade'
    BY <1>1, <1>5 DEF CopyInv, CopyTells, CopiesMade
  <2> QED
    BY <1>3, <2>1 DEF CopyInv
<1>6. CASE pc' = [pc EXCEPT ![t] = "out"] /\ sel' = [sel EXCEPT ![t] = NoSel]
  <2>1. /\ sel'[t].serial = 0 /\ pc'[t] = "out"
        /\ \A u \in Threads \ {t} : sel'[u] = sel[u] /\ pc'[u] = pc[u]
    BY <1>2, <1>6 DEF NoSel
  <2>2. made \in Nat
    BY DEF CopyInv, Inv, Shape
  <2>3. CopiesMade'
    BY <1>1, <2>1, <2>2 DEF CopyInv, CopiesMade
  <2>4. CopyTells'
    BY <1>1, <2>1 DEF CopyInv, CopyTells
  <2> QED
    BY <1>3, <2>3, <2>4 DEF CopyInv
<1>7. CASE SelectReturn(t)
  BY <1>2, <1>5, <1>6, <1>7 DEF SelectReturn, EnvironmentGone
<1> QED
  BY <1>3, <1>4, <1>6, <1>7 DEF Select, SelectGivesUp, WalkEnds, CopyInv

(* Every step keeps the copies telling. *)
LEMMA StepCopyInv == CopyInv /\ [Next]_vars => CopyInv'
<1> SUFFICES ASSUME CopyInv, [Next]_vars PROVE CopyInv'
  OBVIOUS
<1>0. Inv' /\ maxId \in Nat
  BY StepInv DEF CopyInv, Inv, Shape
<1>1. CASE UNCHANGED vars
  <2>1. UNCHANGED <<nodes, maxId, made, past, sel, pc>> /\ Live' = Live
    BY <1>1 DEF vars, table, Live
  <2> QED
    BY <1>0, <2>1, FewerNodesCopyInv
<1>2. ASSUME NEW t \in Threads, Lifecycle(t) PROVE CopyInv'
  <2>1. CASE UNCHANGED <<nodes, maxId, made, past, sel, pc>>
    <3>1. Live' = Live
      BY <2>1 DEF Live
    <3> QED
      BY <1>0, <2>1, <3>1, FewerNodesCopyInv
  <2>2. CASE selixEnd(t) /\ TearDown
    <3>1. Live' = {} /\ past' = made /\ UNCHANGED <<made, sel>> /\ made \in Nat
      BY <2>2 DEF selixEnd, TearDown, Live, NoNode, CopyInv, Inv, Shape
    <3>2. PastNodes' /\ CopiesMade'
      BY <3>1 DEF PastNodes, CopyInv, CopiesMade
    <3>3. \A u \in Threads : ~(sel'[u].serial > past')
      <4> SUFFICES ASSUME NEW u \in Threads PROVE ~(sel[u].serial > made)
        BY <3>1
      <4>1. sel[u].serial \in Nat /\ sel[u].serial <= made
        BY DEF CopyInv, CopiesMade, Inv, Shape, SelRec
      <4> QED
        BY <3>1, <4>1
    <3> QED
      BY <1>0, <3>2, <3>3 DEF CopyInv, CopyTells
  <2> QED
    BY <1>2, <2>1, <2>2 DEF Lifecycle, selixInit, selixEnd, table
<1>3. ASSUME NEW t \in Threads, Create(t) PROVE CopyInv'
  <2>1. CASE UNCHANGED <<nodes, maxId, made, past, sel, pc>>
    <3>1. Live' = Live
      BY <2>1 DEF Live
    <3> QED
      BY <1>0, <2>1, <3>1, FewerNodesCopyInv
  <2>2. CASE \E req \in Requests, h, d \in Blocks :
               AddNode(req, h, d) /\ UNCHANGED <<past, pc, sel>>
    BY <1>0, <2>2, AddNodeCopyInv
  <2> QED
    BY <1>3, <2>1, <2>2 DEF Create, selixCreateNode, CallbackCreates, CreateRefused
<1>4. ASSUME NEW t \in Threads, Destroy(t) PROVE CopyInv'
  <2>1. PICK h \in Blocks : selixDestroyNode(t, h) \/ CallbackDestroys(t, h)
    BY <1>4 DEF Destroy
  <2>2. UNCHANGED <<maxId, made, past, sel>>
    BY <2>1 DEF selixDestroyNode, CallbackDestroys
  <2>3. \A u \in Threads : pc'[u] = "out" <=> pc[u] = "out"
    BY <2>1 DEF selixDestroyNode, CallbackDestroys, InWalk, CopyInv, Inv, Shape
  <2>4. \A g \in Live' : g \in Live /\ nodes'[g] = nodes[g]
    <3>1. CASE UNCHANGED nodes
      BY <3>1 DEF Live
    <3>2. CASE RemoveNode(h)
      BY <3>2 DEF RemoveNode, Live, NoNode, CopyInv, Inv, Shape
    <3> QED
      BY <2>1, <3>1, <3>2 DEF selixDestroyNode, CallbackDestroys
  <2> QED
    BY <1>0, <2>2, <2>3, <2>4, FewerNodesCopyInv
<1>5. ASSUME NEW t \in Threads, Select(t) PROVE CopyInv'
  BY <1>0, <1>5, SelectCopyInv
<1>6. ASSUME NEW t \in Threads, lixOpen(t) PROVE CopyInv'
  <2>1. UNCHANGED <<nodes, made, past, sel, pc>> /\ maxId <= maxId' /\ Live' = Live
    BY <1>0, <1>6 DEF lixOpen, Live
  <2> QED
    BY <1>0, <2>1, FewerNodesCopyInv
<1> QED
  BY <1>1, <1>2, <1>3, <1>4, <1>5, <1>6 DEF Next

(* A node that is walked was let through by the test of selixSelect. *)
LEMMA WalkStartsAtTest ==
  ASSUME Inv, [Next]_vars, NEW t \in Threads, pc[t] = "selecting", pc'[t] = "walking"
  PROVE  SameEnvironment(sel[t])
<1>0. pc \in [Threads -> {"out", "selecting", "walking", "orphaned"}]
  BY DEF Inv, Shape
<1>1. ASSUME NEW u \in Threads, Select(u) PROVE SameEnvironment(sel[t])
  <2>1. CASE pc' = [pc EXCEPT ![u] = "out"] \/ pc' = [pc EXCEPT ![u] = "selecting"]
    BY <1>0, <2>1
  <2>2. CASE SameEnvironment(sel[u]) /\ pc' = [pc EXCEPT ![u] = "walking"]
    BY <1>0, <2>2
  <2> QED
    BY <1>1, <2>1, <2>2
    DEF Select, SelectCopy, SelectReturn, EnvironmentGone, SelectGivesUp, WalkEnds
<1>2. ASSUME NEW u \in Threads, Lifecycle(u) \/ Create(u) \/ Destroy(u) \/ lixOpen(u)
      PROVE  pc'[t] # "walking"
  BY <1>0, <1>2 DEF Lifecycle, selixInit, selixEnd, Create, selixCreateNode, CallbackCreates,
                    Destroy, selixDestroyNode, CallbackDestroys, lixOpen
<1> QED
  BY <1>1, <1>2 DEF Next, vars

(* Whatever addresses the allocator hands out again, and however many       *)
(* threads select, create, destroy, from a callback too, and end the        *)
(* manager: a thread that comes back from select() under the manager it     *)
(* made its copy under walks no node that came to live in its node's memory.*)
THEOREM ManagerWalksNoOtherNode == Spec => NoOtherNodeWalked
<1>1. ASSUME CopyInv, [Next]_vars
      PROVE  [\A t \in Threads :
                pc[t] = "selecting" /\ pc'[t] = "walking" /\ sel[t].serial > past =>
                  \A h \in Live : nodes[h].data = sel[t].data
                                    => nodes[h].serial = sel[t].serial]_vars
  <2> SUFFICES ASSUME NEW t \in Threads, pc[t] = "selecting", pc'[t] = "walking",
                      sel[t].serial > past, NEW h \in Live, nodes[h].data = sel[t].data
      PROVE  nodes[h].serial = sel[t].serial
    OBVIOUS
  <2>1. sel[t].id \in IdsAt(sel[t].data)
    BY <1>1, WalkStartsAtTest DEF CopyInv, SameEnvironment
  <2>2. \A g \in Live : nodes[g].data = sel[t].data => g = h
    BY <1>1 DEF CopyInv, Inv, NodesDistinct
  <2>3. sel[t].id = nodes[h].id
    BY <2>1, <2>2 DEF IdsAt
  <2> QED
    BY <1>1, <2>3 DEF CopyInv, CopyTells
<1> QED
  BY <1>1, InitCopyInv, StepCopyInv, PTL DEF Spec, NoOtherNodeWalked

-----------------------------------------------------------------------------
(* How a step changes the nodes: not at all, by one node more, by one less, *)
(* or by all of them going.                                                 *)
Kept ==
  /\ UNCHANGED <<nodes, made, freed>>
  /\ \/ UNCHANGED <<inited, limit>>
     \/ ~inited /\ inited' /\ limit' \in Limits

Added(req, h, d) ==
  /\ inited /\ NodeSize(req) > 0 /\ AddNode(req, h, d)
  /\ UNCHANGED <<inited, limit, freed>>

Removed(h) == RemoveNode(h) /\ UNCHANGED <<inited, limit, made>>

Ended == TearDown /\ UNCHANGED made

(* Every step is one of these. *)
LEMMA StepKinds ==
  ASSUME Inv, [Next]_vars
  PROVE  \/ Kept
         \/ \E req \in Requests, h, d \in Blocks : Added(req, h, d)
         \/ \E h \in Live : Removed(h)
         \/ Ended
<1>1. CASE UNCHANGED vars
  BY <1>1 DEF vars, lifecycle, table, Kept
<1>2. ASSUME NEW t \in Threads, Lifecycle(t) PROVE Kept \/ Ended
  <2>1. ASSUME NEW n \in Limits, selixInit(t, n) PROVE Kept
    <3>1. UNCHANGED <<nodes, made, freed>>
      BY <2>1 DEF selixInit, table
    <3>2. UNCHANGED <<inited, limit>> \/ (~inited /\ inited' /\ limit' \in Limits)
      BY <2>1 DEF selixInit
    <3> QED
      BY <3>1, <3>2 DEF Kept
  <2>2. CASE selixEnd(t)
    <3>1. CASE UNCHANGED <<inited, limit, maxId, nodes, freed, past>>
      BY <2>2, <3>1 DEF selixEnd, Kept
    <3>2. CASE TearDown
      BY <2>2, <3>2 DEF selixEnd, Ended
    <3> QED
      BY <2>2, <3>1, <3>2 DEF selixEnd
  <2> QED
    BY <1>2, <2>1, <2>2 DEF Lifecycle
<1>3. ASSUME NEW t \in Threads, Create(t)
      PROVE  Kept \/ \E req \in Requests, h, d \in Blocks : Added(req, h, d)
  <2>1. CASE \E req \in Requests : CreateRefused(req) /\ selixCreateNode(t, req)
    BY <2>1 DEF CreateRefused, selixCreateNode, lifecycle, Kept
  <2>2. ASSUME NEW req \in Requests, NEW h \in Blocks, NEW d \in Blocks, NodeSize(req) > 0,
               AddNode(req, h, d), UNCHANGED <<lifecycle, pc, sel, past, opened, freed>>, inited
        PROVE  Added(req, h, d)
    BY <2>2 DEF Added, lifecycle
  <2>3. CASE \E req \in Requests : CallbackCreates(t, req)
    <3>1. PICK req \in Requests, h \in Blocks, d \in Blocks :
            NodeSize(req) > 0 /\ AddNode(req, h, d) /\ UNCHANGED <<lifecycle, pc, sel, past, opened, freed>>
      BY <2>3 DEF CallbackCreates
    <3>2. inited
      BY <2>3 DEF CallbackCreates, Inv, WalkerInited
    <3> QED
      BY <2>2, <3>1, <3>2
  <2> QED
    BY <1>3, <2>1, <2>2, <2>3 DEF Create, selixCreateNode
<1>4. ASSUME NEW t \in Threads, Destroy(t)
      PROVE  Kept \/ \E h \in Live : Removed(h)
  <2>1. PICK h \in Blocks : selixDestroyNode(t, h) \/ CallbackDestroys(t, h)
    BY <1>4 DEF Destroy
  <2>2. UNCHANGED <<inited, limit, made>>
    BY <2>1 DEF selixDestroyNode, CallbackDestroys, lifecycle
  <2>3. UNCHANGED <<nodes, freed>> \/ (h \in Live /\ RemoveNode(h))
    BY <2>1 DEF selixDestroyNode, CallbackDestroys
  <2> QED
    BY <2>2, <2>3 DEF Kept, Removed
<1>5. ASSUME NEW t \in Threads, Select(t) \/ lixOpen(t) PROVE Kept
  <2>1. CASE Select(t)
    BY <2>1 DEF Select, SelectCopy, SelectReturn, SelectGivesUp, WalkEnds, lifecycle, table, Kept
  <2>2. CASE lixOpen(t)
    BY <2>2 DEF lixOpen, lifecycle, Kept
  <2> QED
    BY <1>5, <2>1, <2>2
<1> QED
  BY <1>1, <1>2, <1>3, <1>4, <1>5 DEF Next

(* What a node more, and a node less, is for the live nodes. *)
LEMMA AddedNode ==
  ASSUME Inv, NEW req, NEW h \in Blocks, NEW d \in Blocks, Added(req, h, d)
  PROVE  /\ Live' = Live \cup {h} /\ h \notin Live /\ Taken' = Taken \cup {h, d}
         /\ h \notin Taken /\ d \notin Taken /\ h # d
         /\ nodes'[h].size = NodeSize(req) /\ \A g \in Live : nodes'[g] = nodes[g]
<1>1. /\ nodes' = [nodes EXCEPT ![h] = [size |-> NodeSize(req), id |-> maxId + 1,
                                        data |-> d, serial |-> made + 1]]
      /\ h \notin Taken /\ d \notin Taken /\ h # d
  BY DEF Added, AddNode, Free
<1>2. /\ nodes'[h].data = d /\ nodes'[h].size = NodeSize(req)
      /\ \A g \in Blocks \ {h} : nodes'[g] = nodes[g]
  BY <1>1 DEF Inv, Shape
<1>3. Live' = Live \cup {h} /\ h \notin Live
  BY <1>1, <1>2, ManagerAssumption DEF Live, Taken, ManagerAssumption
<1>4. \A g \in Live : nodes'[g] = nodes[g]
  BY <1>2, <1>3 DEF Live
<1>5. Taken' = Taken \cup {h, d}
  BY <1>2, <1>3, <1>4 DEF Taken
<1> QED
  BY <1>1, <1>2, <1>3, <1>4, <1>5

(* Taking out a live node takes out no other, and its blocks are given back. *)
LEMMA RemovedNode ==
  ASSUME Inv, NEW h \in Live, Removed(h)
  PROVE  /\ Live' = Live \ {h} /\ \A g \in Live' : nodes'[g] = nodes[g]
         /\ {h, nodes[h].data} \subseteq Taken
         /\ Taken' = Taken \ {h, nodes[h].data} /\ h # nodes[h].data
         /\ freed' = freed + Cardinality({h, nodes[h].data})
<1>1. h \in Blocks /\ nodes' = [nodes EXCEPT ![h] = NoNode]
      /\ freed' = freed + Cardinality({h, nodes[h].data})
  BY DEF Live, Removed, RemoveNode
<1>2. nodes'[h] = NoNode /\ \A g \in Blocks \ {h} : nodes'[g] = nodes[g]
  BY <1>1 DEF Inv, Shape
<1>3. Live' = Live \ {h}
  BY <1>1, <1>2 DEF Live, NoNode
<1>4. \A g \in Live' : g \in Live /\ g # h /\ nodes'[g] = nodes[g]
  BY <1>2, <1>3 DEF Live
<1>5. {h, nodes[h].data} \subseteq Taken
  BY DEF Taken
<1>6. Taken' = Taken \ {h, nodes[h].data}
  <2>1. \A g \in Live' : {g, nodes[g].data} \cap {h, nodes[h].data} = {}
    BY <1>4 DEF Inv, NodesDistinct
  <2>2. Taken' = Live' \cup {nodes[g].data : g \in Live'}
    BY <1>4 DEF Taken
  <2>3. Taken = Taken' \cup {h, nodes[h].data}
    BY <1>3, <2>2 DEF Taken
  <2>4. Taken' \cap {h, nodes[h].data} = {}
    BY <2>1, <2>2
  <2> QED
    BY <2>3, <2>4
<1>7. h # nodes[h].data
  BY DEF Inv, NodesDistinct
<1> QED
  BY <1>1, <1>3, <1>4, <1>5, <1>6, <1>7

-----------------------------------------------------------------------------
(* The places handed out are never more than the limit. *)
LimitInv ==
  /\ limit \in Nat /\ (~inited => limit = 0)
  /\ \A h \in Live : nodes[h].size \in Nat \ {0}
  /\ IsFiniteSet(Slots) /\ Cardinality(Slots) <= limit

(* At the start there is none. *)
LEMMA InitLimitInv == Init => LimitInv
<1> SUFFICES ASSUME Init PROVE LimitInv
  OBVIOUS
<1>1. Live = {}
  BY DEF Init, Live, NoNode
<1>2. Slots = {}
  BY <1>1 DEF Slots
<1>3. IsFiniteSet({}) /\ Cardinality({}) = 0
  BY FS_EmptySet, Zenon
<1> QED
  BY <1>1, <1>2, <1>3 DEF Init, LimitInv

(* What is left is all that a new node can get, and none gets nothing. *)
LEMMA SizeFits ==
  ASSUME LimitInv, NEW req \in Nat, NodeSize(req) > 0
  PROVE  /\ NodeSize(req) \in Nat \ {0} /\ Cardinality(Slots) \in Nat
         /\ Cardinality(Slots) + NodeSize(req) <= limit
<1> DEFINE c == Cardinality(Slots)
<1>1. c \in Nat /\ c <= limit /\ limit \in Nat
  BY FS_CardinalityType DEF LimitInv
<1>2. NodeSize(req) = IF limit - c <= 0 THEN 0 ELSE IF req = 0 THEN limit - c
                      ELSE IF req < limit - c THEN req ELSE limit - c
  BY DEF NodeSize, AllocatedSockets, Smaller
<1> HIDE DEF c
<1>3. NodeSize(req) \in Nat \ {0} /\ c + NodeSize(req) <= limit
  BY <1>1, <1>2
<1> QED
  BY <1>1, <1>3 DEF c

(* Every step keeps the limit. *)
LEMMA StepLimitInv == Inv /\ LimitInv /\ [Next]_vars => LimitInv'
<1> SUFFICES ASSUME Inv, LimitInv, [Next]_vars PROVE LimitInv'
  OBVIOUS
<1>0. Limits \subseteq Nat \ {0} /\ Requests \subseteq Nat
  BY ManagerAssumption DEF ManagerAssumption
<1>1. CASE Kept
  <2>1. Live' = Live /\ Slots' = Slots
    BY <1>1 DEF Kept, Live, Slots
  <2>2. CASE UNCHANGED <<inited, limit>>
    BY <1>1, <2>1, <2>2 DEF Kept, LimitInv
  <2>3. CASE ~inited /\ inited' /\ limit' \in Limits
    <3>1. Cardinality(Slots) \in Nat /\ Cardinality(Slots) <= 0
      BY <2>3, FS_CardinalityType DEF LimitInv
    <3>2. Cardinality(Slots) <= limit' /\ limit' \in Nat
      BY <3>1, <2>3, <1>0
    <3> QED
      BY <1>1, <2>1, <2>3, <3>2 DEF Kept, LimitInv
  <2> QED
    BY <1>1, <2>2, <2>3 DEF Kept
<1>2. ASSUME NEW req \in Requests, NEW h \in Blocks, NEW d \in Blocks, Added(req, h, d)
      PROVE  LimitInv'
  <2>1. /\ Live' = Live \cup {h} /\ h \notin Live
        /\ nodes'[h].size = NodeSize(req) /\ \A g \in Live : nodes'[g] = nodes[g]
    BY <1>2, AddedNode
  <2>2. inited /\ inited' = inited /\ limit' = limit /\ NodeSize(req) > 0
    BY <1>2 DEF Added
  <2>3. /\ NodeSize(req) \in Nat \ {0} /\ Cardinality(Slots) \in Nat
        /\ Cardinality(Slots) + NodeSize(req) <= limit
    BY <2>2, <1>0, SizeFits
  <2> DEFINE k == NodeSize(req)  new == {h} \X (1 .. k)
  <2>4. Slots' = Slots \cup new
    <3>1. Slots' = UNION {{g} \X (1 .. nodes'[g].size) : g \in Live'}
      BY DEF Slots
    <3>2. \A g \in Live : {g} \X (1 .. nodes'[g].size) = {g} \X (1 .. nodes[g].size)
      BY <2>1
    <3>3. {h} \X (1 .. nodes'[h].size) = new
      BY <2>1
    <3> HIDE DEF new
    <3> QED
      BY <3>1, <3>2, <3>3, <2>1 DEF Slots
  <2>5. Slots \cap new = {}
    BY <2>1 DEF Slots
  <2>6. IsFiniteSet(new) /\ Cardinality(new) = k
    <3>1. IsFiniteSet(1 .. k) /\ Cardinality(1 .. k) = k
      <4>1. 1 \in Int /\ k \in Int
        BY <2>3
      <4>2. IsFiniteSet(1 .. k) /\ Cardinality(1 .. k) = IF 1 > k THEN 0 ELSE k - 1 + 1
        BY <4>1, FS_Interval, Zenon
      <4> QED
        BY <4>2, <2>3
    <3> DEFINE f == [i \in 1 .. k |-> <<h, i>>]
    <3>2. f \in [1 .. k -> new]
      OBVIOUS
    <3>3. \A x, y \in 1 .. k : f[x] = f[y] => x = y
      OBVIOUS
    <3>4. \A t \in new : \E x \in 1 .. k : f[x] = t
      OBVIOUS
    <3> HIDE DEF f, new, k
    <3> QED
      BY <3>1, <3>2, <3>3, <3>4, SameSize
  <2> HIDE DEF new, k
  <2>7. IsFiniteSet(Slots') /\ Cardinality(Slots') = Cardinality(Slots) + k
    BY <2>4, <2>5, <2>6, DisjointSize DEF LimitInv
  <2>8. Cardinality(Slots') <= limit'
    BY <2>2, <2>3, <2>7 DEF k
  <2> QED
    BY <2>1, <2>2, <2>3, <2>7, <2>8 DEF LimitInv
<1>3. ASSUME NEW h \in Live, Removed(h) PROVE LimitInv'
  <2>1. Live' = Live \ {h} /\ \A g \in Live' : nodes'[g] = nodes[g]
    BY <1>3, RemovedNode
  <2>2. Slots' \subseteq Slots
    BY <2>1 DEF Slots
  <2>3. IsFiniteSet(Slots') /\ Cardinality(Slots') <= Cardinality(Slots)
    BY <2>2, FS_Subset DEF LimitInv
  <2>4. Cardinality(Slots') \in Nat /\ Cardinality(Slots) \in Nat
    BY <2>3, FS_CardinalityType DEF LimitInv
  <2>5. inited' = inited /\ limit' = limit
    BY <1>3 DEF Removed
  <2> QED
    BY <2>1, <2>3, <2>4, <2>5 DEF LimitInv
<1>4. CASE Ended
  <2>1. Live' = {}
    BY <1>4 DEF Ended, TearDown, Live, NoNode
  <2>2. Slots' = {}
    BY <2>1 DEF Slots
  <2>3. IsFiniteSet({}) /\ Cardinality({}) = 0
    BY FS_EmptySet, Zenon
  <2> QED
    BY <2>1, <2>2, <2>3, <1>4 DEF LimitInv, Ended, TearDown
<1> QED
  BY <1>1, <1>2, <1>3, <1>4, StepKinds

(* The sizes selixCreateNode gives its nodes never add up to more than the  *)
(* limit the manager was made with, and no node is empty: whoever creates   *)
(* and destroys, in a callback or not, and whatever size is asked for.      *)
THEOREM ManagerLimitKept == Spec => []LimitKept
<1>1. Inv /\ LimitInv => LimitKept
  BY DEF LimitInv, LimitKept, AllocatedSockets
<1> QED
  BY <1>1, InitInv, StepInv, InitLimitInv, StepLimitInv, PTL DEF Spec

-----------------------------------------------------------------------------
(* Two blocks for each node that was made: they are in use or given back.   *)
Accounted ==
  IsFiniteSet(Taken) /\ freed \in Nat /\ Cardinality(Taken) + freed = 2 * made

(* The blocks of a node are two. *)
LEMMA PairSize ==
  ASSUME NEW h, NEW d, h # d
  PROVE  IsFiniteSet({h, d}) /\ Cardinality({h, d}) = 2
<1>1. IsFiniteSet({h}) /\ Cardinality({h}) = 1 /\ IsFiniteSet({d}) /\ Cardinality({d}) = 1
  BY FS_Singleton, Zenon
<1>2. {h} \cap {d} = {}
  OBVIOUS
<1>3. /\ IsFiniteSet({h} \cup {d})
      /\ Cardinality({h} \cup {d}) = Cardinality({h}) + Cardinality({d})
  BY ONLY <1>1, <1>2, DisjointSize, Zenon
<1>4. {h, d} = {h} \cup {d}
  OBVIOUS
<1>5. IsFiniteSet({h, d}) /\ Cardinality({h, d}) = Cardinality({h}) + Cardinality({d})
  BY ONLY <1>3, <1>4, Zenon
<1> QED
  BY <1>1, <1>5

(* At the start there are none. *)
LEMMA InitAccounted == Init => Accounted
<1> SUFFICES ASSUME Init PROVE Accounted
  OBVIOUS
<1>1. Live = {}
  BY DEF Init, Live, NoNode
<1>2. Taken = {} /\ freed = 0 /\ made = 0
  BY <1>1 DEF Init, Taken
<1>3. IsFiniteSet({}) /\ Cardinality({}) = 0
  BY FS_EmptySet, Zenon
<1> QED
  BY <1>2, <1>3 DEF Accounted

(* Every step keeps the account, whatever addresses the allocator returns.  *)
LEMMA StepAccounted == Inv /\ Accounted /\ [Next]_vars => Accounted'
<1> SUFFICES ASSUME Inv, Accounted, [Next]_vars PROVE Accounted'
  OBVIOUS
<1>0. made \in Nat /\ Cardinality(Taken) \in Nat
  BY FS_CardinalityType DEF Accounted, Inv, Shape
<1>1. CASE Kept
  BY <1>1 DEF Kept, Accounted, Taken, Live
<1>2. ASSUME NEW req \in Requests, NEW h \in Blocks, NEW d \in Blocks, Added(req, h, d)
      PROVE  Accounted'
  <2>1. Taken' = Taken \cup {h, d} /\ freed' = freed /\ made' = made + 1 /\ h # d
        /\ h \notin Taken /\ d \notin Taken
    BY <1>2, AddedNode DEF Added, AddNode
  <2> DEFINE new == {h, d}
  <2>2. Taken' = Taken \cup new /\ Taken \cap new = {}
    BY <2>1
  <2>3. IsFiniteSet(new) /\ Cardinality(new) = 2
    BY <2>1, PairSize
  <2> HIDE DEF new
  <2>4. IsFiniteSet(Taken') /\ Cardinality(Taken') = Cardinality(Taken) + Cardinality(new)
    BY <2>2, <2>3, DisjointSize DEF Accounted
  <2> QED
    BY <1>0, <2>1, <2>3, <2>4 DEF Accounted
<1>3. ASSUME NEW h \in Live, Removed(h) PROVE Accounted'
  <2> DEFINE old == {h, nodes[h].data}
  <2>1. old \subseteq Taken /\ Taken' = Taken \ old /\ h # nodes[h].data
        /\ freed' = freed + Cardinality(old) /\ made' = made
    BY <1>3, RemovedNode DEF Removed
  <2>2. IsFiniteSet(old) /\ Cardinality(old) = 2
    BY <2>1, PairSize
  <2>3. Taken = Taken' \cup old /\ Taken' \cap old = {}
    BY <2>1
  <2> HIDE DEF old
  <2>4. IsFiniteSet(Taken')
    BY <2>3, FS_Subset DEF Accounted
  <2>5. Cardinality(Taken' \cup old) = Cardinality(Taken') + Cardinality(old)
    BY <2>2, <2>3, <2>4, DisjointSize
  <2>6. Cardinality(Taken) = Cardinality(Taken') + 2 /\ Cardinality(Taken') \in Nat
    BY <2>2, <2>3, <2>4, <2>5, FS_CardinalityType
  <2> QED
    BY <1>0, <2>1, <2>2, <2>4, <2>6 DEF Accounted
<1>4. CASE Ended
  <2>1. Live' = {}
    BY <1>4 DEF Ended, TearDown, Live, NoNode
  <2>2. Taken' = {} /\ freed' = freed + Cardinality(Taken) /\ made' = made
    BY <2>1, <1>4 DEF Taken, Ended, TearDown
  <2>3. IsFiniteSet({}) /\ Cardinality({}) = 0
    BY FS_EmptySet, Zenon
  <2> QED
    BY <1>0, <2>2, <2>3 DEF Accounted
<1> QED
  BY <1>1, <1>2, <1>3, <1>4, StepKinds

(* A manager that was ended has no nodes, and every block allocated for a   *)
(* node is in a live node or was given back, once, although its address may *)
(* serve again: selixDestroyNode, the destruction from a callback and       *)
(* selixEnd free both blocks of a node.                                     *)
THEOREM ManagerNothingLeaked == Spec => []NothingLeaked
<1>1. Init => Inv /\ LimitInv /\ Accounted
  BY InitInv, InitLimitInv, InitAccounted
<1>2. Inv /\ LimitInv /\ Accounted => NothingLeaked
  BY DEF Inv, EmptyIfNotInited, LimitInv, Accounted, NothingLeaked
<1> QED
  BY <1>1, <1>2, StepInv, StepLimitInv, StepAccounted, PTL DEF Spec

=============================================================================
