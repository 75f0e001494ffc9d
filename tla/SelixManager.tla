----------------------------- MODULE SelixManager -----------------------------
(***************************************************************************)
(* The manager of the select reactor's nodes in src/Common/LmnSeli.cpp:    *)
(* s_SelixManager, selixInit and selixEnd, selixCreateNode and             *)
(* selixDestroyNode, and of selixSelect the part that concerns the node as *)
(* a whole: it looks the handle up under m_Lock, lets the lock go for      *)
(* select(), takes it again and checks that "the environment" is the same  *)
(* before it walks the node.  SelixReactor models the inside of one node.  *)
(*                                                                         *)
(* A handle is the address of a list node, so it can be handed out again;  *)
(* the descriptor of a node (TSelixNode_) is a block of its own.  Both     *)
(* come from g_pfnAllocMem and are members of Blocks here.                 *)
(*                                                                         *)
(* What runs under m_Lock is one step, the walk excepted, during which     *)
(* callbacks create and destroy nodes, the walk's own node too: the walk   *)
(* then goes on in memory it gave back ("orphaned").  What it reads and    *)
(* writes there are flags of slots and no part of this module's state.     *)
(*                                                                         *)
(* Abstraction, by name (SerialLifecycle): every function reads m_bInited  *)
(* before it takes m_Lock, and selixInit and selixEnd change it; they are  *)
(* called while no other thread is in a function of the manager or waits   *)
(* for its lock.  A thread may be inside select().                         *)
(***************************************************************************)
EXTENDS Integers, FiniteSets

CONSTANTS
  Threads,      (* the threads that use the manager                         *)
  Blocks,       (* addresses the allocator may return                       *)
  NoBlock,      (* the null pointer                                         *)
  Limits,       (* values of dwTotalMaxSocketCnt                            *)
  Requests,     (* values of *pdwMaxSocketCnt, 0 for "all that is left"     *)
  MaxInits,     (* bound on the calls of selixInit                          *)
  MaxNodes,     (* bound on the nodes a behaviour creates                   *)
  MaxSockets    (* bound on the sockets it opens                            *)

ASSUME ManagerAssumption ==
  /\ NoBlock \notin Blocks
  /\ Limits \subseteq Nat \ {0} /\ Requests \subseteq Nat
  /\ {MaxInits, MaxNodes, MaxSockets} \subseteq Nat

VARIABLES
  inited,   (* m_bInited                                                    *)
  initCnt,  (* m_nInitCnt                                                   *)
  limit,    (* m_dwTotalLimit                                               *)
  maxId,    (* m_dwSelixNodeMaxId: ids of nodes and, in lixOpen, of sockets *)
  nodes,    (* m_lstSelixNodes: the live handles and their descriptors      *)
  pc,       (* each thread: out, selecting, walking a node, or orphaned     *)
  sel,      (* selixSelect's pSeli, pSelixNode_ and the copied m_dwId       *)
  inits,    (* history: how often selixInit was called                      *)
  uses,     (* history: how many of these still await their selixEnd        *)
  handles,  (* history: the handles ever returned                           *)
  told,     (* history: the number of sockets its creator believes it has   *)
  made,     (* history: how many nodes were created                         *)
  past,     (* history: the nodes made before the last selixEnd that counts *)
  opened,   (* history: how many sockets were opened                        *)
  freed     (* history: how many blocks were given back                     *)

lifecycle == <<inited, initCnt, limit, inits, uses>>
table == <<maxId, nodes, handles, told, made, past, opened, freed>>
vars == <<lifecycle, table, pc, sel>>

NodeRec == [size: Nat, id: Nat, data: Blocks, serial: Nat]
NoNode == [size |-> 0, id |-> 0, data |-> NoBlock, serial |-> 0]

SelRec == [at: Blocks \cup {NoBlock}, data: Blocks \cup {NoBlock},
           id: Nat, serial: Nat]
NoSel == [at |-> NoBlock, data |-> NoBlock, id |-> 0, serial |-> 0]

Live == {h \in Blocks : nodes[h].data # NoBlock}
Taken == Live \cup {nodes[h].data : h \in Live}

(* The blocks the allocator may return next, those that were freed among    *)
(* them.                                                                    *)
Free == Blocks \ Taken

Init ==
  /\ inited = FALSE /\ initCnt = 0 /\ limit = 0 /\ maxId = 0
  /\ nodes = [h \in Blocks |-> NoNode]
  /\ pc = [t \in Threads |-> "out"] /\ sel = [t \in Threads |-> NoSel]
  /\ inits = 0 /\ uses = 0
  /\ handles = {} /\ told = [h \in Blocks |-> 0]
  /\ made = 0 /\ past = 0 /\ opened = 0 /\ freed = 0

-----------------------------------------------------------------------------
(* m_Lock is recursive and held across the walk only. *)
InWalk(t) == pc[t] \in {"walking", "orphaned"}

LockFree(t) == \A u \in Threads \ {t} : ~InWalk(u)

SerialLifecycle(t) == pc[t] = "out" /\ LockFree(t)

(* The places of all tables: a node has room for as many sockets as its size. *)
Slots == UNION {{h} \X (1 .. nodes[h].size) : h \in Live}

(* _GetManagerAllocatedSocketCount *)
AllocatedSockets == Cardinality(Slots)

(* The first call builds the manager; only the later ones count. *)
selixInit(t, n) ==
  /\ SerialLifecycle(t) /\ inits < MaxInits
  /\ inits' = inits + 1 /\ uses' = uses + 1
  /\ IF inited
     THEN initCnt' = initCnt + 1 /\ UNCHANGED <<inited, limit>>
     ELSE inited' = TRUE /\ limit' = n /\ UNCHANGED initCnt
  /\ UNCHANGED <<table, pc, sel>>

(* Every node is closed and freed, and the manager reset but for m_nInitCnt. *)
TearDown ==
  /\ inited' = FALSE /\ limit' = 0 /\ maxId' = 0
  /\ nodes' = [h \in Blocks |-> NoNode] /\ freed' = freed + Cardinality(Taken)
  /\ past' = made

selixEnd(t) ==
  /\ SerialLifecycle(t) /\ uses > 0 /\ uses' = uses - 1
  /\ \/ ~inited /\ UNCHANGED <<inited, initCnt, limit, maxId, nodes, freed, past>>
     \/ /\ inited /\ initCnt' = initCnt - 1
        /\ \/ initCnt' > 0 /\ UNCHANGED <<inited, limit, maxId, nodes, freed, past>>
           \/ initCnt' <= 0 /\ TearDown
  /\ UNCHANGED <<inits, handles, told, made, opened, pc, sel>>

-----------------------------------------------------------------------------
Smaller(m, n) == IF m < n THEN m ELSE n

(* Mutant of NodeSize: the sockets already given out are not deducted. *)
NodeSize_Whole(req) == IF req = 0 THEN limit ELSE Smaller(req, limit)

(* The size of the node selixCreateNode makes of a request, 0 if none. *)
NodeSize(req) ==
  LET left == limit - AllocatedSockets IN
  IF left <= 0 THEN 0 ELSE IF req = 0 THEN left ELSE Smaller(req, left)

(* Mutant of AddNode: the new node keeps the id of the one before. *)
AddNode_SameId(req, h, d) ==
  /\ made < MaxNodes /\ h \in Free /\ d \in Free /\ h # d
  /\ nodes' = [nodes EXCEPT ![h] = [size |-> NodeSize(req), id |-> maxId + 1,
                                    data |-> d, serial |-> made + 1]]
  /\ made' = made + 1 /\ handles' = handles \cup {h}
  /\ told' = [told EXCEPT ![h] = req]
  /\ UNCHANGED maxId

(* The node at the list's tail, its id, and what the caller now believes:   *)
(* *pdwMaxSocketCnt is read and not written.                                *)
AddNode(req, h, d) ==
  /\ made < MaxNodes /\ h \in Free /\ d \in Free /\ h # d
  /\ maxId' = maxId + 1
  /\ nodes' = [nodes EXCEPT ![h] = [size |-> NodeSize(req), id |-> maxId + 1,
                                    data |-> d, serial |-> made + 1]]
  /\ made' = made + 1 /\ handles' = handles \cup {h}
  /\ told' = [told EXCEPT ![h] = req]

(* No socket is left, or no memory: the bounds stand for the latter too. *)
CreateRefused(req) ==
  /\ NodeSize(req) = 0 \/ made = MaxNodes \/ Cardinality(Free) < 2
  /\ UNCHANGED <<maxId, nodes, made, handles, told>>

selixCreateNode(t, req) ==
  /\ pc[t] = "out" /\ inited /\ LockFree(t)
  /\ \/ CreateRefused(req)
     \/ NodeSize(req) > 0 /\ \E h, d \in Blocks : AddNode(req, h, d)
  /\ UNCHANGED <<lifecycle, pc, sel, past, opened, freed>>

(* Mutant of RemoveNode: the list node goes, the descriptor stays behind. *)
RemoveNode_Leak(h) ==
  /\ nodes' = [nodes EXCEPT ![h] = NoNode] /\ freed' = freed + 1

(* lixClose on every valid slot, the two blocks freed, the list node erased. *)
RemoveNode(h) ==
  /\ nodes' = [nodes EXCEPT ![h] = NoNode]
  /\ freed' = freed + Cardinality({h, nodes[h].data})

(* _IfExistSeliNode looks the handle up by its address alone. *)
selixDestroyNode(t, h) ==
  /\ pc[t] = "out" /\ inited /\ LockFree(t) /\ h \in handles
  /\ \/ h \notin Live /\ UNCHANGED <<nodes, freed>>
     \/ h \in Live /\ RemoveNode(h)
  /\ UNCHANGED <<lifecycle, maxId, handles, told, made, past, opened, pc, sel>>

-----------------------------------------------------------------------------
(* selixSelect: look the node up, copy it and release the lock. *)
SelectCopy(t, h) ==
  /\ pc[t] = "out" /\ inited /\ LockFree(t) /\ h \in handles \cap Live
  /\ sel' = [sel EXCEPT ![t] = [at |-> h, data |-> nodes[h].data,
                            id |-> nodes[h].id, serial |-> nodes[h].serial]]
  /\ pc' = [pc EXCEPT ![t] = "selecting"]
  /\ UNCHANGED <<lifecycle, table>>

(* The values m_dwId may have at the address pSelixNode_: the id of the     *)
(* node that lives there, or anything once the block is not a descriptor.   *)
IdsAt(d) ==
  IF \E h \in Live : nodes[h].data = d
  THEN {nodes[h].id : h \in {g \in Live : nodes[g].data = d}}
  ELSE 0 .. MaxNodes + MaxSockets

(* Mutant of SameEnvironment: m_dwId is not compared. *)
SameEnvironment_NoId(c) == inited /\ c.at \in Live

(* The test looks pSeli up, then reads m_dwId at the address it had before. *)
SameEnvironment(c) == inited /\ c.at \in Live /\ c.id \in IdsAt(c.data)

(* The test and its negation can both be taken where a freed block is read. *)
ChangedEnvironment(c) ==
  ~inited \/ c.at \notin Live \/ IdsAt(c.data) # {c.id}

EnvironmentGone(t) ==
  /\ ChangedEnvironment(sel[t])
  /\ pc' = [pc EXCEPT ![t] = "out"] /\ sel' = [sel EXCEPT ![t] = NoSel]

SelectReturn(t) ==
  /\ pc[t] = "selecting" /\ LockFree(t)
  /\ \/ /\ SameEnvironment(sel[t])
        /\ pc' = [pc EXCEPT ![t] = "walking"] /\ UNCHANGED sel
     \/ EnvironmentGone(t)
  /\ UNCHANGED <<lifecycle, table>>

(* Nothing to watch, or an error of select(): return without a walk. *)
SelectGivesUp(t) ==
  /\ pc[t] = "selecting"
  /\ pc' = [pc EXCEPT ![t] = "out"] /\ sel' = [sel EXCEPT ![t] = NoSel]
  /\ UNCHANGED <<lifecycle, table>>

(* Callbacks of the walk, under the lock: they may create nodes and destroy *)
(* any, the one whose walk they are called from too.                        *)
CallbackCreates(t, req) ==
  /\ InWalk(t)
  /\ NodeSize(req) > 0 /\ \E h, d \in Blocks : AddNode(req, h, d)
  /\ UNCHANGED <<lifecycle, pc, sel, past, opened, freed>>

CallbackDestroys(t, h) ==
  /\ InWalk(t) /\ h \in Live
  /\ RemoveNode(h)
  /\ pc' = IF h = sel[t].at THEN [pc EXCEPT ![t] = "orphaned"] ELSE pc
  /\ UNCHANGED <<lifecycle, maxId, handles, told, made, past, opened, sel>>

WalkEnds(t) ==
  /\ InWalk(t)
  /\ pc' = [pc EXCEPT ![t] = "out"] /\ sel' = [sel EXCEPT ![t] = NoSel]
  /\ UNCHANGED <<lifecycle, table>>

(* lixOpen numbers its sockets from the same counter. *)
lixOpen(t) ==
  /\ pc[t] # "selecting" /\ inited /\ LockFree(t) /\ Live # {}
  /\ opened < MaxSockets /\ opened' = opened + 1 /\ maxId' = maxId + 1
  /\ UNCHANGED <<lifecycle, nodes, handles, told, made, past, freed, pc, sel>>

-----------------------------------------------------------------------------
Lifecycle(t) == (\E n \in Limits : selixInit(t, n)) \/ selixEnd(t)

Create(t) == \E req \in Requests : selixCreateNode(t, req) \/ CallbackCreates(t, req)

Destroy(t) == \E h \in Blocks : selixDestroyNode(t, h) \/ CallbackDestroys(t, h)

Select(t) == \/ \E h \in Blocks : SelectCopy(t, h)
             \/ SelectReturn(t) \/ SelectGivesUp(t) \/ WalkEnds(t)

Next == \E t \in Threads :
          Lifecycle(t) \/ Create(t) \/ Destroy(t) \/ Select(t) \/ lixOpen(t)

Spec == Init /\ [][Next]_vars

-----------------------------------------------------------------------------
(* The type of every variable; the copy a select works on is freed on every *)
(* path out of it.                                                          *)
TypeOK ==
  /\ inited \in BOOLEAN /\ initCnt \in Int /\ limit \in Nat /\ maxId \in Nat
  /\ nodes \in [Blocks -> NodeRec \cup {NoNode}]
  /\ pc \in [Threads -> {"out", "selecting", "walking", "orphaned"}]
  /\ sel \in [Threads -> SelRec]
  /\ \A t \in Threads : pc[t] = "out" <=> sel[t] = NoSel
  /\ inits \in Nat /\ uses \in Nat /\ handles \subseteq Blocks
  /\ told \in [Blocks -> Nat] /\ made \in Nat /\ opened \in Nat
  /\ past \in Nat /\ freed \in Nat

(* m_dwTotalLimit is the limit on the number of sockets of all nodes: the   *)
(* table sizes handed out never exceed it, and no node is empty.            *)
LimitKept ==
  /\ AllocatedSockets <= limit
  /\ \A h \in Live : nodes[h].size > 0

(* Live nodes have ids of their own and blocks of their own, and the        *)
(* counter is ahead of them all: the test after select() rests on it.       *)
NodesDistinct ==
  /\ \A h \in Live : nodes[h].id <= maxId /\ h # nodes[h].data
  /\ \A g, h \in Live : g # h =>
       nodes[g].id # nodes[h].id /\ {g, nodes[g].data} \cap {h, nodes[h].data} = {}

(* "If the environment has already changed" selixSelect returns: a node     *)
(* that is walked, and that its own callbacks left alone, is alive and the  *)
(* very node that was copied.  It fails: the address pSelixNode_ may be     *)
(* freed memory, and after selixEnd the ids start again.                    *)
WalkedNodeIsCopied ==
  \A t \in Threads : pc[t] = "walking" =>
    /\ inited /\ sel[t].at \in Live
    /\ nodes[sel[t].at].serial = sel[t].serial
    /\ nodes[sel[t].at].data = sel[t].data

(* What m_dwId does achieve, whatever addresses the allocator hands out     *)
(* again: as long as the manager is the one the copy was made under, a      *)
(* thread that comes back from select() walks no node that came to live in  *)
(* its node's memory.                                                       *)
NoOtherNodeWalked ==
  [][\A t \in Threads :
       pc[t] = "selecting" /\ pc'[t] = "walking" /\ sel[t].serial > past =>
         \A h \in Live : nodes[h].data = sel[t].data => nodes[h].serial = sel[t].serial]_vars

(* The manager stays until "the number of modules that refer to it reaches  *)
(* 0": nobody loses it between its own selixInit and selixEnd.              *)
InitedWhileUsed == uses > 0 => inited

(* pdwMaxSocketCnt is an INOUT parameter: a caller that named a size knows  *)
(* the size of the node it got.                                             *)
CreatorKnowsSize == \A h \in Live : told[h] # 0 => told[h] = nodes[h].size

(* A manager that is not inited owns nothing, and every block that was ever *)
(* allocated for a node is either in a live node or was given back, once.   *)
NothingLeaked ==
  /\ ~inited => Live = {} /\ limit = 0
  /\ Cardinality(Taken) + freed = 2 * made

=============================================================================
