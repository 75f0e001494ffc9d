------------------------- MODULE SelixReactorProofs -------------------------
(* Proofs about the reactor, for any table and any set of sockets: types    *)
(* and socket ownership whatever the callers call, unique ids while nothing *)
(* is accepted, and what a one-thread application is told and keeps.        *)
EXTENDS SelixReactor, TLAPS, FiniteSetTheorems

(* The slots are a finite set, hence so is every set select() returns. *)
LEMMA SlotsFinite ==
  ASSUME NEW r \in SUBSET Slots
  PROVE  IsFiniteSet(r) /\ Cardinality(r) \in Nat
<1>1. IsFiniteSet(Slots)
  BY ConstantsAssumption, FS_Interval DEF Slots
<1>2. QED
  BY <1>1, FS_Subset, FS_CardinalityType

(* The records the code builds from nothing: the empty slot, no event, a *)
(* new socket. *)
LEMMA RecordTypes ==
  /\ EmptySlot \in SlotRec
  /\ NoEv \in EvRec
  /\ \A st \in SkStates : NewSock(st) \in SockRec
BY ConstantsAssumption
   DEF EmptySlot, SlotRec, NoEv, EvRec, NewSock, SockRec, LiEvents, LiStates, Slots

(* What the assignments to the fields of a slot keep. *)
LEMMA SlotFields ==
  ASSUME NEW c \in SlotRec
  PROVE  /\ \A b \in BOOLEAN : [c EXCEPT !.exc = b] \in SlotRec
         /\ \A q \in SUBSET {"R", "W"} : [c EXCEPT !.seli = q] \in SlotRec
         /\ \A q \in SUBSET {"R", "W"}, st \in LiStates :
              [c EXCEPT !.seli = q, !.st = st] \in SlotRec
         /\ \A q \in SUBSET {"R", "W"}, e \in SUBSET LiEvents, st \in LiStates :
              [c EXCEPT !.seli = q, !.liEv = e, !.st = st] \in SlotRec
         /\ \A b \in BOOLEAN, i \in Nat, k \in Socks :
              [c EXCEPT !.valid = b, !.id = i, !.sock = k] \in SlotRec
<1>1. \A b \in BOOLEAN : [c EXCEPT !.exc = b] \in SlotRec
  BY DEF SlotRec
<1>2. \A q \in SUBSET {"R", "W"} : [c EXCEPT !.seli = q] \in SlotRec
  BY DEF SlotRec
<1>3. \A q \in SUBSET {"R", "W"}, st \in LiStates : [c EXCEPT !.seli = q, !.st = st] \in SlotRec
  BY DEF SlotRec
<1>4. \A q \in SUBSET {"R", "W"}, e \in SUBSET LiEvents, st \in LiStates :
        [c EXCEPT !.seli = q, !.liEv = e, !.st = st] \in SlotRec
  BY DEF SlotRec
<1>5. \A b \in BOOLEAN, i \in Nat, k \in Socks :
        [c EXCEPT !.valid = b, !.id = i, !.sock = k] \in SlotRec
  BY DEF SlotRec
<1>6. QED
  BY <1>1, <1>2, <1>3, <1>4, <1>5, Zenon

(* What the kernel's changes to a socket keep. *)
LEMMA SockFields ==
  ASSUME NEW c \in SockRec
  PROVE  /\ \A st \in SkStates : [c EXCEPT !.st = st] \in SockRec
         /\ \A b \in BOOLEAN : /\ [c EXCEPT !.data = b] \in SockRec
                               /\ [c EXCEPT !.eof = b] \in SockRec
                               /\ [c EXCEPT !.late = b] \in SockRec
BY DEF SockRec

(* A new node has the types. *)
LEMMA InitType == Init => TypeOK
BY RecordTypes, ConstantsAssumption DEF Init, TypeOK, Slots, SkStates

(* A call disturbs the table, the id counter, the kernel and the budget of  *)
(* the callback, nothing else; during a select() only other threads call.   *)
LEMMA CallFrame ==
  ASSUME Call
  PROVE  /\ UNCHANGED <<selectVars, told>>
         /\ CountCall
         /\ pc \in {"idle", "callback"} \/ AppCalls # {}
         /\ pc = "callback" => cbLeft > 0
         /\ maxId' \in {maxId, maxId + 1}
<1> DEFINE Frame == /\ UNCHANGED <<selectVars, told>>
                    /\ CountCall
                    /\ pc \in {"idle", "callback"} \/ AppCalls # {}
                    /\ pc = "callback" => cbLeft > 0
                    /\ maxId' \in {maxId, maxId + 1}
<1>1. ASSUME NEW s \in Slots, NEW k \in Socks, lixOpenTcp(s, k) \/ lixOpenUdp(s, k)
      PROVE  Frame
  BY <1>1 DEF lixOpenTcp, lixOpenUdp, MayCall
<1>2. ASSUME NEW l \in Slots, NEW s \in Slots, NEW k \in Socks,
             lixAccept(l, s, k) \/ lixAcceptFull(l, k)
      PROVE  Frame
  BY <1>2 DEF lixAccept, lixAcceptFull, MayCall
<1>3. ASSUME NEW s \in Slots, lixConnect(s) \/ lixListen(s) PROVE Frame
  BY <1>3 DEF lixConnect, lixListen, MayCall
<1>4. ASSUME NEW s \in Slots, lixTcpRecv(s) \/ lixShutdown(s) \/ lixClose(s) PROVE Frame
  BY <1>4 DEF lixTcpRecv, lixShutdown, lixClose, MayCall
<1> HIDE DEF Frame
<1>5. Frame
  BY <1>1, <1>2, <1>3, <1>4 DEF Call
<1> QED
  BY <1>5 DEF Frame

(* The lix functions keep the table a table. *)
LEMMA CallNodeType ==
  ASSUME TypeOK, Call
  PROVE  node' \in [Slots -> SlotRec]
<1> USE DEF TypeOK
<1>1. ASSUME NEW s \in Slots, NEW k \in Socks, lixOpenTcp(s, k) PROVE node' \in [Slots -> SlotRec]
  BY <1>1 DEF lixOpenTcp, SlotRec, LiStates
<1>2. ASSUME NEW s \in Slots, NEW k \in Socks, lixOpenUdp(s, k) PROVE node' \in [Slots -> SlotRec]
  BY <1>2 DEF lixOpenUdp, SlotRec, LiStates, LiEvents
<1>3. ASSUME NEW s \in Slots, NEW l \in Slots, NEW k \in Socks, lixAccept(l, s, k)
      PROVE node' \in [Slots -> SlotRec]
  BY <1>3 DEF lixAccept, SlotRec, LiStates, LiEvents
<1>4. ASSUME NEW s \in Slots, lixConnect(s) PROVE node' \in [Slots -> SlotRec]
  <2>0. node[s] \in SlotRec /\ node[s].seli \in SUBSET {"R", "W"}
    BY DEF SlotRec
  <2>1. [node[s] EXCEPT !.seli = {"R", "W"}, !.liEv = {"connect", "close"}, !.st = "connecting"] \in SlotRec
    BY <2>0, SlotFields DEF LiStates, LiEvents
  <2>2. QED BY <1>4, <2>1 DEF lixConnect
<1>5. ASSUME NEW s \in Slots, lixListen(s) PROVE node' \in [Slots -> SlotRec]
  <2>0. node[s] \in SlotRec /\ node[s].seli \in SUBSET {"R", "W"}
    BY DEF SlotRec
  <2>1. [node[s] EXCEPT !.seli = {"R"}, !.liEv = {"accept"}, !.st = "listening"] \in SlotRec
    BY <2>0, SlotFields DEF LiStates, LiEvents
  <2>2. QED BY <1>5, <2>1 DEF lixListen
<1>6. ASSUME NEW s \in Slots, lixShutdown(s) PROVE node' \in [Slots -> SlotRec]
  <2>0. node[s] \in SlotRec /\ node[s].seli \in SUBSET {"R", "W"}
    BY DEF SlotRec
  <2>1. [node[s] EXCEPT !.seli = node[s].seli \ {"R"}, !.st = "shutdowned"] \in SlotRec
    BY <2>0, SlotFields DEF LiStates, LiEvents
  <2>2. QED BY <1>6, <2>1 DEF lixShutdown
<1>7. ASSUME NEW s \in Slots, lixClose(s) PROVE node' \in [Slots -> SlotRec]
  BY <1>7, RecordTypes DEF lixClose
<1>8. ASSUME NEW s \in Slots, NEW k \in Socks, lixAcceptFull(s, k) \/ lixTcpRecv(s)
      PROVE node' \in [Slots -> SlotRec]
  BY <1>8 DEF lixAcceptFull, lixTcpRecv
<1>9. QED
  BY <1>1, <1>2, <1>3, <1>4, <1>5, <1>6, <1>7, <1>8 DEF Call, lixTcpRecv

(* The lix functions keep the sockets well typed. *)
LEMMA CallSockType ==
  ASSUME TypeOK, Call
  PROVE  sk' \in [Socks -> SockRec]
<1> USE DEF TypeOK
<1>0. NewSock("fresh") \in SockRec /\ NewSock("udp") \in SockRec
      /\ NewSock("established") \in SockRec /\ NewSock("closed") \in SockRec
  BY RecordTypes DEF SkStates
<1>1. ASSUME NEW s \in Slots, NEW k \in Socks,
             lixOpenTcp(s, k) \/ lixOpenUdp(s, k)
      PROVE  sk' \in [Socks -> SockRec]
  BY <1>0, <1>1 DEF lixOpenTcp, lixOpenUdp
<1>2. ASSUME NEW l \in Slots, NEW s \in Slots, NEW k \in Socks,
             lixAccept(l, s, k) \/ lixAcceptFull(l, k)
      PROVE  sk' \in [Socks -> SockRec]
  <2>1. node[l].sock \in Socks => [sk[node[l].sock] EXCEPT !.data = FALSE] \in SockRec
    BY SockFields
  <2>2. QED
    BY <1>0, <1>2, <2>1 DEF lixAccept, lixAcceptFull
<1>3. ASSUME NEW s \in Slots, lixConnect(s) \/ lixListen(s) \/ lixTcpRecv(s)
      PROVE  sk' \in [Socks -> SockRec]
  <2>1. CASE node[s].sock \in Socks
    <3>1. \A st \in SkStates : [sk[node[s].sock] EXCEPT !.st = st] \in SockRec
      BY <2>1, SockFields
    <3>2. [sk[node[s].sock] EXCEPT !.data = FALSE] \in SockRec
      BY <2>1, SockFields
    <3>3. QED
      BY <1>3, <2>1, <3>1, <3>2 DEF lixConnect, lixListen, lixTcpRecv, SkStates
  <2>2. CASE node[s].sock \notin Socks
    BY <1>3, <2>2 DEF lixConnect, lixListen, lixTcpRecv
  <2>3. QED BY <2>1, <2>2
<1>4. ASSUME NEW s \in Slots, lixShutdown(s) \/ lixClose(s)
      PROVE  sk' \in [Socks -> SockRec]
  <2>1. CASE lixShutdown(s) /\ node[s].sock \in Socks
    <3> DEFINE q == IF sk[node[s].sock].st = "connecting" THEN "failed" ELSE sk[node[s].sock].st
    <3>1. q \in SkStates
      BY <2>1 DEF SkStates, SockRec
    <3>2. [sk[node[s].sock] EXCEPT !.st = q] \in SockRec
      BY <2>1, <3>1, SockFields
    <3> QED
      BY <2>1, <3>2 DEF lixShutdown
  <2>2. CASE lixShutdown(s) /\ node[s].sock \notin Socks
    BY <2>2 DEF lixShutdown
  <2>3. CASE lixClose(s)
    BY <1>0, <2>3 DEF lixClose
  <2> QED
    BY <1>4, <2>1, <2>2, <2>3
<1>5. QED
  BY <1>1, <1>2, <1>3, <1>4 DEF Call

(* Every lix function keeps the type invariant. *)
LEMMA CallType == TypeOK /\ Call => TypeOK'
<1> SUFFICES ASSUME TypeOK, Call PROVE TypeOK'
  OBVIOUS
<1>1. node' \in [Slots -> SlotRec] /\ sk' \in [Socks -> SockRec]
  BY CallNodeType, CallSockType
<1>2. cbLeft' \in 0 .. MaxCbCalls
  BY CallFrame, ConstantsAssumption DEF CountCall, TypeOK
<1>3. QED
  BY <1>1, <1>2, CallFrame DEF TypeOK, selectVars

(* So does whatever the kernel, the peers and the clock do. *)
LEMMA KernelType == TypeOK /\ Kernel => TypeOK'
<1> SUFFICES ASSUME TypeOK, Kernel PROVE TypeOK'
  OBVIOUS
<1>1. KernelOnly
  BY DEF Kernel, ConnDone, ConnFail, PeerConnect, PeerSend, PeerClose, Expire
<1>2. sk' \in [Socks -> SockRec]
  <2>1. \A k \in Socks : sk[k] \in SockRec
    BY DEF TypeOK
  <2>2. ASSUME NEW k \in Socks, ConnDone(k) \/ ConnFail(k)
        PROVE  sk' \in [Socks -> SockRec]
    <3>1. [sk[k] EXCEPT !.st = "established"] \in SockRec
          /\ [sk[k] EXCEPT !.st = "failed"] \in SockRec
      BY <2>1, SockFields DEF SkStates
    <3>2. QED BY <2>2, <3>1 DEF TypeOK, ConnDone, ConnFail
  <2>3. ASSUME NEW k \in Socks, PeerConnect(k) \/ PeerSend(k) \/ PeerClose(k) \/ Expire(k)
        PROVE  sk' \in [Socks -> SockRec]
    <3>1. /\ [sk[k] EXCEPT !.data = TRUE] \in SockRec
          /\ [sk[k] EXCEPT !.eof = TRUE] \in SockRec
          /\ [sk[k] EXCEPT !.late = TRUE] \in SockRec
      BY <2>1, SockFields
    <3>2. QED BY <2>3, <3>1 DEF TypeOK, PeerConnect, PeerSend, PeerClose, Expire
  <2>4. QED BY <2>2, <2>3 DEF Kernel
<1>3. QED
  BY <1>1, <1>2 DEF KernelOnly, TypeOK, selectVars

(* The write-back and the choice of the next slot keep their types. *)
LEMMA IterationEndType ==
  ASSUME TypeOK, NEW s \in Slots, NEW n \in Int, WriteBack(s, copy[s]), Advance(s, n)
  PROVE  node' \in [Slots -> SlotRec] /\ idx' \in Slots /\ pc' \in {"scan", "done"}
<1>1. node' \in [Slots -> SlotRec]
  <2>1. /\ node[s] \in SlotRec
        /\ copy[s].exc \in BOOLEAN /\ copy[s].liEv \in SUBSET LiEvents
        /\ copy[s].st \in LiStates /\ copy[s].seli \in SUBSET {"R", "W"}
    BY DEF TypeOK, SlotRec
  <2>2. [node[s] EXCEPT !.exc = copy[s].exc, !.liEv = copy[s].liEv,
                        !.st = copy[s].st, !.seli = copy[s].seli] \in SlotRec
    BY <2>1 DEF SlotRec
  <2>3. QED BY <2>2 DEF TypeOK, WriteBack
<1>2. idx' \in Slots /\ pc' \in {"scan", "done"}
  BY ConstantsAssumption DEF Advance, Slots
<1>3. QED BY <1>1, <1>2

(* A slot the walk passes without a callback. *)
LEMMA PassType ==
  ASSUME TypeOK, NEW s \in Slots, NEW n \in Int, Pass(s, n)
  PROVE  TypeOK'
BY IterationEndType DEF Pass, TypeOK

(* A slot the walk calls back for. *)
LEMMA DeliverType ==
  ASSUME TypeOK, NEW s \in Slots, NEW e \in LiEvents, NEW c \in SlotRec,
         NEW n \in Int, Deliver(s, e, c, n)
  PROVE  TypeOK'
<1>1. ev' \in EvRec
  BY DEF Deliver, TypeOK, EvRec, SlotRec
<1>2. told' \in [Socks -> SUBSET {"connect", "close"}]
  BY DEF Deliver, TypeOK
<1>3. copy' \in [Slots -> SlotRec] /\ cbLeft' \in 0 .. MaxCbCalls /\ pc' = "callback"
  BY ConstantsAssumption DEF Deliver, TypeOK
<1>4. QED
  BY <1>1, <1>2, <1>3 DEF Deliver, TypeOK

(* Every branch of the walk keeps the type invariant. *)
LEMMA ScanType == TypeOK /\ Scan => TypeOK'
<1> SUFFICES ASSUME TypeOK, NEW s \in Slots,
                    ScanSkip(s) \/ ScanTimeout(s) \/ ScanReadable(s)
                      \/ ScanWritable(s) \/ ScanQuiet(s)
             PROVE  TypeOK'
  BY DEF Scan
<1>0. copy[s] \in SlotRec /\ nNum \in Int /\ nNum - 1 \in Int /\ nNum - 2 \in Int
  BY DEF TypeOK
<1>1. CASE ScanSkip(s)
  BY <1>1, ConstantsAssumption DEF ScanSkip, TypeOK, Slots
<1>2. CASE ScanTimeout(s)
  <2>1. [copy[s] EXCEPT !.exc = TRUE] \in SlotRec
    BY <1>0, SlotFields
  <2>2. QED
    BY <1>2, <2>1, DeliverType, PassType DEF ScanTimeout, LiEvents
<1>3. CASE ScanReadable(s)
  <2>1. [copy[s] EXCEPT !.seli = @ \ {"R"}] \in SlotRec
    <3>1. copy[s].seli \in SUBSET {"R", "W"}
      BY <1>0 DEF SlotRec
    <3>2. QED BY <1>0, <3>1, SlotFields
  <2>2. QED
    BY <1>0, <1>3, <2>1, DeliverType, PassType DEF ScanReadable, LiEvents
<1>4. CASE ScanWritable(s)
  <2>1. [copy[s] EXCEPT !.seli = {"R"}, !.liEv = {"read", "close"},
                        !.st = "available"] \in SlotRec
    BY <1>0, SlotFields DEF LiEvents, LiStates
  <2>2. QED
    BY <1>0, <1>4, <2>1, DeliverType, PassType DEF ScanWritable, LiEvents, AssertFails, TypeOK
<1>5. CASE ScanQuiet(s)
  BY <1>0, <1>5, PassType DEF ScanQuiet
<1>6. QED
  BY <1>1, <1>2, <1>3, <1>4, <1>5, Zenon

(* Every step of selixSelect does. *)
LEMMA SelectStepType == TypeOK /\ SelectStep => TypeOK'
<1> SUFFICES ASSUME TypeOK, SelectStep PROVE TypeOK'
  OBVIOUS
<1>1. CASE SelectBegin
  BY <1>1 DEF SelectBegin, TypeOK
<1>2. CASE SelectReturn
  <2>1. rd' \subseteq Slots /\ wr' \subseteq Slots
    BY <1>2 DEF SelectReturn, Watched
  <2>2. nNum' \in Int
    <3> DEFINE r == {s \in Watched : "R" \in copy[s].seli /\ Readable(copy[s].sock)}
               w == {s \in Watched : "W" \in copy[s].seli /\ Writable(copy[s].sock)}
    <3>1. r \in SUBSET Slots /\ w \in SUBSET Slots
      BY DEF Watched
    <3>2. Cardinality(r) \in Nat /\ Cardinality(w) \in Nat
      BY <3>1, SlotsFinite
    <3>3. QED
      BY <1>2, <3>2 DEF SelectReturn
  <2>3. QED
    BY <1>2, <2>1, <2>2 DEF SelectReturn, TypeOK
<1>6. CASE EndAsserts
  BY <1>6 DEF EndAsserts, AssertFails, TypeOK
<1>3. CASE SelectError \/ SelectEnd \/ Relock
  <2>1. [s \in Slots |-> EmptySlot] \in [Slots -> SlotRec] /\ 0 \in Slots
    BY RecordTypes, ConstantsAssumption DEF Slots
  <2>2. CASE SelectError
    BY <2>1, <2>2 DEF SelectError, TypeOK
  <2>3. CASE SelectEnd
    BY <2>1, <2>3 DEF SelectEnd, TypeOK
  <2>4. CASE Relock
    BY <2>1, <2>4 DEF Relock, TypeOK
  <2>5. QED
    BY <1>3, <2>2, <2>3, <2>4
<1>4. CASE Scan
  BY <1>4, ScanType
<1>5. CASE CallbackReturn
  <2>1. ev.slot \in Slots
    BY DEF TypeOK, EvRec
  <2>2. node' \in [Slots -> SlotRec] /\ idx' \in Slots /\ pc' \in {"scan", "done"}
    BY <1>5, <2>1, IterationEndType DEF CallbackReturn, TypeOK
  <2>3. QED
    BY <1>5, <2>2, RecordTypes, ConstantsAssumption DEF CallbackReturn, TypeOK
<1>7. QED
  BY <1>1, <1>2, <1>3, <1>4, <1>5, <1>6 DEF SelectStep

(* Every variable of the reactor keeps its type in every reachable state. *)
THEOREM TypeCorrect == Spec => []TypeOK
<1>1. Init => TypeOK
  BY InitType
<1>2. TypeOK /\ [Next]_vars => TypeOK'
  <2>1. CASE UNCHANGED vars
    BY <2>1 DEF vars, TypeOK
  <2>2. QED
    BY <2>1, CallType, KernelType, SelectStepType DEF Next
<1>3. QED
  BY <1>1, <1>2, PTL DEF Spec

-----------------------------------------------------------------------------
(* Socket ownership is inductive once the types are known: only lixOpen,    *)
(* lixAccept and lixClose change which slot is valid, which socket it holds *)
(* or whether the kernel holds that socket open.                            *)

Held(k) == sk[k].st \notin {"free", "closed"}

(* A step that leaves alone which slot holds which socket, and which *)
(* sockets the kernel holds, leaves ownership alone. *)
LEMMA OwnershipFrame ==
  ASSUME SocketsOwned,
         \A s \in Slots : node'[s].valid = node[s].valid /\ node'[s].sock = node[s].sock,
         \A k \in Socks : Held(k)' = Held(k)
  PROVE  SocketsOwned'
BY DEF SocketsOwned, Held

(* A slot that was free takes a socket that was free. *)
LEMMA OwnershipOpen ==
  ASSUME TypeOK, SocketsOwned, NEW s \in Slots, NEW k \in Socks,
         ~node[s].valid, sk[k].st = "free",
         node' \in [Slots -> SlotRec],
         node'[s].valid, node'[s].sock = k,
         \A r \in Slots \ {s} : node'[r] = node[r],
         Held(k)', \A j \in Socks \ {k} : Held(j)' = Held(j)
  PROVE  SocketsOwned'
BY DEF SocketsOwned, Held

(* Ownership through every lix function. *)
LEMMA OwnershipCall ==
  ASSUME TypeOK, SocketsOwned, Call
  PROVE  SocketsOwned'
<1>0. /\ NewSock("fresh").st = "fresh" /\ NewSock("udp").st = "udp"
      /\ NewSock("established").st = "established" /\ NewSock("closed").st = "closed"
  BY DEF NewSock
<1>t. /\ node \in [Slots -> SlotRec] /\ sk \in [Socks -> SockRec]
      /\ node' \in [Slots -> SlotRec] /\ sk' \in [Socks -> SockRec]
  BY CallNodeType, CallSockType DEF TypeOK
<1>1. ASSUME NEW s \in Slots, NEW k \in Socks, lixOpenTcp(s, k) \/ lixOpenUdp(s, k)
      PROVE  SocketsOwned'
  <2>1. ~node[s].valid /\ sk[k].st = "free"
    BY <1>1 DEF lixOpenTcp, lixOpenUdp, IdleIndex
  <2>2. node'[s].valid /\ node'[s].sock = k /\ \A r \in Slots \ {s} : node'[r] = node[r]
    BY <1>1, <1>t DEF lixOpenTcp, lixOpenUdp
  <2>3. Held(k)' /\ \A j \in Socks \ {k} : Held(j)' = Held(j)
    BY <1>0, <1>1, <1>t DEF lixOpenTcp, lixOpenUdp, Held
  <2>4. QED
    BY <1>t, <2>1, <2>2, <2>3, OwnershipOpen
<1>2. ASSUME NEW l \in Slots, NEW s \in Slots, NEW k \in Socks, lixAccept(l, s, k)
      PROVE  SocketsOwned'
  <2>1. ~node[s].valid /\ sk[k].st = "free"
    BY <1>2 DEF lixAccept, IdleIndex
  <2>2. node'[s].valid /\ node'[s].sock = k /\ \A r \in Slots \ {s} : node'[r] = node[r]
    BY <1>2, <1>t DEF lixAccept
  <2>3. Held(k)' /\ \A j \in Socks \ {k} : Held(j)' = Held(j)
    <3>1. \A j \in Socks \ {k} : sk'[j].st = sk[j].st
      BY <1>2, <1>t DEF lixAccept, SockRec
    <3>2. sk'[k].st = "established"
      BY <1>0, <1>2, <1>t DEF lixAccept
    <3>3. QED BY <3>1, <3>2 DEF Held
  <2>4. QED
    BY <1>t, <2>1, <2>2, <2>3, OwnershipOpen
<1>3. ASSUME NEW l \in Slots, NEW k \in Socks, lixAcceptFull(l, k)
      PROVE  SocketsOwned'
  <2>1. \A j \in Socks : Held(j)' = Held(j)
    <3>1. \A j \in Socks \ {k} : sk'[j].st = sk[j].st
      BY <1>3, <1>t DEF lixAcceptFull, SockRec
    <3>2. sk[k].st = "free" /\ sk'[k].st = "closed"
      BY <1>0, <1>3, <1>t DEF lixAcceptFull
    <3>3. QED BY <3>1, <3>2 DEF Held
  <2>2. QED
    BY <1>3, <2>1, OwnershipFrame DEF lixAcceptFull
<1>4. ASSUME NEW s \in Slots, lixConnect(s) \/ lixListen(s) \/ lixTcpRecv(s) \/ lixShutdown(s)
      PROVE  SocketsOwned'
  <2>1. \A r \in Slots : node'[r].valid = node[r].valid /\ node'[r].sock = node[r].sock
    <3>1. CASE lixConnect(s)
      BY <3>1, <1>t DEF lixConnect, SlotRec
    <3>2. CASE lixListen(s)
      BY <3>2, <1>t DEF lixListen, SlotRec
    <3>3. CASE lixShutdown(s)
      BY <3>3, <1>t DEF lixShutdown, SlotRec
    <3>4. CASE lixTcpRecv(s)
      BY <3>4 DEF lixTcpRecv
    <3>5. QED BY <1>4, <3>1, <3>2, <3>3, <3>4
  <2>2. \A j \in Socks : Held(j)' = Held(j)
    <3>1. CASE lixConnect(s)
      BY <3>1, <1>t DEF lixConnect, SockRec, Held
    <3>2. CASE lixListen(s)
      BY <3>2, <1>t DEF lixListen, SockRec, Held
    <3>3. CASE lixShutdown(s)
      BY <3>3 DEF lixShutdown, Held
    <3>4. CASE lixTcpRecv(s)
      BY <3>4, <1>t DEF lixTcpRecv, SockRec, Held
    <3>5. QED BY <1>4, <3>1, <3>2, <3>3, <3>4
  <2>3. QED
    BY <2>1, <2>2, OwnershipFrame
<1>5. ASSUME NEW s \in Slots, lixClose(s)
      PROVE  SocketsOwned'
  <2>1. node[s].sock \in Socks /\ node[s].valid /\ Held(node[s].sock)
    BY <1>5 DEF lixClose, SocketsOwned, Held
  <2>2. ~node'[s].valid /\ \A r \in Slots \ {s} : node'[r] = node[r]
    BY <1>5, <1>t DEF lixClose, EmptySlot
  <2>3. sk'[node[s].sock].st = "closed" /\ \A j \in Socks \ {node[s].sock} : sk'[j] = sk[j]
    BY <1>0, <1>5, <1>t, <2>1 DEF lixClose
  <2>4. QED
    BY <2>1, <2>2, <2>3 DEF SocketsOwned, Held
<1>6. QED
  BY <1>1, <1>2, <1>3, <1>4, <1>5 DEF Call

(* Nothing the select thread does changes who owns what. *)
LEMMA OwnershipSelectStep ==
  ASSUME TypeOK, SelectStep
  PROVE  /\ sk' = sk /\ maxId' = maxId
         /\ \A r \in Slots : /\ node'[r].valid = node[r].valid
                             /\ node'[r].sock = node[r].sock
                             /\ node'[r].id = node[r].id
<1> DEFINE Same == /\ sk' = sk /\ maxId' = maxId
                   /\ \A r \in Slots : /\ node'[r].valid = node[r].valid
                                       /\ node'[r].sock = node[r].sock
                                       /\ node'[r].id = node[r].id
<1>1. CASE SelectBegin \/ SelectReturn \/ SelectError \/ Relock \/ SelectEnd
               \/ EndAsserts
  BY <1>1
     DEF SelectBegin, SelectReturn, SelectError, Relock, SelectEnd, EndAsserts, AssertFails
<1>2. ASSUME NEW s \in Slots, NEW c, WriteBack(s, c)
      PROVE  \A r \in Slots : /\ node'[r].valid = node[r].valid
                              /\ node'[r].sock = node[r].sock
                              /\ node'[r].id = node[r].id
  BY <1>2 DEF WriteBack, TypeOK, SlotRec
<1>3. ASSUME NEW s \in Slots, NEW n, Pass(s, n) PROVE Same
  BY <1>2, <1>3 DEF Pass
<1>4. ASSUME NEW s \in Slots, NEW e, NEW c, NEW n, Deliver(s, e, c, n) PROVE Same
  BY <1>4 DEF Deliver
<1>5. CASE Scan
  <2>1. PICK s \in Slots : ScanSkip(s) \/ ScanTimeout(s) \/ ScanReadable(s)
                           \/ ScanWritable(s) \/ ScanQuiet(s)
    BY <1>5 DEF Scan
  <2>2. CASE ScanSkip(s)
    BY <2>2 DEF ScanSkip
  <2>3. CASE ScanTimeout(s)
    BY <2>3, <1>3, <1>4 DEF ScanTimeout
  <2>4. CASE ScanReadable(s)
    BY <2>4, <1>3, <1>4 DEF ScanReadable
  <2>5. CASE ScanWritable(s)
    BY <2>5, <1>3, <1>4 DEF ScanWritable, AssertFails
  <2>6. CASE ScanQuiet(s)
    BY <2>6, <1>3 DEF ScanQuiet
  <2>7. QED
    BY <2>1, <2>2, <2>3, <2>4, <2>5, <2>6
<1>6. CASE CallbackReturn
  <2>1. ev.slot \in Slots
    BY DEF TypeOK, EvRec
  <2>2. QED
    BY <1>2, <1>6, <2>1 DEF CallbackReturn
<1>7. QED
  BY <1>1, <1>5, <1>6 DEF SelectStep

(* The kernel opens and closes no descriptor of its own. *)
LEMMA OwnershipKernel ==
  ASSUME TypeOK, SocketsOwned, Kernel
  PROVE  SocketsOwned'
<1>1. UNCHANGED node
  BY DEF Kernel, ConnDone, ConnFail, PeerConnect, PeerSend, PeerClose, Expire, KernelOnly
<1>2. \A j \in Socks : Held(j)' = Held(j)
  <2>1. ASSUME NEW k \in Socks, ConnDone(k) \/ ConnFail(k)
        PROVE  \A j \in Socks : Held(j)' = Held(j)
    <3>1. sk[k].st = "connecting" /\ sk'[k].st \in {"established", "failed"}
      BY <2>1 DEF ConnDone, ConnFail, TypeOK, SockRec
    <3>2. \A j \in Socks : j # k => sk'[j] = sk[j]
      BY <2>1 DEF ConnDone, ConnFail, TypeOK
    <3> QED
      BY <3>1, <3>2 DEF Held
  <2>2. ASSUME NEW k \in Socks, PeerConnect(k) \/ PeerSend(k) \/ PeerClose(k) \/ Expire(k)
        PROVE  \A j \in Socks : Held(j)' = Held(j)
    BY <2>2 DEF PeerConnect, PeerSend, PeerClose, Expire, Held, TypeOK, SockRec
  <2>3. QED
    BY <2>1, <2>2 DEF Kernel
<1>3. QED
  BY <1>1, <1>2, OwnershipFrame

(* No call, callback, race or write-back leaks a socket, closes one under a *)
(* slot that still uses it, or gives one socket to two slots.               *)
THEOREM Ownership == Spec => []SocketsOwned
<1>1. Init => SocketsOwned
  BY DEF Init, SocketsOwned, EmptySlot, NewSock
<1>2. TypeOK /\ SocketsOwned /\ [Next]_vars => SocketsOwned'
  <2> SUFFICES ASSUME TypeOK, SocketsOwned, [Next]_vars PROVE SocketsOwned'
    OBVIOUS
  <2>1. CASE SelectStep
    BY <2>1, OwnershipSelectStep, OwnershipFrame DEF Held
  <2>2. CASE UNCHANGED vars
    BY <2>2 DEF vars, SocketsOwned
  <2>3. QED
    BY <2>1, <2>2, OwnershipCall, OwnershipKernel DEF Next
<1>3. QED
  BY <1>1, <1>2, TypeCorrect, PTL DEF Spec
-----------------------------------------------------------------------------
(* What the test "the original socket has changed" achieves.  It compares   *)
(* ids, so it needs them unique, and unique over time: an id still held by  *)
(* the copy must not have been given to a later socket of the slot.  That   *)
(* is so as long as lixAccept, which assigns no id, is not called.          *)

NothingAccepted == "accept" \notin OwnerCalls \cup AppCalls \cup CbCalls

IdsBounded ==
  \A s \in Slots : /\ node[s].valid => node[s].id <= maxId
                   /\ copy[s].valid => copy[s].id <= maxId

SameIdSameSock ==
  \A s \in Slots : node[s].valid /\ copy[s].valid /\ node[s].id = copy[s].id =>
                     node[s].sock = copy[s].sock

DispatchInv == IdsUnique /\ IdsBounded /\ SameIdSameSock /\ NoStaleDispatch

(* A new socket gets an id above every id in the table and in the copy. *)
LEMMA DispatchOpen ==
  ASSUME TypeOK, DispatchInv, NEW s \in Slots,
         maxId' = maxId + 1, copy' = copy, ev' = ev,
         node'[s].id = maxId + 1,
         \A r \in Slots : r # s => node'[r] = node[r]
  PROVE  DispatchInv'
<1>1. maxId \in Nat /\ \A r \in Slots : node[r].id \in Nat /\ copy[r].id \in Nat
  BY DEF TypeOK, SlotRec
<1>b. \A r \in Slots : /\ node[r].valid => node[r].id <= maxId
                       /\ copy[r].valid => copy[r].id <= maxId
  BY DEF DispatchInv, IdsBounded
<1>c. \A r \in Slots : /\ node[r].valid => node[r].id # maxId + 1
                       /\ copy[r].valid => copy[r].id # maxId + 1
  BY <1>1, <1>b
<1>2. IdsBounded'
  <2>1. ASSUME NEW r \in Slots PROVE node'[r].valid => node'[r].id <= maxId + 1
    <3>1. CASE r = s
      BY <1>1, <3>1
    <3>2. CASE r # s
      <4>1. node'[r] = node[r]
        BY <3>2
      <4>2. node[r].valid => node[r].id <= maxId + 1
        BY <1>1, <1>b
      <4>3. QED BY <4>1, <4>2
    <3>3. QED BY <3>1, <3>2
  <2>2. ASSUME NEW r \in Slots PROVE copy'[r].valid => copy'[r].id <= maxId + 1
    <3>1. copy[r].valid => copy[r].id <= maxId + 1
      BY <1>1, <1>b
    <3>2. QED BY <3>1
  <2>3. QED
    BY <2>1, <2>2 DEF IdsBounded
<1>3. IdsUnique'
  <2> SUFFICES ASSUME NEW a \in Slots, NEW b \in Slots, node'[a].valid, node'[b].valid, a # b
               PROVE  node'[a].id # node'[b].id
    BY DEF IdsUnique
  <2>1. CASE a = s \/ b = s
    BY <1>c, <2>1
  <2>2. CASE a # s /\ b # s
    BY <2>2 DEF DispatchInv, IdsUnique
  <2>3. QED
    BY <2>1, <2>2
<1>4. SameIdSameSock'
  <2>1. SameIdSameSock
    BY DEF DispatchInv
  <2>2. QED
    BY <1>c, <2>1, Zenon DEF SameIdSameSock
<1>5. NoStaleDispatch'
  BY DEF DispatchInv, NoStaleDispatch
<1>6. QED
  BY <1>2, <1>3, <1>4, <1>5 DEF DispatchInv

(* A step that keeps id and socket of every slot it leaves valid. *)
LEMMA DispatchFrame ==
  ASSUME DispatchInv, maxId' = maxId, copy' = copy, ev' = ev,
         \A r \in Slots : node'[r].valid =>
           /\ node[r].valid
           /\ node'[r].id = node[r].id /\ node'[r].sock = node[r].sock
  PROVE  DispatchInv'
<1>1. IdsUnique'
  <2> SUFFICES ASSUME NEW a \in Slots, NEW b \in Slots, node'[a].valid, node'[b].valid, a # b
               PROVE  node'[a].id # node'[b].id
    BY DEF IdsUnique
  <2> QED
    BY DEF DispatchInv, IdsUnique
<1>2. IdsBounded'
  BY Zenon DEF DispatchInv, IdsBounded
<1>3. SameIdSameSock'
  BY Zenon DEF DispatchInv, SameIdSameSock
<1>4. NoStaleDispatch'
  BY DEF DispatchInv, NoStaleDispatch
<1>5. QED
  BY <1>1, <1>2, <1>3, <1>4 DEF DispatchInv

(* The lix functions other than lixAccept keep the ids of the copy and of *)
(* the table apart. *)
LEMMA DispatchCall ==
  ASSUME TypeOK, DispatchInv, NothingAccepted, Call
  PROVE  DispatchInv'
<1>t. node \in [Slots -> SlotRec] /\ node' \in [Slots -> SlotRec]
  BY CallNodeType DEF TypeOK
<1>1. ASSUME NEW s \in Slots, NEW k \in Socks, lixOpenTcp(s, k) \/ lixOpenUdp(s, k)
      PROVE  DispatchInv'
  <2>1. /\ node'[s].id = maxId + 1 /\ maxId' = maxId + 1
        /\ \A r \in Slots : r # s => node'[r] = node[r]
    BY <1>1, <1>t DEF lixOpenTcp, lixOpenUdp
  <2>2. copy' = copy /\ ev' = ev
    BY <1>1 DEF lixOpenTcp, lixOpenUdp, selectVars
  <2>3. QED
    BY <2>1, <2>2, DispatchOpen
<1>2. ASSUME NEW l \in Slots, NEW s \in Slots, NEW k \in Socks, lixAccept(l, s, k)
      PROVE  FALSE
  BY <1>2 DEF lixAccept, MayCall, NothingAccepted
<1>3. ASSUME NEW s \in Slots,
             \/ lixConnect(s) \/ lixListen(s) \/ lixTcpRecv(s)
             \/ lixShutdown(s) \/ lixClose(s)
      PROVE  DispatchInv'
  <2>1. maxId' = maxId /\ copy' = copy /\ ev' = ev
    BY <1>3 DEF lixConnect, lixListen, lixTcpRecv, lixShutdown, lixClose, selectVars
  <2>2. \A r \in Slots : node'[r].valid =>
           /\ node[r].valid
           /\ node'[r].id = node[r].id /\ node'[r].sock = node[r].sock
    <3>1. CASE lixConnect(s)
      BY <3>1, <1>t DEF lixConnect, SlotRec
    <3>2. CASE lixListen(s)
      BY <3>2, <1>t DEF lixListen, SlotRec
    <3>3. CASE lixShutdown(s)
      BY <3>3, <1>t DEF lixShutdown, SlotRec
    <3>4. CASE lixTcpRecv(s)
      BY <3>4 DEF lixTcpRecv
    <3>5. CASE lixClose(s)
      BY <3>5, <1>t DEF lixClose, EmptySlot
    <3>6. QED
      BY <1>3, <3>1, <3>2, <3>3, <3>4, <3>5
  <2>3. QED
    BY <2>1, <2>2, DispatchFrame
<1>4. ASSUME NEW l \in Slots, NEW k \in Socks, lixAcceptFull(l, k)
      PROVE  DispatchInv'
  BY <1>4, DispatchFrame DEF lixAcceptFull, selectVars
<1>5. QED
  BY <1>1, <1>2, <1>3, <1>4 DEF Call

(* The copy and the event in progress after a step of the walk. *)
LEMMA DispatchScan ==
  ASSUME TypeOK, DispatchInv, Scan
  PROVE  /\ \A r \in Slots : /\ copy'[r].valid = copy[r].valid
                             /\ copy'[r].id = copy[r].id
                             /\ copy'[r].sock = copy[r].sock
         /\ NoStaleDispatch'
<1> DEFINE Good == /\ \A r \in Slots : /\ copy'[r].valid = copy[r].valid
                                       /\ copy'[r].id = copy[r].id
                                       /\ copy'[r].sock = copy[r].sock
                   /\ NoStaleDispatch'
<1>1. PICK s \in Slots : ScanSkip(s) \/ ScanTimeout(s) \/ ScanReadable(s)
                         \/ ScanWritable(s) \/ ScanQuiet(s)
  BY DEF Scan
<1>t. copy \in [Slots -> SlotRec]
  BY DEF TypeOK
<1>2. ASSUME NEW n, Pass(s, n) PROVE Good
  BY <1>2 DEF Pass, DispatchInv, NoStaleDispatch
<1>3. ASSUME ScanEnter(s), NEW e, NEW n, NEW c, Deliver(s, e, c, n),
             c.valid = copy[s].valid, c.id = copy[s].id, c.sock = copy[s].sock
      PROVE  Good
  <2>1. copy[s].sock = node[s].sock
    BY <1>3 DEF ScanEnter, NotWatched, SocketChanged, DispatchInv, SameIdSameSock
  <2>2. QED
    BY <1>3, <1>t, <2>1 DEF Deliver, NoStaleDispatch
<1>a. CASE AssertFails
  BY <1>a DEF AssertFails, DispatchInv, NoStaleDispatch
<1>4. CASE ScanSkip(s)
  BY <1>4 DEF ScanSkip, DispatchInv, NoStaleDispatch
<1>5. CASE ScanTimeout(s)
  <2>1. LET c == [copy[s] EXCEPT !.exc = TRUE]
        IN  c.valid = copy[s].valid /\ c.id = copy[s].id /\ c.sock = copy[s].sock
    BY <1>t DEF SlotRec
  <2>2. QED
    BY <1>5, <1>2, <1>3, <2>1 DEF ScanTimeout
<1>6. CASE ScanReadable(s)
  <2>1. LET c == [copy[s] EXCEPT !.seli = @ \ {"R"}]
        IN  c.valid = copy[s].valid /\ c.id = copy[s].id /\ c.sock = copy[s].sock
    BY <1>t DEF SlotRec
  <2>2. QED
    BY <1>6, <1>2, <1>3, <2>1 DEF ScanReadable
<1>7. CASE ScanWritable(s)
  <2>1. LET c == [copy[s] EXCEPT !.seli = {"R"}, !.liEv = {"read", "close"},
                                 !.st = "available"]
        IN  c.valid = copy[s].valid /\ c.id = copy[s].id /\ c.sock = copy[s].sock
    BY <1>t DEF SlotRec
  <2>2. QED
    BY <1>7, <1>2, <1>3, <1>a, <2>1 DEF ScanWritable
<1>8. CASE ScanQuiet(s)
  BY <1>8, <1>2 DEF ScanQuiet
<1>9. QED
  BY <1>1, <1>4, <1>5, <1>6, <1>7, <1>8

(* So does every step of selixSelect: it dispatches only after the ids *)
(* were compared. *)
LEMMA DispatchSelectStep ==
  ASSUME TypeOK, DispatchInv, SelectStep
  PROVE  DispatchInv'
<1>1. /\ maxId' = maxId
      /\ \A r \in Slots : /\ node'[r].valid = node[r].valid
                          /\ node'[r].sock = node[r].sock
                          /\ node'[r].id = node[r].id
  BY OwnershipSelectStep
<1>2. ASSUME NoStaleDispatch',
             \A r \in Slots : copy'[r].valid =>
               \/ /\ copy[r].valid
                  /\ copy'[r].id = copy[r].id /\ copy'[r].sock = copy[r].sock
               \/ copy'[r] = node[r]
      PROVE  DispatchInv'
  BY <1>1, <1>2 DEF DispatchInv, IdsUnique, IdsBounded, SameIdSameSock
<1>3. CASE SelectBegin
  BY <1>2, <1>3 DEF SelectBegin, DispatchInv, NoStaleDispatch
<1>4. CASE SelectReturn \/ Relock
  BY <1>2, <1>4 DEF SelectReturn, Relock, DispatchInv, NoStaleDispatch
<1>5. CASE SelectError \/ SelectEnd \/ EndAsserts
  BY <1>2, <1>5
     DEF SelectError, SelectEnd, EndAsserts, AssertFails, EmptySlot, DispatchInv, NoStaleDispatch
<1>6. CASE Scan
  BY <1>2, <1>6, DispatchScan
<1>7. CASE CallbackReturn
  BY <1>2, <1>7 DEF CallbackReturn, NoEv, NoStaleDispatch
<1>8. QED
  BY <1>3, <1>4, <1>5, <1>6, <1>7 DEF SelectStep

(* The invariant that the two theorems below share. *)
LEMMA DispatchInvariance ==
  ASSUME NothingAccepted
  PROVE  Spec => []DispatchInv
<1>1. Init => DispatchInv
  BY DEF Init, DispatchInv, IdsUnique, IdsBounded, SameIdSameSock,
         NoStaleDispatch, EmptySlot, NoEv
<1>2. TypeOK /\ DispatchInv /\ [Next]_vars => DispatchInv'
  <2> SUFFICES ASSUME TypeOK, DispatchInv, [Next]_vars PROVE DispatchInv'
    OBVIOUS
  <2>1. CASE Kernel
    BY <2>1, DispatchFrame
       DEF Kernel, ConnDone, ConnFail, PeerConnect, PeerSend, PeerClose, Expire,
           KernelOnly, selectVars
  <2>2. CASE UNCHANGED vars
    BY <2>2, DispatchFrame DEF vars
  <2>3. QED
    BY <2>1, <2>2, NothingAccepted, DispatchCall, DispatchSelectStep DEF Next
<1>3. QED
  BY <1>1, <1>2, TypeCorrect, PTL DEF Spec

(* While nothing is accepted, a callback is only ever told about the socket *)
(* that is in its slot, whatever other threads and callbacks closed and     *)
(* opened since the table was copied.                                       *)
THEOREM NoStaleDispatchWithoutAccept ==
  ASSUME NothingAccepted
  PROVE  Spec => []NoStaleDispatch
<1>1. DispatchInv => NoStaleDispatch
  BY DEF DispatchInv
<1>2. QED
  BY <1>1, DispatchInvariance, PTL

(* While nothing is accepted, no two slots have the same id: a wrapped      *)
(* counter aside, the id that lixAddNode gives is larger than any in use,   *)
(* also after slots were closed and used again.                             *)
THEOREM IdsUniqueWithoutAccept ==
  ASSUME NothingAccepted
  PROVE  Spec => []IdsUnique
<1>1. DispatchInv => IdsUnique
  BY DEF DispatchInv
<1>2. QED
  BY <1>1, DispatchInvariance, PTL

-----------------------------------------------------------------------------
(* A slot that waits for liEvConnect is connecting, or was shut down since. *)
Waiting(c) == "connect" \in c.liEv => c.st \in {"connecting", "shutdowned"}

AllWaiting == \A s \in Slots : Waiting(node[s]) /\ Waiting(copy[s])

(* A call sets the state of a slot with what it waits for; a shutdown sets  *)
(* the state alone.                                                         *)
LEMMA CallWaiting ==
  ASSUME TypeOK, AllWaiting, Call
  PROVE  AllWaiting'
<1>0. copy' = copy /\ node \in [Slots -> SlotRec]
  BY CallFrame DEF selectVars, TypeOK
<1>1. ASSUME NEW s \in Slots, NEW k \in Socks, lixOpenTcp(s, k) \/ lixOpenUdp(s, k)
      PROVE  \A r \in Slots : Waiting(node'[r])
  BY <1>0, <1>1 DEF lixOpenTcp, lixOpenUdp, AllWaiting, Waiting
<1>2. ASSUME NEW l \in Slots, NEW s \in Slots, NEW k \in Socks, lixAccept(l, s, k)
      PROVE  \A r \in Slots : Waiting(node'[r])
  BY <1>0, <1>2 DEF lixAccept, AllWaiting, Waiting
<1>3. ASSUME NEW s \in Slots, lixConnect(s) \/ lixListen(s)
      PROVE  \A r \in Slots : Waiting(node'[r])
  <2>1. CASE lixConnect(s)
    <3>1. node' = [node EXCEPT ![s] = [@ EXCEPT !.seli = {"R", "W"},
                                                !.liEv = {"connect", "close"},
                                                !.st = "connecting"]]
      BY <2>1 DEF lixConnect
    <3> QED
      BY <1>0, <3>1 DEF AllWaiting, Waiting, SlotRec
  <2>2. CASE lixListen(s)
    <3>1. node' = [node EXCEPT ![s] = [@ EXCEPT !.seli = {"R"}, !.liEv = {"accept"},
                                                !.st = "listening"]]
      BY <2>2 DEF lixListen
    <3> QED
      BY <1>0, <3>1 DEF AllWaiting, Waiting, SlotRec
  <2> QED
    BY <1>3, <2>1, <2>2
<1>4. ASSUME NEW s \in Slots, lixShutdown(s) PROVE \A r \in Slots : Waiting(node'[r])
  BY <1>0, <1>4 DEF lixShutdown, AllWaiting, Waiting, SlotRec
<1>5. ASSUME NEW s \in Slots, lixClose(s) PROVE \A r \in Slots : Waiting(node'[r])
  BY <1>0, <1>5 DEF lixClose, EmptySlot, AllWaiting, Waiting
<1>6. ASSUME node' = node PROVE \A r \in Slots : Waiting(node'[r])
  BY <1>6 DEF AllWaiting
<1>7. \A r \in Slots : Waiting(node'[r])
  BY <1>1, <1>2, <1>3, <1>4, <1>5, <1>6 DEF Call, lixTcpRecv, lixAcceptFull
<1> QED
  BY <1>0, <1>7 DEF AllWaiting, Waiting

(* The write-back of a slot writes both. *)
LEMMA WriteBackWaiting ==
  ASSUME TypeOK, AllWaiting, NEW s \in Slots, WriteBack(s, copy[s]), copy' = copy
  PROVE  AllWaiting'
BY DEF WriteBack, AllWaiting, Waiting, TypeOK, SlotRec

(* An event changes the copy alone. *)
LEMMA DeliverWaiting ==
  ASSUME TypeOK, AllWaiting, NEW s \in Slots, NEW e, NEW c, NEW n, Deliver(s, e, c, n),
         Waiting(c)
  PROVE  AllWaiting'
BY DEF Deliver, AllWaiting, Waiting, TypeOK

(* So do the branches of the walk. *)
LEMMA ScanWaiting ==
  ASSUME TypeOK, AllWaiting, Scan
  PROVE  AllWaiting'
<1>1. PICK s \in Slots : \/ ScanSkip(s) \/ ScanTimeout(s) \/ ScanReadable(s)
                         \/ ScanWritable(s) \/ ScanQuiet(s)
  BY DEF Scan
<1>2. copy[s] \in SlotRec /\ Waiting(copy[s])
  BY DEF TypeOK, AllWaiting
<1>3. ASSUME NEW n, Pass(s, n) PROVE AllWaiting'
  BY <1>3, WriteBackWaiting DEF Pass
<1>4. CASE ScanSkip(s)
  BY <1>4 DEF ScanSkip, AllWaiting, Waiting
<1>5. CASE ScanTimeout(s)
  <2>1. Waiting([copy[s] EXCEPT !.exc = TRUE])
    BY <1>2 DEF Waiting, SlotRec
  <2> QED
    BY <1>5, <1>3, <2>1, DeliverWaiting DEF ScanTimeout
<1>6. CASE ScanReadable(s)
  <2>1. Waiting([copy[s] EXCEPT !.seli = @ \ {"R"}])
    BY <1>2 DEF Waiting, SlotRec
  <2> QED
    BY <1>6, <1>2, <1>3, <2>1, DeliverWaiting DEF ScanReadable
<1>7. CASE ScanWritable(s)
  <2>1. Waiting([copy[s] EXCEPT !.seli = {"R"}, !.liEv = {"read", "close"}, !.st = "available"])
    BY <1>2 DEF Waiting, SlotRec
  <2>2. CASE AssertFails
    BY <2>2 DEF AssertFails, AllWaiting, Waiting
  <2> QED
    BY <1>7, <1>2, <1>3, <2>1, <2>2, DeliverWaiting DEF ScanWritable
<1>8. CASE ScanQuiet(s)
  BY <1>8, <1>3 DEF ScanQuiet
<1> QED
  BY <1>1, <1>4, <1>5, <1>6, <1>7, <1>8

(* For any threads and any callbacks: the assert of the branch for          *)
(* liEvConnect fails at a slot that was shut down, and at no other.         *)
THEOREM AssertsOnlyAtShutDown == Spec => []AssertsOnlyShutDown
<1>1. Init => AllWaiting
  BY DEF Init, AllWaiting, Waiting, EmptySlot
<1>2. TypeOK /\ AllWaiting /\ [Next]_vars => AllWaiting'
  <2> SUFFICES ASSUME TypeOK, AllWaiting, [Next]_vars PROVE AllWaiting'
    OBVIOUS
  <2>1. ASSUME UNCHANGED <<node, copy>> PROVE AllWaiting'
    BY <2>1 DEF AllWaiting, Waiting
  <2>2. CASE Kernel \/ UNCHANGED vars
    BY <2>1, <2>2
       DEF Kernel, ConnDone, ConnFail, PeerConnect, PeerSend, PeerClose, Expire, KernelOnly,
           selectVars, vars
  <2>3. CASE SelectReturn \/ Relock \/ EndAsserts
    BY <2>1, <2>3 DEF SelectReturn, Relock, EndAsserts, AssertFails
  <2>4. CASE SelectBegin \/ SelectError \/ SelectEnd
    BY <2>4 DEF SelectBegin, SelectError, SelectEnd, AllWaiting, Waiting, EmptySlot
  <2>5. CASE CallbackReturn
    BY <2>5, WriteBackWaiting DEF CallbackReturn, TypeOK, EvRec
  <2> QED
    BY <2>2, <2>3, <2>4, <2>5, CallWaiting, ScanWaiting DEF Next, SelectStep
<1>3. AllWaiting => AssertsOnlyShutDown
  BY DEF AllWaiting, Waiting, AssertsOnlyShutDown, AboutToAssert, WriteEvent
<1> QED
  BY <1>1, <1>2, <1>3, TypeCorrect, PTL DEF Spec

-----------------------------------------------------------------------------
(* What holds for an application that works the reactor from one thread:    *)
(* calls are made between two selects, a callback accepts, receives and     *)
(* closes on its own slot, the sockets are TCP, and a server waits for its  *)
(* client to speak.                                                         *)

OneThread ==
  /\ AppCalls = {} /\ "openUdp" \notin OwnerCalls
  /\ CbCalls \subseteq {"accept", "recv", "close"}
  /\ ~CbAnySlot /\ ~PeerSpeaksFirst

(* What a slot c may be registered for, with its socket in state q: nothing *)
(* yet, a connection that is asked for, connections to accept, or reading.  *)
Unused(c, q) ==
  q.st = "fresh" /\ ~q.data /\ c.seli = {} /\ c.liEv = {} /\ c.st # "connecting"

Asking(c, q) ==
  /\ c.liEv = {"connect", "close"} /\ ~q.data
  /\ \/ q.st \in {"connecting", "established", "failed"} /\ c.seli = {"R", "W"}
     \/ q.st \in {"established", "failed"} /\ c.seli = {"W"} /\ c.st = "shutdowned"

Accepting(c, q) ==
  /\ q.st = "listening" /\ c.liEv = {"accept"} /\ c.st # "connecting"
  /\ c.seli = {"R"} \/ (c.seli = {} /\ c.st = "shutdowned")

Reading(c, q) ==
  /\ q.st = "established" /\ c.liEv = {"read", "close"}
  /\ c.seli = {"R"} \/ (c.seli = {} /\ c.st = "shutdowned")

(* What an event other than liEvClose leaves it registered for. *)
Settled(c, q) == ~c.exc /\ (Accepting(c, q) \/ Reading(c, q))

Fits(c, q) == Settled(c, q) \/ (~c.exc /\ (Unused(c, q) \/ Asking(c, q)))

(* What liEvClose leaves, when the callback does not close the slot: it is  *)
(* passed over, or selected for one of reading and writing at most.         *)
Ended(c, q) ==
  /\ q.st \in {"connecting", "established", "failed"}
  /\ \/ c.exc
     \/ /\ c.liEv \in {{"connect", "close"}, {"read", "close"}}
        /\ c.seli # {"R", "W"}

(* The same, with what was told of the socket. *)
Over(c, k)  == "close" \in told[k] /\ Ended(c, sk[k])
Holds(c, k) == Fits(c, sk[k]) \/ Over(c, k)
Left(c, k)  == Settled(c, sk[k]) \/ Over(c, k)

Registered == \A s \in Slots : node[s].valid => Holds(node[s], node[s].sock)

(* The slots the walk has still to look at. *)
ToWalk ==
  IF pc \in {"selecting", "relock"} THEN Slots
  ELSE IF pc = "scan" THEN {s \in Slots : s >= idx}
  ELSE IF pc = "callback" THEN {s \in Slots : s > idx} ELSE {}

(* They are as they were when the table was copied ... *)
CopyTrue == \A s \in ToWalk : copy[s].valid => node[s] = copy[s]

(* Readable and Writable, of the state of a socket. *)
CanRead(q) ==
  \/ q.st \in {"established", "udp", "listening"} /\ (q.data \/ q.eof)
  \/ q.st = "failed"

(* A slot that waits to be told that its connection is there: it is. *)
Connects(c) ==
  c.st = "connecting" => sk[c.sock].st = "established" \/ "close" \in told[c.sock]

(* ... and what select() said of them is so still. *)
StillReady ==
  pc \in {"relock", "scan", "callback"} =>
    /\ \A s \in ToWalk \cap (rd \cup wr) : copy[s].valid /\ ~copy[s].exc
    /\ \A s \in ToWalk \cap rd : "R" \in copy[s].seli /\ CanRead(sk[copy[s].sock])
    /\ \A s \in ToWalk \cap wr : "W" \in copy[s].seli
    /\ \A s \in ToWalk \cap (wr \ rd) : Connects(copy[s])

(* nNum counts the answers of select() that were not looked at yet. *)
Unseen(S) == Cardinality(rd \cap S) + Cardinality(wr \cap S)

Counted ==
  /\ pc \in {"relock", "scan", "callback"} => nNum = Unseen(ToWalk)
  /\ pc = "done" => nNum = 0

(* What the callback in progress is about to write back. *)
InCallback ==
  pc = "callback" =>
    /\ ev.slot = idx
    /\ node[idx].valid => node[idx].sock = ev.cur /\ Left(copy[idx], ev.cur)

(* A socket that was never made was never spoken of. *)
FreeUntold == \A k \in Socks : sk[k].st = "free" => told[k] = {}

OneThreadInv ==
  /\ Registered /\ CopyTrue /\ StillReady /\ Counted /\ InCallback
  /\ FreeUntold /\ CloseMeansPeer /\ ConnectMeansEstablished


(* What calls and the kernel do to a socket that was made: it stays closed, *)
(* a connection stays one until it is closed, and what the peer or the      *)
(* clock did to it is not undone before.                                    *)
Ages(p, q) ==
  /\ q.st # "free"
  /\ p.st \in {"established", "closed"} => q.st \in {"established", "closed"}
  /\ p.st \in {"failed", "closed"} \/ p.eof \/ p.late =>
       q.st \in {"failed", "closed"} \/ q.eof \/ q.late

(* The kernel does. *)
LEMMA KernelAges ==
  ASSUME TypeOK, Kernel
  PROVE  \A k \in Socks : sk[k].st = "free" \/ Ages(sk[k], sk'[k])
<1>t. sk \in [Socks -> SockRec]
  BY DEF TypeOK
<1> SUFFICES ASSUME NEW k \in Socks, sk[k].st # "free" PROVE Ages(sk[k], sk'[k])
  OBVIOUS
<1>1. PICK j \in Socks : \/ ConnDone(j) \/ ConnFail(j) \/ PeerConnect(j)
                         \/ PeerSend(j) \/ PeerClose(j) \/ Expire(j)
  BY DEF Kernel
<1>2. CASE k # j
  BY <1>1, <1>2, <1>t DEF Ages, ConnDone, ConnFail, PeerConnect, PeerSend, PeerClose, Expire
<1>3. CASE k = j
  <2>1. CASE ConnDone(k) \/ ConnFail(k)
    BY <2>1, <1>t DEF Ages, ConnDone, ConnFail, SockRec
  <2>2. CASE PeerConnect(k) \/ PeerSend(k)
    BY <2>2, <1>t DEF Ages, PeerConnect, PeerSend, SockRec
  <2>3. CASE PeerClose(k) \/ Expire(k)
    BY <2>3, <1>t DEF Ages, PeerClose, Expire, SockRec
  <2> QED
    BY <1>1, <1>3, <2>1, <2>2, <2>3
<1> QED
  BY <1>2, <1>3

(* So do the lix functions. *)
LEMMA CallAges ==
  ASSUME TypeOK, SocketsOwned, Call
  PROVE  \A k \in Socks : sk[k].st = "free" \/ Ages(sk[k], sk'[k])
<1>t. sk \in [Socks -> SockRec] /\ sk' \in [Socks -> SockRec]
  BY CallSockType DEF TypeOK
<1> SUFFICES ASSUME NEW j \in Socks, sk[j].st # "free" PROVE Ages(sk[j], sk'[j])
  OBVIOUS
<1>0. sk'[j] = sk[j] => Ages(sk[j], sk'[j])
  BY DEF Ages
<1>1. ASSUME NEW s \in Slots, NEW k \in Socks, lixOpenTcp(s, k) \/ lixOpenUdp(s, k)
      PROVE  Ages(sk[j], sk'[j])
  BY <1>0, <1>1, <1>t DEF lixOpenTcp, lixOpenUdp
<1>2. ASSUME NEW l \in Slots, NEW s \in Slots, NEW k \in Socks,
             lixAccept(l, s, k) \/ lixAcceptFull(l, k)
      PROVE  Ages(sk[j], sk'[j])
  <2>1. sk'[j] = IF j = node[l].sock THEN [sk[j] EXCEPT !.data = FALSE] ELSE sk[j]
    BY <1>2, <1>t DEF lixAccept, lixAcceptFull
  <2> QED
    BY <2>1, <1>t DEF Ages, SockRec
<1>3. ASSUME NEW s \in Slots, lixConnect(s) \/ lixListen(s)
      PROVE  Ages(sk[j], sk'[j])
  <2>1. CASE j = node[s].sock
    BY <1>3, <2>1, <1>t DEF lixConnect, lixListen, Ages, SockRec
  <2>2. CASE j # node[s].sock
    BY <1>0, <1>3, <2>2, <1>t DEF lixConnect, lixListen
  <2> QED
    BY <2>1, <2>2
<1>4. ASSUME NEW s \in Slots, lixTcpRecv(s) \/ lixShutdown(s) \/ lixClose(s)
      PROVE  Ages(sk[j], sk'[j])
  <2>1. CASE j = node[s].sock
    BY <1>4, <2>1, <1>t DEF lixTcpRecv, lixShutdown, lixClose, Ages, SockRec, NewSock
  <2>2. CASE j # node[s].sock
    BY <1>0, <1>4, <2>2, <1>t DEF lixTcpRecv, lixShutdown, lixClose
  <2> QED
    BY <2>1, <2>2
<1> QED
  BY <1>1, <1>2, <1>3, <1>4 DEF Call

(* What was told of a socket stays true while nothing is told. *)
LEMMA ToldKept ==
  ASSUME FreeUntold, CloseMeansPeer, ConnectMeansEstablished, told' = told,
         \A k \in Socks : sk[k].st = "free" \/ Ages(sk[k], sk'[k])
  PROVE  FreeUntold' /\ CloseMeansPeer' /\ ConnectMeansEstablished'
<1> SUFFICES ASSUME NEW k \in Socks
             PROVE  /\ sk'[k].st = "free" => told[k] = {}
                    /\ "close" \in told[k] => sk'[k].st \in {"failed", "closed"}
                                                \/ sk'[k].eof \/ sk'[k].late
                    /\ "connect" \in told[k] => sk'[k].st \in {"established", "closed"}
                                                  \/ "close" \in told[k]
  BY DEF FreeUntold, CloseMeansPeer, ConnectMeansEstablished
<1>1. CASE sk[k].st = "free"
  BY <1>1 DEF FreeUntold
<1>2. CASE Ages(sk[k], sk'[k])
  BY <1>2 DEF Ages, CloseMeansPeer, ConnectMeansEstablished
<1> QED
  BY <1>1, <1>2

(* A socket that its slot fits stays fit for it, whatever the peers do.     *)
LEMMA KernelFits ==
  ASSUME TypeOK, OneThread, Kernel, NEW s \in Slots, NEW k \in Socks, node[s].sock = k,
         Fits(node[s], sk[k])
  PROVE  Fits(node[s], sk'[k])
<1>t. sk \in [Socks -> SockRec]
  BY DEF TypeOK
<1>1. PICK j \in Socks : \/ ConnDone(j) \/ ConnFail(j) \/ PeerConnect(j)
                         \/ PeerSend(j) \/ PeerClose(j) \/ Expire(j)
  BY DEF Kernel
<1>2. CASE k # j
  BY <1>1, <1>2, <1>t DEF ConnDone, ConnFail, PeerConnect, PeerSend, PeerClose, Expire
<1>3. CASE k = j
  <2> DEFINE c == node[s]
  <2>0. "connect" \in c.liEv => ~PeerSend(k)
    BY DEF PeerSend, AwaitsConnect, OneThread
  <2> HIDE DEF c
  <2>1. CASE ConnDone(k) \/ ConnFail(k)
    <3>1. sk[k].st = "connecting" /\ sk'[k].st \in {"established", "failed"}
          /\ sk'[k].data = sk[k].data
      BY <2>1, <1>t DEF ConnDone, ConnFail, SockRec
    <3> QED
      BY <3>1 DEF Fits, Settled, Unused, Asking, Accepting, Reading
  <2>2. CASE PeerConnect(k)
    <3>1. sk[k].st = "listening" /\ sk'[k].st = "listening"
      BY <2>2, <1>t DEF PeerConnect, SockRec
    <3> QED
      BY <3>1 DEF Fits, Settled, Unused, Asking, Accepting, Reading
  <2>3. CASE PeerSend(k)
    <3>1. sk[k].st \in {"established", "udp"} /\ sk'[k].st = sk[k].st
      BY <2>3, <1>t DEF PeerSend, SockRec
    <3>2. Fits(c, sk[k]) => c.liEv = {"read", "close"} \/ "connect" \in c.liEv
      BY <3>1 DEF Fits, Settled, Unused, Asking, Accepting, Reading
    <3> QED
      BY <2>0, <2>3, <3>1, <3>2 DEF c, Fits, Settled, Unused, Asking, Accepting, Reading
  <2>4. CASE PeerClose(k) \/ Expire(k)
    <3>1. sk'[k].st = sk[k].st /\ sk'[k].data = sk[k].data
      BY <2>4, <1>t DEF PeerClose, Expire, SockRec
    <3> QED
      BY <3>1 DEF Fits, Settled, Unused, Asking, Accepting, Reading
  <2> QED
    BY <1>1, <1>3, <2>1, <2>2, <2>3, <2>4
<1> QED
  BY <1>2, <1>3

(* Nor does an answer of select() become untrue, or what a callback is      *)
(* about to write back.                                                     *)
LEMMA KernelReady ==
  ASSUME TypeOK, Kernel, NEW k \in Socks
  PROVE  /\ CanRead(sk[k]) => CanRead(sk'[k])
         /\ sk[k].st = "established" => sk'[k].st = "established"
         /\ \A c : Settled(c, sk[k]) => Settled(c, sk'[k])
         /\ \A c : Ended(c, sk[k]) => Ended(c, sk'[k])
<1>t. sk \in [Socks -> SockRec]
  BY DEF TypeOK
<1>1. PICK j \in Socks : \/ ConnDone(j) \/ ConnFail(j) \/ PeerConnect(j)
                         \/ PeerSend(j) \/ PeerClose(j) \/ Expire(j)
  BY DEF Kernel
<1>2. /\ sk'[k].st = sk[k].st \/ sk[k].st = "connecting"
      /\ sk[k].st = "connecting" => sk'[k].st \in {"connecting", "established", "failed"}
      /\ sk[k].data => sk'[k].data
      /\ sk[k].eof => sk'[k].eof
  <2>1. CASE k # j
    BY <1>1, <2>1, <1>t DEF ConnDone, ConnFail, PeerConnect, PeerSend, PeerClose, Expire
  <2>2. CASE k = j
    BY <1>1, <2>2, <1>t
       DEF ConnDone, ConnFail, PeerConnect, PeerSend, PeerClose, Expire, SockRec
  <2> QED
    BY <2>1, <2>2
<1>3. CanRead(sk[k]) => CanRead(sk'[k])
  BY <1>2 DEF CanRead
<1>4. \A c : Settled(c, sk[k]) => Settled(c, sk'[k])
  BY <1>2 DEF Settled, Accepting, Reading
<1>5. \A c : Ended(c, sk[k]) => Ended(c, sk'[k])
  BY <1>2 DEF Ended
<1> QED
  BY <1>2, <1>3, <1>4, <1>5

(* The kernel keeps the invariant. *)
LEMMA KernelOneThread ==
  ASSUME TypeOK, SocketsOwned, OneThread, OneThreadInv, Kernel
  PROVE  OneThreadInv'
<1>1. /\ UNCHANGED <<copy, pc, idx, nNum, rd, wr, ev>> /\ node' = node /\ told' = told
  BY DEF Kernel, ConnDone, ConnFail, PeerConnect, PeerSend, PeerClose, Expire,
         KernelOnly, selectVars
<1>2. Registered'
  <2> SUFFICES ASSUME NEW s \in Slots, node[s].valid
               PROVE  Holds(node[s], node[s].sock)'
    BY <1>1 DEF Registered, Holds, Over
  <2>1. node[s].sock \in Socks /\ Holds(node[s], node[s].sock)
    BY DEF SocketsOwned, OneThreadInv, Registered
  <2>2. Ended(node[s], sk[node[s].sock]) => Ended(node[s], sk'[node[s].sock])
    BY <2>1, KernelReady
  <2>3. Fits(node[s], sk[node[s].sock]) => Fits(node[s], sk'[node[s].sock])
    BY <2>1, KernelFits
  <2> QED
    BY <1>1, <2>1, <2>2, <2>3 DEF Holds, Over
<1>3. ToWalk' = ToWalk
  BY <1>1 DEF ToWalk
<1>4. CopyTrue' /\ Counted'
  BY <1>1, <1>3 DEF OneThreadInv, CopyTrue, Counted, Unseen
<1>5. StillReady'
  <2> SUFFICES ASSUME pc \in {"relock", "scan", "callback"}
               PROVE  /\ \A s \in ToWalk \cap (rd \cup wr) : copy[s].valid /\ ~copy[s].exc
                      /\ \A s \in ToWalk \cap rd : "R" \in copy[s].seli /\ CanRead(sk'[copy[s].sock])
                      /\ \A s \in ToWalk \cap wr : "W" \in copy[s].seli
                      /\ \A s \in ToWalk \cap (wr \ rd) : Connects(copy[s])'
    BY <1>1, <1>3 DEF StillReady, Connects
  <2>1. \A s \in ToWalk \cap (rd \cup wr) : copy[s].valid /\ copy[s].sock \in Socks
    <3>1. \A s \in ToWalk \cap (rd \cup wr) : copy[s].valid /\ node[s] = copy[s] /\ s \in Slots
      BY DEF OneThreadInv, StillReady, CopyTrue, ToWalk, TypeOK
    <3> QED
      BY <3>1 DEF SocketsOwned
  <2>2. \A s \in ToWalk \cap (wr \ rd) : Connects(copy[s])'
    BY <1>1, <2>1, KernelReady DEF OneThreadInv, StillReady, Connects
  <2> QED
    BY <2>1, <2>2, KernelReady DEF OneThreadInv, StillReady
<1>6. InCallback'
  <2> SUFFICES ASSUME pc = "callback", node[idx].valid,
                      node[idx].sock = ev.cur, Left(copy[idx], ev.cur)
               PROVE  Left(copy[idx], ev.cur)'
    BY <1>1 DEF InCallback, OneThreadInv, Left, Over
  <2>1. ev.cur \in Socks
    BY DEF SocketsOwned, TypeOK
  <2>2. /\ Settled(copy[idx], sk[ev.cur]) => Settled(copy[idx], sk'[ev.cur])
        /\ Ended(copy[idx], sk[ev.cur]) => Ended(copy[idx], sk'[ev.cur])
    BY <2>1, KernelReady
  <2> QED
    BY <1>1, <2>2 DEF Left, Over
<1>7. FreeUntold' /\ CloseMeansPeer' /\ ConnectMeansEstablished'
  BY <1>1, KernelAges, ToldKept DEF OneThreadInv
<1> QED
  BY <1>2, <1>4, <1>5, <1>6, <1>7 DEF OneThreadInv

(* A call leaves every registered slot fit for its socket, ...              *)
LEMMA CallRegistered ==
  ASSUME TypeOK, SocketsOwned, OneThread, Registered, Call
  PROVE  Registered'
<1>t. /\ node \in [Slots -> SlotRec] /\ sk \in [Socks -> SockRec]
  BY DEF TypeOK
<1>v. ASSUME NEW r \in Slots, node[r].valid
      PROVE  /\ node[r].sock \in Socks /\ sk[node[r].sock].st \notin {"free", "closed"}
             /\ Holds(node[r], node[r].sock)
             /\ \A s \in Slots : s # r /\ node[s].valid => node[s].sock # node[r].sock
  BY <1>v DEF SocketsOwned, Registered
<1>u. told' = told
  BY CallFrame
<1> SUFFICES ASSUME NEW r \in Slots, node'[r].valid
             PROVE  Holds(node[r], node[r].sock)'
  BY DEF Registered
<1> DEFINE Good == Holds(node[r], node[r].sock)'
<1>f. Fits(node'[r], sk'[node'[r].sock]) => Good
  BY DEF Holds
<1>o. Over(node[r], node[r].sock) /\ node'[r].sock = node[r].sock
        /\ Ended(node'[r], sk'[node[r].sock]) => Good
  BY <1>u DEF Holds, Over
<1> HIDE DEF Good
<1>0. ASSUME node'[r] = node[r], sk'[node[r].sock] = sk[node[r].sock], node[r].valid
      PROVE  Good
  BY <1>0, <1>v, <1>u DEF Good, Holds, Over
<1>1. ASSUME NEW s \in Slots, NEW k \in Socks, lixOpenTcp(s, k) \/ lixOpenUdp(s, k)
      PROVE  Good
  <2>1. lixOpenTcp(s, k)
    BY <1>1 DEF lixOpenUdp, MayCall, OneThread
  <2>2. CASE r = s
    <3>1. sk'[k] = NewSock("fresh") /\ node'[r].sock = k /\ ~node'[r].exc
          /\ node'[r].seli = {} /\ node'[r].liEv = {} /\ node'[r].st = "inited"
      BY <2>1, <2>2, <1>t DEF lixOpenTcp
    <3> QED
      BY <3>1, <1>f DEF Fits, Unused, NewSock
  <2>3. CASE r # s
    <3>1. node'[r] = node[r] /\ node[r].valid /\ sk[k].st = "free"
      BY <2>1, <2>3, <1>t DEF lixOpenTcp
    <3>2. sk'[node[r].sock] = sk[node[r].sock]
      BY <2>1, <3>1, <1>v, <1>t DEF lixOpenTcp
    <3> QED
      BY <1>0, <3>1, <3>2
  <2> QED
    BY <2>2, <2>3
<1>2. ASSUME NEW l \in Slots, NEW s \in Slots, NEW k \in Socks, lixAccept(l, s, k)
      PROVE  Good
  <2>1. CASE r = s
    <3>1. sk'[k] = NewSock("established") /\ node'[r].sock = k /\ ~node'[r].exc
          /\ node'[r].seli = {"R"} /\ node'[r].liEv = {"read", "close"}
      BY <1>2, <2>1, <1>t DEF lixAccept
    <3> QED
      BY <3>1, <1>f DEF Fits, Settled, Reading, NewSock
  <2>2. CASE r # s
    <3>1. node'[r] = node[r] /\ node[r].valid /\ sk[k].st = "free" /\ node[l].valid
          /\ sk[node[l].sock].st = "listening"
      BY <1>2, <2>2, <1>t DEF lixAccept
    <3>2. node[r].sock # k
      BY <3>1, <1>v
    <3>3. CASE r = l
      <4>1. sk'[node[r].sock].st = "listening" /\ node[r].sock \in Socks
        BY <1>2, <3>1, <3>2, <3>3, <1>v, <1>t DEF lixAccept, SockRec
      <4>2. Accepting(node[r], sk[node[r].sock]) /\ ~node[r].exc
        BY <3>1, <3>3, <1>v DEF Holds, Over, Ended, Fits, Settled, Unused, Asking, Accepting, Reading
      <4> QED
        BY <3>1, <4>1, <4>2, <1>f DEF Fits, Settled, Accepting
    <3>4. CASE r # l
      <4>1. node[r].sock # node[l].sock /\ node[r].sock \in Socks
        BY <3>1, <3>4, <1>v
      <4>2. sk'[node[r].sock] = sk[node[r].sock]
        BY <1>2, <3>2, <4>1, <1>t DEF lixAccept
      <4> QED
        BY <1>0, <3>1, <4>2
    <3> QED
      BY <3>3, <3>4
  <2> QED
    BY <2>1, <2>2
<1>3. ASSUME NEW l \in Slots, NEW k \in Socks, lixAcceptFull(l, k)
      PROVE  Good
  <2>1. node'[r] = node[r] /\ node[r].valid /\ sk[k].st = "free" /\ node[l].valid
        /\ sk[node[l].sock].st = "listening"
    BY <1>3 DEF lixAcceptFull
  <2>2. node[r].sock # k
    BY <2>1, <1>v
  <2>3. CASE r = l
    <3>1. sk'[node[r].sock].st = "listening" /\ node[r].sock \in Socks
      BY <1>3, <2>1, <2>2, <2>3, <1>v, <1>t DEF lixAcceptFull, SockRec
    <3>2. Accepting(node[r], sk[node[r].sock]) /\ ~node[r].exc
      BY <2>1, <2>3, <1>v DEF Holds, Over, Ended, Fits, Settled, Unused, Asking, Accepting, Reading
    <3> QED
      BY <2>1, <3>1, <3>2, <1>f DEF Fits, Settled, Accepting
  <2>4. CASE r # l
    <3>1. node[r].sock # node[l].sock /\ node[r].sock \in Socks
      BY <2>1, <2>4, <1>v
    <3>2. sk'[node[r].sock] = sk[node[r].sock]
      BY <1>3, <2>2, <3>1, <1>t DEF lixAcceptFull
    <3> QED
      BY <1>0, <2>1, <3>2
  <2> QED
    BY <2>3, <2>4
<1>4. ASSUME NEW s \in Slots,
             lixConnect(s) \/ lixListen(s) \/ lixTcpRecv(s) \/ lixShutdown(s) \/ lixClose(s),
             r # s
      PROVE  Good
  <2>1. node'[r] = node[r] /\ node[r].valid /\ node[s].valid
    BY <1>4, <1>t DEF lixConnect, lixListen, lixTcpRecv, lixShutdown, lixClose
  <2>2. node[r].sock # node[s].sock /\ node[r].sock \in Socks
    BY <1>4, <2>1, <1>v
  <2>3. sk'[node[r].sock] = sk[node[r].sock]
    BY <1>4, <2>2, <1>t DEF lixConnect, lixListen, lixTcpRecv, lixShutdown, lixClose
  <2> QED
    BY <1>0, <2>1, <2>3
<1>5. ASSUME lixConnect(r) PROVE Good
  <2>1. node[r].valid /\ sk[node[r].sock].st = "fresh"
    BY <1>5 DEF lixConnect
  <2>2. Unused(node[r], sk[node[r].sock]) /\ ~node[r].exc /\ node[r].sock \in Socks
    BY <2>1, <1>v DEF Holds, Over, Ended, Fits, Settled, Unused, Asking, Accepting, Reading
  <2>3. /\ node'[r].sock = node[r].sock /\ ~node'[r].exc
        /\ node'[r].seli = {"R", "W"} /\ node'[r].liEv = {"connect", "close"}
        /\ sk'[node[r].sock].st \in {"connecting", "established"}
        /\ sk'[node[r].sock].data = sk[node[r].sock].data
    BY <1>5, <2>2, <1>t DEF lixConnect, SlotRec, SockRec
  <2> QED
    BY <2>2, <2>3, <1>f DEF Fits, Unused, Asking
<1>6. ASSUME lixListen(r) PROVE Good
  <2>1. node[r].valid /\ sk[node[r].sock].st = "fresh"
    BY <1>6 DEF lixListen
  <2>2. ~node[r].exc /\ node[r].sock \in Socks
    BY <2>1, <1>v DEF Holds, Over, Ended, Fits, Settled
  <2>3. /\ node'[r].sock = node[r].sock /\ ~node'[r].exc
        /\ node'[r].seli = {"R"} /\ node'[r].liEv = {"accept"} /\ node'[r].st = "listening"
        /\ sk'[node[r].sock].st = "listening"
    BY <1>6, <2>2, <1>t DEF lixListen, SlotRec, SockRec
  <2> QED
    BY <2>3, <1>f DEF Fits, Settled, Accepting
<1>7. ASSUME lixTcpRecv(r) PROVE Good
  <2>1. node[r].valid /\ node'[r] = node[r] /\ node[r].sock \in Socks
        /\ Holds(node[r], node[r].sock)
    BY <1>7, <1>v DEF lixTcpRecv
  <2>2. sk'[node[r].sock].st = sk[node[r].sock].st /\ ~sk'[node[r].sock].data
    BY <1>7, <2>1, <1>t DEF lixTcpRecv, SockRec
  <2>3. CASE Fits(node[r], sk[node[r].sock])
    BY <2>1, <2>2, <2>3, <1>f DEF Fits, Settled, Unused, Asking, Accepting, Reading
  <2>4. CASE Over(node[r], node[r].sock)
    BY <2>1, <2>2, <2>4, <1>o DEF Over, Ended
  <2> QED
    BY <2>1, <2>3, <2>4 DEF Holds
<1>8. ASSUME lixShutdown(r) PROVE Good
  <2>1. /\ node[r].valid /\ node[r].sock \in Socks /\ Holds(node[r], node[r].sock)
        /\ sk[node[r].sock].st \in {"connecting", "established", "listening"}
        /\ node'[r].sock = node[r].sock /\ node'[r].exc = node[r].exc
        /\ node'[r].liEv = node[r].liEv /\ node'[r].seli = node[r].seli \ {"R"}
        /\ node'[r].st = "shutdowned"
    BY <1>8, <1>v, <1>t DEF lixShutdown, SlotRec
  <2>2. /\ sk[node[r].sock].st = "connecting" => sk'[node[r].sock].st = "failed"
        /\ sk[node[r].sock].st # "connecting" => sk'[node[r].sock].st = sk[node[r].sock].st
        /\ sk'[node[r].sock].data = sk[node[r].sock].data
    BY <1>8, <2>1, <1>t DEF lixShutdown, SockRec
  <2>3. CASE Fits(node[r], sk[node[r].sock])
    BY <2>1, <2>2, <2>3, <1>f DEF Fits, Settled, Unused, Asking, Accepting, Reading
  <2>4. CASE Over(node[r], node[r].sock)
    BY <2>1, <2>2, <2>4, <1>o DEF Over, Ended
  <2> QED
    BY <2>1, <2>3, <2>4 DEF Holds
<1>9. ASSUME lixClose(r) PROVE FALSE
  BY <1>9, <1>t DEF lixClose, EmptySlot
<1> QED
  BY <1>1, <1>2, <1>3, <1>4, <1>5, <1>6, <1>7, <1>8, <1>9 DEF Call, Good

(* ... and what a callback does to its own slot leaves all others alone.    *)
LEMMA CallbackCall ==
  ASSUME TypeOK, SocketsOwned, OneThread, InCallback, Call, pc = "callback"
  PROVE  /\ \A r \in Slots : r # idx /\ node[r].valid =>
              node'[r] = node[r] /\ sk'[node[r].sock] = sk[node[r].sock]
         /\ node'[idx].valid =>
              node'[idx] = node[idx] /\ sk'[node[idx].sock].st = sk[node[idx].sock].st
<1>t. /\ node \in [Slots -> SlotRec] /\ sk \in [Socks -> SockRec]
  BY DEF TypeOK
<1>v. ASSUME NEW r \in Slots, node[r].valid
      PROVE  /\ node[r].sock \in Socks /\ sk[node[r].sock].st \notin {"free", "closed"}
             /\ \A s \in Slots : s # r /\ node[s].valid => node[s].sock # node[r].sock
  BY <1>v DEF SocketsOwned
<1> DEFINE Good == /\ \A r \in Slots : r # idx /\ node[r].valid =>
                        node'[r] = node[r] /\ sk'[node[r].sock] = sk[node[r].sock]
                   /\ node'[idx].valid =>
                        node'[idx] = node[idx] /\ sk'[node[idx].sock].st = sk[node[idx].sock].st
<1>0. ev.slot = idx
  BY DEF InCallback
<1>1. ASSUME NEW s \in Slots, NEW k \in Socks, lixOpenTcp(s, k) \/ lixOpenUdp(s, k)
      PROVE  FALSE
  BY <1>1 DEF lixOpenTcp, lixOpenUdp, MayCall, OneThread
<1>2. ASSUME NEW l \in Slots, NEW s \in Slots, NEW k \in Socks, lixAccept(l, s, k)
      PROVE  Good
  <2>1. l = idx /\ node[l].valid /\ ~node[s].valid /\ sk[k].st = "free"
        /\ sk[node[l].sock].st = "listening"
    BY <1>0, <1>2 DEF lixAccept, MayCall, OneThread, IdleIndex
  <2>2. \A r \in Slots : node[r].valid => node'[r] = node[r]
    BY <1>2, <2>1, <1>t DEF lixAccept
  <2>3. \A r \in Slots : r # idx /\ node[r].valid => sk'[node[r].sock] = sk[node[r].sock]
    <3> SUFFICES ASSUME NEW r \in Slots, r # idx, node[r].valid
                 PROVE  sk'[node[r].sock] = sk[node[r].sock]
      OBVIOUS
    <3>1. node[r].sock # k /\ node[r].sock # node[l].sock /\ node[r].sock \in Socks
      BY <2>1, <1>v
    <3> QED
      BY <1>2, <3>1, <1>t DEF lixAccept
  <2>4. sk'[node[l].sock].st = sk[node[l].sock].st
    <3>1. node[l].sock # k /\ node[l].sock \in Socks
      BY <2>1, <1>v
    <3> QED
      BY <1>2, <3>1, <1>t DEF lixAccept, SockRec
  <2> QED
    BY <2>1, <2>2, <2>3, <2>4
<1>3. ASSUME NEW l \in Slots, NEW k \in Socks, lixAcceptFull(l, k)
      PROVE  Good
  <2>1. l = idx /\ node[l].valid /\ sk[k].st = "free" /\ node' = node
        /\ sk[node[l].sock].st = "listening"
    BY <1>0, <1>3 DEF lixAcceptFull, MayCall, OneThread
  <2>2. \A r \in Slots : r # idx /\ node[r].valid => sk'[node[r].sock] = sk[node[r].sock]
    <3> SUFFICES ASSUME NEW r \in Slots, r # idx, node[r].valid
                 PROVE  sk'[node[r].sock] = sk[node[r].sock]
      OBVIOUS
    <3>1. node[r].sock # k /\ node[r].sock # node[l].sock /\ node[r].sock \in Socks
      BY <2>1, <1>v
    <3> QED
      BY <1>3, <3>1, <1>t DEF lixAcceptFull
  <2>3. sk'[node[l].sock].st = sk[node[l].sock].st
    <3>1. node[l].sock # k /\ node[l].sock \in Socks
      BY <2>1, <1>v
    <3> QED
      BY <1>3, <3>1, <1>t DEF lixAcceptFull, SockRec
  <2> QED
    BY <2>1, <2>2, <2>3
<1>4. ASSUME NEW s \in Slots, lixConnect(s) \/ lixListen(s) \/ lixShutdown(s)
      PROVE  FALSE
  BY <1>4 DEF lixConnect, lixListen, lixShutdown, MayCall, OneThread
<1>5. ASSUME NEW s \in Slots, lixTcpRecv(s) \/ lixClose(s)
      PROVE  Good
  <2>1. s = idx /\ node[s].valid
    BY <1>0, <1>5 DEF lixTcpRecv, lixClose, MayCall, OneThread
  <2>2. \A r \in Slots : r # idx => node'[r] = node[r]
    BY <1>5, <2>1, <1>t DEF lixTcpRecv, lixClose
  <2>3. \A r \in Slots : r # idx /\ node[r].valid => sk'[node[r].sock] = sk[node[r].sock]
    <3> SUFFICES ASSUME NEW r \in Slots, r # idx, node[r].valid
                 PROVE  sk'[node[r].sock] = sk[node[r].sock]
      OBVIOUS
    <3>1. node[r].sock # node[s].sock /\ node[r].sock \in Socks
      BY <2>1, <1>v
    <3> QED
      BY <1>5, <3>1, <1>t DEF lixTcpRecv, lixClose
  <2>4. CASE lixTcpRecv(s)
    <3>1. node' = node /\ node[s].sock \in Socks
      BY <2>1, <2>4, <1>v DEF lixTcpRecv
    <3>2. sk'[node[s].sock].st = sk[node[s].sock].st
      BY <2>4, <3>1, <1>t DEF lixTcpRecv, SockRec
    <3> QED
      BY <2>1, <2>3, <3>1, <3>2
  <2>5. CASE lixClose(s)
    BY <2>1, <2>2, <2>3, <2>5, <1>t DEF lixClose, EmptySlot
  <2> QED
    BY <1>5, <2>4, <2>5
<1> QED
  BY <1>1, <1>2, <1>3, <1>4, <1>5 DEF Call

(* Every call keeps the invariant: other threads make none, and the owner   *)
(* calls when no walk is under way.                                         *)
LEMMA CallOneThread ==
  ASSUME TypeOK, SocketsOwned, OneThread, OneThreadInv, Call
  PROVE  OneThreadInv'
<1>1. UNCHANGED <<copy, pc, idx, nNum, rd, wr, ev>> /\ told' = told
  BY CallFrame DEF selectVars
<1>2. Registered'
  BY CallRegistered DEF OneThreadInv
<1>3. FreeUntold' /\ CloseMeansPeer' /\ ConnectMeansEstablished'
  BY <1>1, CallAges, ToldKept DEF OneThreadInv
<1>4. ToWalk' = ToWalk
  BY <1>1 DEF ToWalk
<1>5. Counted'
  BY <1>1, <1>4 DEF OneThreadInv, Counted, Unseen
<1>6. pc \in {"idle", "callback"}
  BY CallFrame DEF OneThread
<1>7. CASE pc = "idle"
  BY <1>1, <1>2, <1>3, <1>5, <1>7
     DEF OneThreadInv, CopyTrue, StillReady, InCallback, ToWalk
<1>8. CASE pc = "callback"
  <2>1. ToWalk = {s \in Slots : s > idx} /\ idx \in Slots
    BY <1>8 DEF ToWalk, TypeOK
  <2>2. \A s \in ToWalk : s \in Slots /\ s # idx
    BY <2>1 DEF Slots
  <2>3. \A r \in Slots : r # idx /\ node[r].valid =>
          node'[r] = node[r] /\ sk'[node[r].sock] = sk[node[r].sock]
    BY <1>8, CallbackCall DEF OneThreadInv
  <2>4. CopyTrue'
    <3> SUFFICES ASSUME NEW s \in ToWalk, copy[s].valid PROVE node'[s] = copy[s]
      BY <1>1, <1>4 DEF CopyTrue
    <3>1. node[s] = copy[s]
      BY DEF OneThreadInv, CopyTrue
    <3> QED
      BY <2>2, <2>3, <3>1
  <2>5. StillReady'
    <3>1. \A s \in ToWalk \cap (rd \cup wr) :
            copy[s].valid /\ sk'[copy[s].sock] = sk[copy[s].sock]
      <4> SUFFICES ASSUME NEW s \in ToWalk \cap (rd \cup wr)
                   PROVE  copy[s].valid /\ sk'[copy[s].sock] = sk[copy[s].sock]
        OBVIOUS
      <4>1. copy[s].valid /\ node[s] = copy[s]
        BY <1>8 DEF OneThreadInv, StillReady, CopyTrue
      <4> QED
        BY <2>2, <2>3, <4>1
    <3> QED
      BY <1>1, <1>4, <1>8, <3>1 DEF OneThreadInv, StillReady, Connects
  <2>6. InCallback'
    <3>1. /\ ev.slot = idx
          /\ node[idx].valid => node[idx].sock = ev.cur /\ Left(copy[idx], ev.cur)
      BY <1>8 DEF OneThreadInv, InCallback
    <3>2. node'[idx].valid =>
            node'[idx] = node[idx] /\ sk'[node[idx].sock].st = sk[node[idx].sock].st
      BY <1>8, CallbackCall DEF OneThreadInv
    <3> QED
      BY <1>1, <3>1, <3>2 DEF InCallback, Left, Over, Ended, Settled, Accepting, Reading
  <2> QED
    BY <1>2, <1>3, <1>5, <2>4, <2>5, <2>6 DEF OneThreadInv
<1> QED
  BY <1>6, <1>7, <1>8

(* What is left to see without one slot. *)
LEMMA UnseenDrop ==
  ASSUME TypeOK, NEW S \in SUBSET Slots, NEW s \in S
  PROVE  /\ Unseen(S) \in Nat /\ Unseen(S \ {s}) \in Nat
         /\ Unseen(S) = Unseen(S \ {s}) + (IF s \in rd THEN 1 ELSE 0)
                                        + (IF s \in wr THEN 1 ELSE 0)
<1>1. ASSUME NEW r \in SUBSET Slots
      PROVE  /\ Cardinality(r \cap S) \in Nat /\ Cardinality(r \cap (S \ {s})) \in Nat
             /\ Cardinality(r \cap S) = Cardinality(r \cap (S \ {s})) + (IF s \in r THEN 1 ELSE 0)
  <2>1. IsFiniteSet(r \cap S) /\ Cardinality(r \cap S) \in Nat
        /\ Cardinality(r \cap (S \ {s})) \in Nat
    <3>1. r \cap S \in SUBSET Slots /\ r \cap (S \ {s}) \in SUBSET Slots
      OBVIOUS
    <3> QED
      BY <3>1, SlotsFinite
  <2>2. CASE s \notin r
    <3>1. r \cap (S \ {s}) = r \cap S
      BY <2>2
    <3> QED
      BY <2>1, <2>2, <3>1
  <2>3. CASE s \in r
    <3>1. r \cap (S \ {s}) = (r \cap S) \ {s} /\ s \in r \cap S
      BY <2>3
    <3>2. Cardinality((r \cap S) \ {s}) = Cardinality(r \cap S) - 1
      BY <2>1, <3>1, FS_RemoveElement
    <3> QED
      BY <2>1, <2>3, <3>1, <3>2
  <2> QED
    BY <2>2, <2>3
<1>2. rd \in SUBSET Slots /\ wr \in SUBSET Slots
  BY DEF TypeOK
<1> QED
  BY <1>1, <1>2 DEF Unseen

(* The slots behind s, which the walk comes to after it. *)
Rest(s) == {r \in Slots : r > s}

(* Their relation to s and to the end of the table. *)
LEMMA RestFacts ==
  ASSUME NEW s \in Slots
  PROVE  /\ {r \in Slots : r >= s} \ {s} = Rest(s) /\ s \in {r \in Slots : r >= s}
         /\ s # NumSlots - 1 => s + 1 \in Slots /\ {r \in Slots : r >= s + 1} = Rest(s)
         /\ s = NumSlots - 1 => Rest(s) = {}
BY ConstantsAssumption DEF Rest, Slots

(* With nothing left to walk nothing is left to see. *)
LEMMA UnseenNone == Unseen({}) = 0
<1>1. rd \cap {} = {} /\ wr \cap {} = {}
  OBVIOUS
<1>2. Cardinality({}) = 0
  BY FS_EmptySet, Zenon
<1> QED
  BY <1>1, <1>2 DEF Unseen

(* An iteration that leaves the slots behind s alone and the right count    *)
(* in nNum ends well, whether the walk goes on or not.                      *)
LEMMA IterationEnd ==
  ASSUME TypeOK, CopyTrue, StillReady, NEW s \in Slots, idx = s,
         pc \in {"scan", "callback"},
         \A r \in Slots : r # s => node'[r] = node[r],
         nNum' = Unseen(Rest(s)), UNCHANGED <<copy, rd, wr, sk, told>>,
         \/ pc' = "done" /\ (nNum' = 0 \/ s = NumSlots - 1)
         \/ pc' = "scan" /\ idx' = s + 1 /\ s # NumSlots - 1
  PROVE  CopyTrue' /\ StillReady' /\ Counted' /\ InCallback'
<1>1. Rest(s) \subseteq ToWalk /\ s \notin Rest(s)
  BY DEF Rest, ToWalk, Slots
<1>2. Unseen(Rest(s))' = Unseen(Rest(s))
  BY DEF Unseen, Rest
<1>3. CASE pc' = "done"
  <2>1. nNum' = 0
    BY <1>3, RestFacts, UnseenNone
  <2>2. ToWalk' = {}
    BY <1>3 DEF ToWalk
  <2> QED
    BY <1>3, <2>1, <2>2 DEF CopyTrue, StillReady, Counted, InCallback
<1>4. CASE pc' = "scan" /\ idx' = s + 1 /\ s # NumSlots - 1
  <2>1. ToWalk' = Rest(s)
    BY <1>4, RestFacts DEF ToWalk
  <2>2. \A r \in Rest(s) : r \in Slots /\ r # s /\ r \in ToWalk
    BY <1>1 DEF Rest
  <2>3. CopyTrue'
    <3> SUFFICES ASSUME NEW r \in Rest(s), copy[r].valid PROVE node'[r] = copy[r]
      BY <2>1 DEF CopyTrue
    <3> QED
      BY <2>2 DEF CopyTrue
  <2>4. StillReady'
    <3> SUFFICES /\ \A r \in Rest(s) \cap (rd \cup wr) : copy[r].valid /\ ~copy[r].exc
                 /\ \A r \in Rest(s) \cap rd : "R" \in copy[r].seli /\ CanRead(sk[copy[r].sock])
                 /\ \A r \in Rest(s) \cap wr : "W" \in copy[r].seli
                 /\ \A r \in Rest(s) \cap (wr \ rd) : Connects(copy[r])
      BY <2>1 DEF StillReady, Connects
    <3> QED
      BY <2>2 DEF StillReady
  <2>5. nNum' = Unseen(ToWalk)'
    BY <1>2, <2>1 DEF Unseen
  <2> QED
    BY <1>4, <2>3, <2>4, <2>5 DEF Counted, InCallback
<1> QED
  BY <1>3, <1>4

(* Advance gives IterationEnd what it needs. *)
LEMMA AdvanceMoves ==
  ASSUME NEW s \in Slots, NEW n, Advance(s, n), nNum' = n
  PROVE  \/ pc' = "done" /\ (nNum' = 0 \/ s = NumSlots - 1)
         \/ pc' = "scan" /\ idx' = s + 1 /\ s # NumSlots - 1
BY DEF Advance

(* Where the walk stands before a slot it looks at. *)
LEMMA AtSlot ==
  ASSUME TypeOK, SocketsOwned, OneThreadInv, NEW s \in Slots, pc = "scan", idx = s
  PROVE  /\ ToWalk = {r \in Slots : r >= s} /\ s \in ToWalk
         /\ Unseen(Rest(s)) \in Nat
         /\ nNum = Unseen(Rest(s)) + (IF s \in rd THEN 1 ELSE 0) + (IF s \in wr THEN 1 ELSE 0)
         /\ copy[s].valid =>
              /\ node[s] = copy[s] /\ node[s].sock \in Socks
              /\ sk[node[s].sock].st \notin {"free", "closed"}
              /\ Holds(copy[s], node[s].sock)
         /\ ~copy[s].valid \/ copy[s].exc => s \notin rd \cup wr
<1>1. ToWalk = {r \in Slots : r >= s} /\ s \in ToWalk
  BY RestFacts DEF ToWalk
<1>2. ToWalk \in SUBSET Slots /\ ToWalk \ {s} = Rest(s) /\ nNum = Unseen(ToWalk)
  BY <1>1, RestFacts DEF OneThreadInv, Counted
<1>3. /\ Unseen(Rest(s)) \in Nat
      /\ nNum = Unseen(Rest(s)) + (IF s \in rd THEN 1 ELSE 0) + (IF s \in wr THEN 1 ELSE 0)
  BY <1>1, <1>2, UnseenDrop
<1>4. copy[s].valid =>
              /\ node[s] = copy[s] /\ node[s].sock \in Socks
              /\ sk[node[s].sock].st \notin {"free", "closed"}
              /\ Holds(copy[s], node[s].sock)
  BY <1>1 DEF OneThreadInv, CopyTrue, Registered, SocketsOwned
<1>5. ~copy[s].valid \/ copy[s].exc => s \notin rd \cup wr
  BY <1>1 DEF OneThreadInv, StillReady
<1> QED
  BY <1>1, <1>3, <1>4, <1>5

(* A slot the walk finds nothing for. *)
LEMMA PassOneThread ==
  ASSUME TypeOK, SocketsOwned, OneThreadInv, NEW s \in Slots, NEW n,
         ScanEnter(s), Pass(s, n), n = Unseen(Rest(s))
  PROVE  OneThreadInv'
<1>1. pc = "scan" /\ idx = s /\ copy[s].valid
  BY DEF ScanEnter, NotWatched
<1>2. node[s] = copy[s]
  BY <1>1, AtSlot
<1>3. node' = node
  <2>1. node \in [Slots -> SlotRec] /\ node[s] \in SlotRec
    BY DEF TypeOK
  <2>2. [node[s] EXCEPT !.exc = copy[s].exc, !.liEv = copy[s].liEv,
                        !.st = copy[s].st, !.seli = copy[s].seli] = node[s]
    BY <1>2, <2>1 DEF SlotRec
  <2>3. node' = [node EXCEPT ![s] = node[s]]
    BY <2>2 DEF Pass, WriteBack
  <2> QED
    BY <2>1, <2>3
<1>4. nNum' = n /\ UNCHANGED <<copy, rd, wr, sk, told>> /\ Advance(s, n)
  BY DEF Pass
<1>5. CopyTrue' /\ StillReady' /\ Counted' /\ InCallback'
  BY <1>1, <1>3, <1>4, AdvanceMoves, IterationEnd DEF OneThreadInv
<1> QED
  BY <1>3, <1>4, <1>5
     DEF OneThreadInv, Registered, Holds, Over, FreeUntold, CloseMeansPeer,
         ConnectMeansEstablished

(* A slot the walk calls back for: the event is true of the socket, and     *)
(* what will be written back fits it.                                       *)
LEMMA DeliverOneThread ==
  ASSUME TypeOK, SocketsOwned, OneThreadInv, NEW s \in Slots, NEW e, NEW c, NEW n,
         ScanEnter(s), Deliver(s, e, c, n), n = Unseen(Rest(s)),
         e # "close" => Left(c, node[s].sock),
         e = "close" => /\ Ended(c, sk[node[s].sock])
                        /\ \/ sk[node[s].sock].st = "failed"
                           \/ sk[node[s].sock].eof \/ sk[node[s].sock].late,
         e = "connect" => Connects(copy[s]) /\ copy[s].st = "connecting"
  PROVE  OneThreadInv'
<1>1. pc = "scan" /\ idx = s /\ copy[s].valid
  BY DEF ScanEnter, NotWatched
<1>2. /\ node[s].sock \in Socks /\ sk[node[s].sock].st \notin {"free", "closed"}
      /\ ToWalk = {r \in Slots : r >= s} /\ copy[s].sock = node[s].sock
  BY <1>1, AtSlot
<1>3. /\ node' = node /\ sk' = sk /\ rd' = rd /\ wr' = wr /\ idx' = s /\ nNum' = n
      /\ pc' = "callback" /\ ev'.slot = s /\ ev'.event = e /\ ev'.cur = node[s].sock
      /\ copy'[s] = c /\ \A r \in Slots : r # s => copy'[r] = copy[r]
      /\ \A k \in Socks : k # node[s].sock => told'[k] = told[k]
      /\ told'[node[s].sock] = told[node[s].sock] \cup ({e} \cap {"connect", "close"})
  BY <1>1, <1>2 DEF Deliver, TypeOK
<1>4. ToWalk' = Rest(s)
  BY <1>3 DEF ToWalk, Rest
<1>5. \A r \in Rest(s) : r \in Slots /\ r # s /\ r \in ToWalk /\ copy'[r] = copy[r]
  BY <1>2, <1>3 DEF Rest, Slots
<1>g. \A k \in Socks : "close" \in told[k] => "close" \in told'[k]
  BY <1>3
<1>6. Registered'
  BY <1>3, <1>g DEF OneThreadInv, Registered, Holds, Over, SocketsOwned
<1>7. CopyTrue'
  BY <1>3, <1>4, <1>5 DEF OneThreadInv, CopyTrue
<1>8. StillReady'
  <2> SUFFICES /\ \A r \in Rest(s) \cap (rd \cup wr) : copy'[r].valid /\ ~copy'[r].exc
               /\ \A r \in Rest(s) \cap rd : "R" \in copy'[r].seli /\ CanRead(sk[copy'[r].sock])
               /\ \A r \in Rest(s) \cap wr : "W" \in copy'[r].seli
               /\ \A r \in Rest(s) \cap (wr \ rd) : Connects(copy[r])'
    BY <1>3, <1>4 DEF StillReady, Connects
  <2>1. /\ \A r \in ToWalk \cap (rd \cup wr) : copy[r].valid /\ ~copy[r].exc
        /\ \A r \in ToWalk \cap rd : "R" \in copy[r].seli /\ CanRead(sk[copy[r].sock])
        /\ \A r \in ToWalk \cap wr : "W" \in copy[r].seli
        /\ \A r \in ToWalk \cap (wr \ rd) : Connects(copy[r])
    BY <1>1 DEF OneThreadInv, StillReady
  <2>2. \A r \in Rest(s) \cap (wr \ rd) : copy[r].sock \in Socks
    BY <1>5, <2>1 DEF OneThreadInv, CopyTrue, SocketsOwned
  <2> QED
    BY <1>3, <1>5, <1>g, <2>1, <2>2 DEF Connects
<1>9. Counted'
  BY <1>3, <1>4 DEF Counted, Unseen
<1>10. InCallback'
  BY <1>2, <1>3, <1>g DEF InCallback, Left, Over
<1>11. FreeUntold' /\ CloseMeansPeer' /\ ConnectMeansEstablished'
  <2> SUFFICES ASSUME NEW k \in Socks
               PROVE  /\ sk[k].st = "free" => told'[k] = {}
                      /\ "close" \in told'[k] => sk[k].st \in {"failed", "closed"}
                                                  \/ sk[k].eof \/ sk[k].late
                      /\ "connect" \in told'[k] => sk[k].st \in {"established", "closed"}
                                                     \/ "close" \in told'[k]
    BY <1>3 DEF FreeUntold, CloseMeansPeer, ConnectMeansEstablished
  <2>1. /\ sk[k].st = "free" => told[k] = {}
        /\ "close" \in told[k] => sk[k].st \in {"failed", "closed"}
                                    \/ sk[k].eof \/ sk[k].late
        /\ "connect" \in told[k] => sk[k].st \in {"established", "closed"}
                                      \/ "close" \in told[k]
    BY DEF OneThreadInv, FreeUntold, CloseMeansPeer, ConnectMeansEstablished
  <2>2. CASE k # node[s].sock
    BY <1>3, <2>1, <2>2
  <2>3. CASE k = node[s].sock
    BY <1>2, <1>3, <2>1, <2>3 DEF Connects
  <2> QED
    BY <2>2, <2>3
<1> QED
  BY <1>6, <1>7, <1>8, <1>9, <1>10, <1>11 DEF OneThreadInv

(* What the read set means: the peer wrote, closed or connected.            *)
LEMMA ReadEventTrue ==
  ASSUME NEW c, NEW q, NEW k, q = sk[k], c.sock = k, Fits(c, q), CanRead(q), "R" \in c.seli
  PROVE  \/ ReadEvent(c) \in {"read", "accept"} /\ Settled(c, q) /\ "W" \notin c.seli
         \/ ReadEvent(c) = "close" /\ (q.st = "failed" \/ q.eof)
            /\ q.st \in {"connecting", "established", "failed"}
            /\ c.liEv \in {{"connect", "close"}, {"read", "close"}}
<1>1. HasBytes(c.sock) <=> q.data /\ q.st # "listening"
  BY DEF HasBytes
<1>2. CASE Unused(c, q)
  BY <1>2 DEF Unused
<1>3. CASE Asking(c, q)
  BY <1>1, <1>3 DEF Asking, CanRead, ReadEvent
<1>4. CASE Settled(c, q) /\ Accepting(c, q)
  BY <1>1, <1>4 DEF Accepting, ReadEvent
<1>5. CASE Settled(c, q) /\ Reading(c, q)
  BY <1>1, <1>5 DEF Reading, CanRead, ReadEvent
<1> QED
  BY <1>2, <1>3, <1>4, <1>5 DEF Fits, Settled

(* An assert that fails ends the walk. *)
LEMMA AbortOneThread ==
  ASSUME OneThreadInv, AssertFails
  PROVE  OneThreadInv'
<1>1. ToWalk' = {} /\ pc' = "aborted" /\ UNCHANGED <<node, copy, sk, told>>
  BY DEF AssertFails, ToWalk
<1> QED
  BY <1>1
     DEF OneThreadInv, Registered, Holds, Over, CopyTrue, StillReady, Counted, InCallback,
         FreeUntold, CloseMeansPeer, ConnectMeansEstablished

(* Every branch of the walk keeps the invariant. *)
LEMMA ScanOneThread ==
  ASSUME TypeOK, SocketsOwned, OneThreadInv, Scan
  PROVE  OneThreadInv'
<1>1. PICK s \in Slots : \/ ScanSkip(s) \/ ScanTimeout(s) \/ ScanReadable(s)
                         \/ ScanWritable(s) \/ ScanQuiet(s)
  BY DEF Scan
<1>2. pc = "scan" /\ idx = s
  BY <1>1 DEF ScanSkip, ScanTimeout, ScanReadable, ScanWritable, ScanQuiet, ScanEnter
<1> DEFINE k == node[s].sock
           rest == Unseen(Rest(s))
<1>3. /\ rest \in Nat
      /\ nNum = rest + (IF s \in rd THEN 1 ELSE 0) + (IF s \in wr THEN 1 ELSE 0)
      /\ s \in ToWalk
      /\ ~copy[s].valid \/ copy[s].exc => s \notin rd \cup wr
  BY <1>2, AtSlot
<1>4. copy[s].valid =>
        node[s] = copy[s] /\ k \in Socks /\ Holds(copy[s], k) /\ copy[s].sock = k
  BY <1>2, AtSlot
<1>5. /\ s \in rd \cup wr => copy[s].valid /\ ~copy[s].exc
      /\ s \in rd => "R" \in copy[s].seli /\ CanRead(sk[copy[s].sock])
      /\ s \in wr => "W" \in copy[s].seli
      /\ s \in wr /\ s \notin rd => Connects(copy[s])
  BY <1>2, <1>3 DEF OneThreadInv, StillReady
<1>6. CASE ScanSkip(s)
  <2>1. ~copy[s].valid \/ copy[s].exc
    BY <1>4, <1>6 DEF ScanSkip, NotWatched, SocketChanged
  <2>2. nNum = rest
    BY <1>3, <2>1
  <2>3. /\ node' = node /\ nNum' = nNum /\ UNCHANGED <<copy, rd, wr, sk, told>>
        /\ \/ pc' = "done" /\ s = NumSlots - 1
           \/ pc' = "scan" /\ idx' = s + 1 /\ s # NumSlots - 1
    BY <1>6 DEF ScanSkip
  <2>4. CopyTrue' /\ StillReady' /\ Counted' /\ InCallback'
    BY <1>2, <2>2, <2>3, IterationEnd DEF OneThreadInv
  <2> QED
    BY <2>3, <2>4
       DEF OneThreadInv, Registered, Holds, Over, FreeUntold, CloseMeansPeer,
           ConnectMeansEstablished
<1>k. /\ copy[s] \in SlotRec
      /\ "close" \in told[k] /\ k \in Socks /\ sk[k].st \notin {"free", "closed"} =>
           sk[k].st = "failed" \/ sk[k].eof \/ sk[k].late
  BY DEF TypeOK, OneThreadInv, CloseMeansPeer
<1>s. copy[s].valid => sk[k].st \notin {"free", "closed"}
  BY <1>2, AtSlot
<1>7. CASE ScanTimeout(s)
  <2>1. ScanEnter(s) /\ nNum = 0 /\ rest = 0
    BY <1>3, <1>7 DEF ScanTimeout
  <2>2. copy[s].valid
    BY <2>1 DEF ScanEnter, NotWatched
  <2>3. CASE copy[s].st = "connecting" /\ sk[copy[s].sock].late
    <3>1. Deliver(s, "close", [copy[s] EXCEPT !.exc = TRUE], 0) /\ sk[k].late
      BY <1>4, <1>7, <2>2, <2>3 DEF ScanTimeout
    <3>2. [copy[s] EXCEPT !.exc = TRUE].exc
      BY <1>k DEF SlotRec
    <3>3. sk[k].st \in {"connecting", "established", "failed"}
      BY <1>4, <2>2, <2>3
         DEF Holds, Over, Ended, Fits, Settled, Unused, Asking, Accepting, Reading
    <3>4. Ended([copy[s] EXCEPT !.exc = TRUE], sk[k])
      BY <3>2, <3>3 DEF Ended
    <3> QED
      BY <2>1, <3>1, <3>4, DeliverOneThread
  <2>4. CASE ~(copy[s].st = "connecting" /\ sk[copy[s].sock].late)
    <3>1. Pass(s, 0)
      BY <1>7, <2>4 DEF ScanTimeout
    <3> QED
      BY <2>1, <3>1, PassOneThread
  <2> QED
    BY <2>3, <2>4
<1>8. CASE ScanReadable(s)
  <2> DEFINE e == ReadEvent(copy[s])
             c == [copy[s] EXCEPT !.seli = @ \ {"R"}]
  <2>1. ScanEnter(s) /\ s \in rd /\ copy[s].valid /\ ~copy[s].exc
    BY <1>5, <1>8 DEF ScanReadable
  <2>2. /\ c.exc = copy[s].exc /\ c.liEv = copy[s].liEv
        /\ c.seli = copy[s].seli \ {"R"} /\ copy[s].seli \in SUBSET {"R", "W"}
    BY <1>k DEF SlotRec
  <2>3. e \in {"read", "accept", "close", "none"}
    BY DEF ReadEvent
  <2>5. /\ e # "close" => Left(copy[s], k) /\ s \notin wr
        /\ e = "close" => /\ sk[k].st = "failed" \/ sk[k].eof \/ sk[k].late
                          /\ sk[k].st \in {"connecting", "established", "failed"}
                          /\ copy[s].liEv \in {{"connect", "close"}, {"read", "close"}}
    <3>1. CASE Fits(copy[s], sk[k])
      <4>1. \/ e \in {"read", "accept"} /\ Settled(copy[s], sk[k]) /\ "W" \notin copy[s].seli
            \/ e = "close" /\ (sk[k].st = "failed" \/ sk[k].eof)
               /\ sk[k].st \in {"connecting", "established", "failed"}
               /\ copy[s].liEv \in {{"connect", "close"}, {"read", "close"}}
        BY <1>4, <1>5, <2>1, <3>1, ReadEventTrue
      <4> QED
        BY <1>5, <4>1 DEF Left
    <3>2. CASE Over(copy[s], k)
      <4>1. s \notin wr
        BY <1>5, <2>1, <2>2, <3>2 DEF Over, Ended
      <4> QED
        BY <1>k, <1>s, <1>4, <2>1, <3>2, <4>1 DEF Left, Over, Ended
    <3> QED
      BY <1>4, <2>1, <3>1, <3>2 DEF Holds
  <2>6. CASE e \in {"read", "accept"}
    <3>1. Left(copy[s], k) /\ nNum - 1 = rest
      BY <1>3, <2>1, <2>5, <2>6
    <3>2. Deliver(s, e, copy[s], nNum - 1)
      BY <1>8, <2>6 DEF ScanReadable
    <3> HIDE DEF e
    <3> QED
      BY <2>1, <2>6, <3>1, <3>2, DeliverOneThread
  <2>7. CASE e = "close"
    <3>1. (IF s \in wr THEN nNum - 2 ELSE nNum - 1) = rest
      BY <1>3, <2>1
    <3>2. Deliver(s, "close", c, IF s \in wr THEN nNum - 2 ELSE nNum - 1)
      BY <1>8, <2>7 DEF ScanReadable
    <3>3. Ended(c, sk[k])
      BY <2>2, <2>5, <2>7 DEF Ended
    <3> HIDE DEF c
    <3> QED
      BY <2>1, <2>5, <2>7, <3>1, <3>2, <3>3, DeliverOneThread
  <2>8. CASE e = "none"
    <3>1. Pass(s, nNum - 1) /\ nNum - 1 = rest
      BY <1>3, <1>8, <2>1, <2>5, <2>8 DEF ScanReadable
    <3> QED
      BY <2>1, <3>1, PassOneThread
  <2> QED
    BY <2>3, <2>6, <2>7, <2>8
<1>9. CASE ScanWritable(s)
  <2> DEFINE e == WriteEvent(copy[s])
             c == [copy[s] EXCEPT !.seli = {"R"}, !.liEv = {"read", "close"},
                                  !.st = "available"]
  <2>1. /\ ScanEnter(s) /\ s \notin rd /\ s \in wr /\ copy[s].valid /\ ~copy[s].exc
        /\ nNum - 1 = rest
    BY <1>3, <1>5, <1>9 DEF ScanWritable
  <2>2. Asking(copy[s], sk[k]) \/ Over(copy[s], k)
    BY <1>4, <1>5, <2>1 DEF Holds, Fits, Settled, Unused, Accepting, Reading
  <2>3. e # "write"
    BY <2>1, <2>2 DEF Asking, Over, Ended, WriteEvent
  <2>4. CASE e = "none"
    BY <1>9, <2>1, <2>4, PassOneThread DEF ScanWritable
  <2>5. CASE e = "connect" /\ copy[s].st # "connecting"
    BY <1>9, <2>5, AbortOneThread DEF ScanWritable
  <2>6. CASE e = "connect" /\ copy[s].st = "connecting"
    <3>1. Deliver(s, "connect", c, nNum - 1)
      BY <1>9, <2>6 DEF ScanWritable
    <3>2. c.seli = {"R"} /\ c.liEv = {"read", "close"} /\ c.exc = copy[s].exc
      BY <1>k DEF SlotRec
    <3>3. Connects(copy[s]) /\ copy[s].sock = k
      BY <1>4, <1>5, <2>1
    <3>4. sk[k].st = "established" \/ Over(c, k)
      BY <2>2, <2>6, <3>2, <3>3 DEF Connects, Asking, Over, Ended
    <3> HIDE DEF c
    <3>5. Left(c, k)
      BY <2>1, <3>2, <3>4 DEF Left, Settled, Reading
    <3> QED
      BY <2>1, <2>6, <3>1, <3>3, <3>5, DeliverOneThread
  <2> QED
    BY <2>3, <2>4, <2>5, <2>6 DEF WriteEvent
<1>10. CASE ScanQuiet(s)
  <2>1. ScanEnter(s) /\ Pass(s, nNum) /\ nNum = rest
    BY <1>3, <1>10 DEF ScanQuiet
  <2> QED
    BY <2>1, PassOneThread
<1> QED
  BY <1>1, <1>6, <1>7, <1>8, <1>9, <1>10

(* So does the return of a callback, which writes back what fits. *)
LEMMA ReturnOneThread ==
  ASSUME TypeOK, SocketsOwned, OneThread, OneThreadInv, CallbackReturn
  PROVE  OneThreadInv'
<1> DEFINE s == ev.slot
<1>1. pc = "callback" /\ s = idx /\ s \in Slots
  BY DEF CallbackReturn, OneThreadInv, InCallback, TypeOK
<1>2. /\ WriteBack(s, copy[s]) /\ Advance(s, nNum) /\ nNum' = nNum
      /\ UNCHANGED <<copy, rd, wr, sk, told>>
  BY DEF CallbackReturn
<1>3. ToWalk = Rest(s) /\ nNum = Unseen(Rest(s))
  BY <1>1 DEF ToWalk, Rest, OneThreadInv, Counted
<1>4. /\ \A r \in Slots : r # s => node'[r] = node[r]
      /\ node'[s].valid = node[s].valid /\ node'[s].sock = node[s].sock
      /\ node'[s].exc = copy[s].exc /\ node'[s].liEv = copy[s].liEv
      /\ node'[s].st = copy[s].st /\ node'[s].seli = copy[s].seli
  BY <1>1, <1>2 DEF WriteBack, TypeOK, SlotRec
<1>5. \/ pc' = "done" /\ (nNum' = 0 \/ s = NumSlots - 1)
      \/ pc' = "scan" /\ idx' = s + 1 /\ s # NumSlots - 1
  BY <1>1, <1>2, AdvanceMoves
<1> HIDE DEF s
<1>6. CopyTrue' /\ StillReady' /\ Counted' /\ InCallback'
  BY <1>1, <1>2, <1>3, <1>4, <1>5, IterationEnd DEF OneThreadInv
<1>7. Registered'
  <2> SUFFICES ASSUME NEW r \in Slots, node'[r].valid
               PROVE  Holds(node'[r], node'[r].sock)
    BY <1>2 DEF Registered, Holds, Over
  <2>1. CASE r # s
    BY <1>4, <2>1 DEF OneThreadInv, Registered
  <2>2. CASE r = s
    <3>1. node[s].valid /\ node[s].sock = ev.cur
      BY <1>1, <1>2, <1>4, <2>2 DEF OneThreadInv, InCallback
    <3>2. Left(copy[s], node[s].sock)
      BY <1>1, <3>1 DEF OneThreadInv, InCallback
    <3> QED
      BY <1>4, <2>2, <3>2 DEF Holds, Left, Over, Ended, Fits, Settled, Accepting, Reading
  <2> QED
    BY <2>1, <2>2
<1> QED
  BY <1>2, <1>6, <1>7
     DEF OneThreadInv, FreeUntold, CloseMeansPeer, ConnectMeansEstablished

(* So do the steps around the walk. *)
LEMMA SelectOneThread ==
  ASSUME TypeOK, SocketsOwned, OneThread, OneThreadInv, SelectStep
  PROVE  OneThreadInv'
<1>1. CASE SelectBegin
  BY <1>1
     DEF SelectBegin, OneThreadInv, Registered, Holds, Over, CopyTrue, StillReady, Counted, InCallback,
         FreeUntold, CloseMeansPeer, ConnectMeansEstablished
<1>2. CASE SelectReturn
  <2>1. /\ pc = "selecting" /\ pc' = "relock" /\ UNCHANGED <<node, copy, idx, ev, sk, told>>
        /\ rd' = {s \in Watched : "R" \in copy[s].seli /\ Readable(copy[s].sock)}
        /\ wr' = {s \in Watched : "W" \in copy[s].seli /\ Writable(copy[s].sock)}
        /\ nNum' = Cardinality(rd') + Cardinality(wr')
    BY <1>2 DEF SelectReturn
  <2>2. ToWalk = Slots /\ ToWalk' = Slots
    BY <2>1 DEF ToWalk
  <2>3. rd' \cap Slots = rd' /\ wr' \cap Slots = wr'
    BY <2>1 DEF Watched
  <2>4. Counted'
    BY <2>1, <2>2, <2>3 DEF Counted, Unseen
  <2>5. StillReady'
    <3> SUFFICES /\ \A s \in rd' \cup wr' : copy[s].valid /\ ~copy[s].exc
                 /\ \A s \in rd' : "R" \in copy[s].seli /\ CanRead(sk[copy[s].sock])
                 /\ \A s \in wr' : "W" \in copy[s].seli
                 /\ \A s \in wr' \ rd' : Connects(copy[s])
      BY <2>1, <2>2, <2>3 DEF StillReady, Connects
    <3>1. ASSUME NEW s \in wr', s \notin rd'
          PROVE  Connects(copy[s])
      <4>1. s \in Slots /\ copy[s].valid /\ "W" \in copy[s].seli /\ Writable(copy[s].sock)
        BY <2>1, <3>1 DEF Watched
      <4>2. node[s] = copy[s]
        BY <2>2, <4>1 DEF OneThreadInv, CopyTrue
      <4>3. Asking(copy[s], sk[copy[s].sock]) \/ Over(copy[s], copy[s].sock)
        BY <4>1, <4>2
           DEF OneThreadInv, Registered, Holds, Fits, Settled, Unused, Accepting, Reading
      <4>4. ~("R" \in copy[s].seli /\ Readable(copy[s].sock))
        BY <2>1, <3>1
      <4> QED
        BY <4>1, <4>3, <4>4 DEF Asking, Over, Connects, Readable, Writable
    <3> QED
      BY <2>1, <3>1 DEF Watched, CanRead, Readable
  <2> QED
    BY <2>1, <2>2, <2>4, <2>5
       DEF OneThreadInv, Registered, Holds, Over, CopyTrue, InCallback, FreeUntold, CloseMeansPeer,
           ConnectMeansEstablished
<1>3. CASE Relock
  <2>1. /\ pc = "relock" /\ pc' = "scan" /\ idx' = 0
        /\ UNCHANGED <<node, copy, nNum, rd, wr, ev, sk, told>>
    BY <1>3 DEF Relock
  <2>2. ToWalk' = Slots /\ ToWalk = Slots
    BY <2>1 DEF ToWalk, Slots
  <2> QED
    BY <2>1, <2>2
       DEF OneThreadInv, Registered, Holds, Over, CopyTrue, StillReady, Connects, Counted, Unseen, InCallback,
           FreeUntold, CloseMeansPeer, ConnectMeansEstablished
<1>5. CASE EndAsserts
  BY <1>5, AbortOneThread DEF EndAsserts
<1>4. CASE SelectError \/ SelectEnd
  <2>1. pc' = "idle" /\ UNCHANGED <<node, sk, told>>
    BY <1>4 DEF SelectError, SelectEnd
  <2>2. ToWalk' = {}
    BY <2>1 DEF ToWalk
  <2> QED
    BY <2>1, <2>2
       DEF OneThreadInv, Registered, Holds, Over, CopyTrue, StillReady, Counted, InCallback,
           FreeUntold, CloseMeansPeer, ConnectMeansEstablished
<1> QED
  BY <1>1, <1>2, <1>3, <1>4, <1>5, ScanOneThread, ReturnOneThread DEF SelectStep

(* The invariant that the four theorems below share. *)
LEMMA OneThreadInvariance ==
  ASSUME OneThread
  PROVE  Spec => []OneThreadInv
<1>1. Init => OneThreadInv
  BY DEF Init, OneThreadInv, Registered, CopyTrue, StillReady, Counted, InCallback, ToWalk,
         FreeUntold, CloseMeansPeer, ConnectMeansEstablished, EmptySlot, NewSock
<1>2. TypeOK /\ SocketsOwned /\ OneThreadInv /\ [Next]_vars => OneThreadInv'
  <2> SUFFICES ASSUME TypeOK, SocketsOwned, OneThreadInv, [Next]_vars PROVE OneThreadInv'
    OBVIOUS
  <2>1. CASE UNCHANGED vars
    BY <2>1
       DEF vars, OneThreadInv, Registered, Holds, Over, Left, CopyTrue, StillReady, Connects, Counted, Unseen, InCallback,
           ToWalk, FreeUntold, CloseMeansPeer, ConnectMeansEstablished
  <2> QED
    BY <2>1, OneThread, KernelOneThread, CallOneThread, SelectOneThread DEF Next
<1> QED
  BY <1>1, <1>2, TypeCorrect, Ownership, PTL DEF Spec

(* For a one-thread application liEvClose is told only of a connection that *)
(* its peer closed, that was refused, or that took longer than dwTimeOut.   *)
THEOREM CloseMeansPeerOneThread ==
  ASSUME OneThread
  PROVE  Spec => []CloseMeansPeer
<1>1. OneThreadInv => CloseMeansPeer
  BY DEF OneThreadInv
<1> QED
  BY <1>1, OneThreadInvariance, PTL

(* liEvConnect is told only of an established connection, or after          *)
(* liEvClose: a refused one is readable too, and the walk looks at the read *)
(* set first.                                                               *)
THEOREM ConnectMeansEstablishedOneThread ==
  ASSUME OneThread
  PROVE  Spec => []ConnectMeansEstablished
<1>1. OneThreadInv => ConnectMeansEstablished
  BY DEF OneThreadInv
<1> QED
  BY <1>1, OneThreadInvariance, PTL

(* The assert on nNum at the end of selixSelect holds: each descriptor that *)
(* select() counted is seen once, also one that is in both sets.            *)
THEOREM AllReadySeenOneThread ==
  ASSUME OneThread
  PROVE  Spec => []AllReadySeen
<1>1. OneThreadInv => AllReadySeen
  BY DEF OneThreadInv, Counted, AllReadySeen
<1> QED
  BY <1>1, OneThreadInvariance, PTL

(* No write-back takes away what a call or an event registered a socket for. *)
THEOREM StaysRegisteredOneThread ==
  ASSUME OneThread
  PROVE  Spec => []StaysRegistered
<1>1. OneThreadInv => StaysRegistered
  BY DEF OneThreadInv, Registered, StaysRegistered, Holds, Over, Fits, Settled, Unused, Asking,
         Accepting, Reading
<1> QED
  BY <1>1, OneThreadInvariance, PTL

=============================================================================
