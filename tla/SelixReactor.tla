---------------------------- MODULE SelixReactor ----------------------------
(***************************************************************************)
(* One node of the multi-node select reactor of src/Common/LmnSeli.cpp     *)
(* (the selix / lix functions, POSIX build): a table of slots guarded by   *)
(* the manager lock m_Lock, one thread that runs selixSelect on the table, *)
(* and any number of threads that call the lix functions.                  *)
(*                                                                         *)
(* A lix function holds m_Lock from its first check to its return, so each *)
(* call is one atomic step.  selixSelect is not: it copies the table under *)
(* the lock, releases it for select(), takes it again, and then walks the  *)
(* table slot by slot, calling the application back and writing four       *)
(* fields of the copy back into the table.  m_Lock is recursive, so a      *)
(* callback may itself call the lix functions; other threads may do so     *)
(* only while the select thread is between two selects or inside select(). *)
(*                                                                         *)
(* Abstractions, by name:                                                  *)
(*  - a file descriptor is a member of Socks that the kernel never hands   *)
(*    out twice (Socks bounds how many sockets a behaviour creates);       *)
(*  - socket contents are one bit, "unread bytes are queued";              *)
(*  - the callback of liEvDestroy makes no lix call;                       *)
(*  - a socket is connected once: nobody calls lixConnect again on one that *)
(*    was refused or shut down before its connection was there;            *)
(*  - lixTcpSend and lixGetState leave the table and the kernel state      *)
(*    below unchanged and are not actions;                                 *)
(*  - the socket, bind, ioctl and memory failures that return before any   *)
(*    assignment are the calls that are not made.                          *)
(***************************************************************************)
EXTENDS Integers, FiniteSets

CONSTANTS
  NumSlots,        (* m_dwNodesSize, the size of the table                  *)
  Socks,           (* the sockets the kernel can create                     *)
  NoSock,          (* INVALID_SOCKET                                        *)
  OwnerCalls,      (* calls made while the select thread is out of selixSelect *)
  AppCalls,        (* calls other threads make while it waits in select()   *)
  CbCalls,         (* calls a callback makes                                *)
  CbAnySlot,       (* may a callback act on a slot that is not its own?     *)
  PeerSpeaksFirst, (* may a server send before our liEvConnect is delivered? *)
  MaxCbCalls       (* bound on the calls one callback makes                 *)

CallNames == {"open", "openUdp", "connect", "listen", "accept", "recv",
              "shutdown", "close"}

ASSUME ConstantsAssumption ==
  /\ NumSlots \in Nat \ {0}
  /\ NoSock \notin Socks
  /\ OwnerCalls \subseteq CallNames
  /\ AppCalls \subseteq CallNames
  /\ CbCalls \subseteq CallNames
  /\ {CbAnySlot, PeerSpeaksFirst} \subseteq BOOLEAN
  /\ MaxCbCalls \in Nat

Slots == 0 .. NumSlots - 1

VARIABLES
  node,    (* m_nodes: the slots, in the table every thread shares          *)
  copy,    (* tCopySelixNode.m_nodes, private to the select thread          *)
  maxId,   (* m_dwSelixNodeMaxId                                            *)
  pc,      (* where the select thread is; "aborted": an assert has failed   *)
  idx,     (* nIndex                                                        *)
  nNum,    (* nNum: ready descriptors select() counted and not yet seen     *)
  rd, wr,  (* the slots whose descriptor select() left in tmprdSet, tmpwrSet *)
  ev,      (* the callback in progress                                      *)
  cbLeft,  (* calls the callback in progress may still make                 *)
  sk,      (* the kernel's view of every socket                             *)
  told     (* history: the liEvConnect and liEvClose each socket's owner got *)

vars == <<node, copy, maxId, pc, idx, nNum, rd, wr, ev, cbLeft, sk, told>>
selectVars == <<copy, pc, idx, nNum, rd, wr, ev>>

LiEvents == {"read", "write", "accept", "connect", "close"}
LiStates == {"inited", "connecting", "listening", "shutdowned", "available"}
SkStates == {"free", "fresh", "connecting", "established", "failed",
             "listening", "udp", "closed"}

SlotRec == [valid: BOOLEAN, exc: BOOLEAN, liEv: SUBSET LiEvents,
            seli: SUBSET {"R", "W"}, st: LiStates, id: Nat,
            sock: Socks \cup {NoSock}]

SockRec == [st: SkStates, data: BOOLEAN, eof: BOOLEAN, late: BOOLEAN]

EvRec == [slot: Slots, event: LiEvents \cup {"none"},
          sock: Socks \cup {NoSock}, cur: Socks \cup {NoSock}]

(* A slot as memset and lixClose leave it. *)
EmptySlot == [valid |-> FALSE, exc |-> FALSE, liEv |-> {}, seli |-> {},
              st |-> "inited", id |-> 0, sock |-> NoSock]

NoEv == [slot |-> 0, event |-> "none", sock |-> NoSock, cur |-> NoSock]

NewSock(st) == [st |-> st, data |-> FALSE, eof |-> FALSE, late |-> FALSE]

Init ==
  /\ node = [s \in Slots |-> EmptySlot]
  /\ copy = [s \in Slots |-> EmptySlot]
  /\ maxId = 0
  /\ pc = "idle" /\ idx = 0 /\ nNum = 0
  /\ rd = {} /\ wr = {} /\ ev = NoEv /\ cbLeft = 0
  /\ sk = [k \in Socks |-> NewSock("free")]
  /\ told = [k \in Socks |-> {}]

-----------------------------------------------------------------------------
(* Mutant of MayCall: the owner's calls forget the manager lock. *)
MayCall_Unlocked(call, s) == call \in OwnerCalls /\ cbLeft >= 0

(* Who may call a lix function on slot s now: m_Lock is free while the      *)
(* select thread is outside selixSelect or inside select(), and belongs to  *)
(* the select thread, hence to its callback, during the walk.               *)
MayCall(call, s) ==
  \/ pc = "idle" /\ call \in OwnerCalls \cup AppCalls
  \/ pc \in {"selecting", "relock"} /\ call \in AppCalls
  \/ /\ pc = "callback" /\ call \in CbCalls /\ cbLeft > 0
     /\ CbAnySlot \/ s = ev.slot

CountCall == cbLeft' = IF pc = "callback" THEN cbLeft - 1 ELSE cbLeft

(* _GetIdleNodeIndex: the lowest slot that is not valid. *)
IdleIndex(s) ==
  /\ ~node[s].valid
  /\ \A r \in Slots : r < s => node[r].valid

TableFull == \A s \in Slots : node[s].valid

(* Mutant of lixOpenTcp: the counter of ids is not advanced. *)
lixOpenTcp_SameId(s, k) ==
  /\ MayCall("open", s) /\ CountCall
  /\ IdleIndex(s) /\ sk[k].st = "free"
  /\ sk' = [sk EXCEPT ![k] = NewSock("fresh")]
  /\ node' = [node EXCEPT ![s] =
                [valid |-> TRUE, exc |-> FALSE, liEv |-> {}, seli |-> {},
                 st |-> "inited", id |-> maxId + 1, sock |-> k]]
  /\ UNCHANGED <<selectVars, maxId, told>>

lixOpenTcp(s, k) ==
  /\ MayCall("open", s) /\ CountCall
  /\ IdleIndex(s) /\ sk[k].st = "free"
  /\ sk' = [sk EXCEPT ![k] = NewSock("fresh")]
  /\ maxId' = maxId + 1
  /\ node' = [node EXCEPT ![s] =
                [valid |-> TRUE, exc |-> FALSE, liEv |-> {}, seli |-> {},
                 st |-> "inited", id |-> maxId + 1, sock |-> k]]
  /\ UNCHANGED <<selectVars, told>>

lixOpenUdp(s, k) ==
  /\ MayCall("openUdp", s) /\ CountCall
  /\ IdleIndex(s) /\ sk[k].st = "free"
  /\ sk' = [sk EXCEPT ![k] = NewSock("udp")]
  /\ maxId' = maxId + 1
  /\ node' = [node EXCEPT ![s] =
                [valid |-> TRUE, exc |-> FALSE, liEv |-> {"read", "write"},
                 seli |-> {"R", "W"}, st |-> "available", id |-> maxId + 1,
                 sock |-> k]]
  /\ UNCHANGED <<selectVars, told>>

(* connect() on a non-blocking socket is in progress or, over the loopback, *)
(* already done; a refusal it reports at once leaves the slot as it was.    *)
lixConnect(s) ==
  LET k == node[s].sock IN
  /\ MayCall("connect", s) /\ CountCall
  /\ node[s].valid /\ sk[k].st = "fresh"
  /\ \E st \in {"connecting", "established"} :
       sk' = [sk EXCEPT ![k].st = st]
  /\ node' = [node EXCEPT ![s] = [@ EXCEPT !.seli = {"R", "W"},
                                           !.liEv = {"connect", "close"},
                                           !.st = "connecting"]]
  /\ UNCHANGED <<selectVars, maxId, told>>

lixListen(s) ==
  LET k == node[s].sock IN
  /\ MayCall("listen", s) /\ CountCall
  /\ node[s].valid /\ sk[k].st = "fresh"
  /\ sk' = [sk EXCEPT ![k].st = "listening"]
  /\ node' = [node EXCEPT ![s] = [@ EXCEPT !.seli = {"R"}, !.liEv = {"accept"},
                                           !.st = "listening"]]
  /\ UNCHANGED <<selectVars, maxId, told>>

(* l is the listening slot, s the slot of the new socket k.  dwId is the    *)
(* one field of the slot that lixAccept does not assign.                    *)
lixAccept(l, s, k) ==
  /\ MayCall("accept", l) /\ CountCall
  /\ node[l].valid
  /\ sk[node[l].sock].st = "listening" /\ sk[node[l].sock].data
  /\ IdleIndex(s) /\ sk[k].st = "free"
  /\ sk' = [sk EXCEPT ![node[l].sock].data = FALSE,
                      ![k] = NewSock("established")]
  /\ node' = [node EXCEPT ![s] =
                [valid |-> TRUE, exc |-> FALSE, liEv |-> {"read", "close"},
                 seli |-> {"R"}, st |-> "available", id |-> node[s].id,
                 sock |-> k]]
  /\ UNCHANGED <<selectVars, maxId, told>>

(* Mutant of lixAcceptFull: the accepted connection is dropped, not closed. *)
lixAcceptFull_Leak(l, k) ==
  /\ MayCall("accept", l) /\ CountCall
  /\ node[l].valid
  /\ sk[node[l].sock].st = "listening" /\ sk[node[l].sock].data
  /\ TableFull /\ sk[k].st = "free"
  /\ sk' = [sk EXCEPT ![node[l].sock].data = FALSE,
                      ![k] = NewSock("established")]
  /\ UNCHANGED <<selectVars, node, maxId, told>>

(* With no slot left, lixAccept closes the connection it has just accepted. *)
lixAcceptFull(l, k) ==
  /\ MayCall("accept", l) /\ CountCall
  /\ node[l].valid
  /\ sk[node[l].sock].st = "listening" /\ sk[node[l].sock].data
  /\ TableFull /\ sk[k].st = "free"
  /\ sk' = [sk EXCEPT ![node[l].sock].data = FALSE, ![k] = NewSock("closed")]
  /\ UNCHANGED <<selectVars, node, maxId, told>>

lixTcpRecv(s) ==
  LET k == node[s].sock IN
  /\ MayCall("recv", s) /\ CountCall
  /\ node[s].valid /\ sk[k].st \in {"established", "udp"} /\ sk[k].data
  /\ sk' = [sk EXCEPT ![k].data = FALSE]
  /\ UNCHANGED <<selectVars, node, maxId, told>>

(* shutdown( fd, 1 ) ends a connection that is still being made: the socket *)
(* is then as after a refusal.  It refuses a socket with no connection.     *)
lixShutdown(s) ==
  LET k == node[s].sock IN
  /\ MayCall("shutdown", s) /\ CountCall
  /\ node[s].valid /\ sk[k].st \in {"connecting", "established", "listening"}
  /\ sk' = [sk EXCEPT ![k].st = IF @ = "connecting" THEN "failed" ELSE @]
  /\ node' = [node EXCEPT ![s] = [@ EXCEPT !.seli = node[s].seli \ {"R"},
                                           !.st = "shutdowned"]]
  /\ UNCHANGED <<selectVars, maxId, told>>

lixClose(s) ==
  LET k == node[s].sock IN
  /\ MayCall("close", s) /\ CountCall
  /\ node[s].valid
  /\ sk' = [sk EXCEPT ![k] = NewSock("closed")]
  /\ node' = [node EXCEPT ![s] = EmptySlot]
  /\ UNCHANGED <<selectVars, maxId, told>>

-----------------------------------------------------------------------------
(* The kernel and the peers. *)

KernelOnly == UNCHANGED <<selectVars, node, maxId, cbLeft, told>>

ConnDone(k) ==
  /\ sk[k].st = "connecting"
  /\ sk' = [sk EXCEPT ![k].st = "established"]
  /\ KernelOnly

ConnFail(k) ==
  /\ sk[k].st = "connecting"
  /\ sk' = [sk EXCEPT ![k].st = "failed"]
  /\ KernelOnly

(* The bit on a listening socket is a connection in its backlog. *)
PeerConnect(k) ==
  /\ sk[k].st = "listening" /\ ~sk[k].data
  /\ sk' = [sk EXCEPT ![k].data = TRUE]
  /\ KernelOnly

(* A client socket: one on which lixConnect was called and not yet answered. *)
AwaitsConnect(k) ==
  \E s \in Slots : node[s].sock = k /\ "connect" \in node[s].liEv

PeerSend(k) ==
  /\ sk[k].st \in {"established", "udp"} /\ ~sk[k].data /\ ~sk[k].eof
  /\ PeerSpeaksFirst \/ ~AwaitsConnect(k)
  /\ sk' = [sk EXCEPT ![k].data = TRUE]
  /\ KernelOnly

PeerClose(k) ==
  /\ sk[k].st = "established" /\ ~sk[k].eof
  /\ sk' = [sk EXCEPT ![k].eof = TRUE]
  /\ KernelOnly

(* dwTimeOut milliseconds pass after lixConnect.  dwCurTick is read once,   *)
(* before the walk, so time that passes during the walk is not seen.        *)
Expire(k) ==
  /\ pc \in {"idle", "selecting", "relock"}
  /\ sk[k].st = "connecting" /\ ~sk[k].late
  /\ sk' = [sk EXCEPT ![k].late = TRUE]
  /\ KernelOnly

-----------------------------------------------------------------------------
(* selixSelect *)

(* _seliSelectAdd2fdSet over the copy: the slots select() looks at. *)
Watched == {s \in Slots : copy[s].valid /\ ~copy[s].exc /\ copy[s].seli # {}}

Readable(k) ==
  \/ sk[k].st \in {"established", "udp", "listening"} /\ (sk[k].data \/ sk[k].eof)
  \/ sk[k].st = "failed"

Writable(k) == sk[k].st \in {"established", "udp", "failed"}

(* Copy the table under the lock; with nothing to watch, return at once. *)
SelectBegin ==
  /\ pc = "idle"
  /\ \E s \in Slots : node[s].valid /\ ~node[s].exc /\ node[s].seli # {}
  /\ copy' = node /\ pc' = "selecting"
  /\ UNCHANGED <<node, maxId, idx, nNum, rd, wr, ev, cbLeft, sk, told>>

(* select() answers with the descriptors that are ready, or with 0 once the *)
(* time it was given has passed.                                            *)
SelectReturn ==
  LET r == {s \in Watched : "R" \in copy[s].seli /\ Readable(copy[s].sock)}
      w == {s \in Watched : "W" \in copy[s].seli /\ Writable(copy[s].sock)}
  IN
  /\ pc = "selecting"
  /\ rd' = r /\ wr' = w /\ nNum' = Cardinality(r) + Cardinality(w)
  /\ pc' = "relock"
  /\ UNCHANGED <<node, copy, maxId, idx, ev, cbLeft, sk, told>>

(* Other threads may have run between select() and the lock. *)
Relock ==
  /\ pc = "relock" /\ pc' = "scan" /\ idx' = 0
  /\ UNCHANGED <<node, copy, maxId, nNum, rd, wr, ev, cbLeft, sk, told>>

(* EBADF: another thread closed a descriptor that is being watched. *)
SelectError ==
  /\ pc = "selecting"
  /\ \E s \in Watched : sk[copy[s].sock].st = "closed"
  /\ pc' = "idle" /\ copy' = [s \in Slots |-> EmptySlot]
  /\ UNCHANGED <<node, maxId, idx, nNum, rd, wr, ev, cbLeft, sk, told>>

(* The two reasons to pass over slot s of the walk. *)
NotWatched(s) == ~copy[s].valid \/ copy[s].exc

(* Mutant of SocketChanged: validity alone is looked at. *)
SocketChanged_NoId(s) == ~node[s].valid \/ node[s].exc

SocketChanged(s) == ~node[s].valid \/ node[s].exc \/ node[s].id # copy[s].id

(* Mutant of Advance: the walk ends after its first slot. *)
Advance_FirstOnly(s, n) == n \in Int /\ s \in Slots /\ idx' = 0 /\ pc' = "done"

(* The next slot, or the end of the loop. *)
Advance(s, n) ==
  /\ idx' = IF n = 0 \/ s = NumSlots - 1 THEN 0 ELSE s + 1
  /\ pc' = IF n = 0 \/ s = NumSlots - 1 THEN "done" ELSE "scan"

(* The four assignments that end an iteration, from the copy to the table. *)
WriteBack(s, c) ==
  node' = [node EXCEPT ![s] = [@ EXCEPT !.exc = c.exc, !.liEv = c.liEv,
                                        !.st = c.st, !.seli = c.seli]]

ScanSkip(s) ==
  /\ pc = "scan" /\ idx = s
  /\ NotWatched(s) \/ SocketChanged(s)
  /\ idx' = IF s = NumSlots - 1 THEN 0 ELSE s + 1
  /\ pc' = IF s = NumSlots - 1 THEN "done" ELSE "scan"
  /\ UNCHANGED <<node, copy, maxId, nNum, rd, wr, ev, cbLeft, sk, told>>

ScanEnter(s) ==
  /\ pc = "scan" /\ idx = s
  /\ ~NotWatched(s) /\ ~SocketChanged(s)

(* Slot s gets event e; c is what its copy becomes, n what nNum becomes. *)
Deliver(s, e, c, n) ==
  LET k == node[s].sock IN
  /\ pc' = "callback" /\ cbLeft' = MaxCbCalls
  /\ ev' = [slot |-> s, event |-> e, sock |-> copy[s].sock, cur |-> k]
  /\ told' = [told EXCEPT ![k] = @ \cup ({e} \cap {"connect", "close"})]
  /\ copy' = [copy EXCEPT ![s] = c] /\ nNum' = n
  /\ UNCHANGED <<node, maxId, idx, rd, wr, sk>>

(* Slot s gets no event. *)
Pass(s, n) ==
  /\ WriteBack(s, copy[s]) /\ Advance(s, n) /\ nNum' = n
  /\ UNCHANGED <<copy, maxId, rd, wr, ev, cbLeft, sk, told>>

(* select() returned 0: only a connection that took too long has news. *)
ScanTimeout(s) ==
  /\ ScanEnter(s) /\ nNum = 0
  /\ IF copy[s].st = "connecting" /\ sk[copy[s].sock].late
     THEN Deliver(s, "close", [copy[s] EXCEPT !.exc = TRUE], 0)
     ELSE Pass(s, 0)

(* Mutant of HasBytes: the count of unread bytes is never filled in. *)
HasBytes_Unset(k) == sk[k].data /\ sk[k].st = "listening"

(* _liBytesAvailable is asked now, not when select() looked. *)
HasBytes(k) == sk[k].data /\ sk[k].st # "listening"

(* The event the read set, and the event the write set, means to the slot.  *)
ReadEvent(c) ==
  IF "read" \in c.liEv /\ HasBytes(c.sock) THEN "read"
  ELSE IF "close" \in c.liEv /\ ~HasBytes(c.sock) THEN "close"
  ELSE IF "accept" \in c.liEv THEN "accept" ELSE "none"

WriteEvent(c) ==
  IF "connect" \in c.liEv THEN "connect"
  ELSE IF "write" \in c.liEv THEN "write" ELSE "none"

(* Mutant of ScanReadable: a slot in both sets is counted once. *)
ScanReadable_CountOnce(s) ==
  LET c == copy[s]
      e == ReadEvent(c) IN
  /\ ScanEnter(s) /\ nNum # 0 /\ s \in rd
  /\ \/ e = "none" /\ Pass(s, nNum - 1)
     \/ e \in {"read", "accept"} /\ Deliver(s, e, c, nNum - 1)
     \/ e = "close" /\ Deliver(s, e, [c EXCEPT !.seli = @ \ {"R"}], nNum - 1)

ScanReadable(s) ==
  LET c == copy[s]
      e == ReadEvent(c) IN
  /\ ScanEnter(s) /\ nNum # 0 /\ s \in rd
  /\ \/ e = "none" /\ Pass(s, nNum - 1)
     \/ e \in {"read", "accept"} /\ Deliver(s, e, c, nNum - 1)
     \/ /\ e = "close"
        /\ Deliver(s, e, [c EXCEPT !.seli = @ \ {"R"}],
                   IF s \in wr THEN nNum - 2 ELSE nNum - 1)

(* assert( ... ) is compiled in (the makefiles define no NDEBUG) and ends   *)
(* the program.                                                             *)
AssertFails ==
  /\ pc' = "aborted"
  /\ UNCHANGED <<node, copy, maxId, idx, nNum, rd, wr, ev, cbLeft, sk, told>>

(* Mutant of ScanWritable: the write set is looked at for every slot. *)
ScanWritable_AlsoRead(s) ==
  LET c == copy[s]
      e == WriteEvent(c) IN
  /\ ScanEnter(s) /\ nNum # 0 /\ s \in wr
  /\ \/ e = "none" /\ Pass(s, nNum - 1)
     \/ e = "write" /\ Deliver(s, e, c, nNum - 1)
     \/ e = "connect" /\ c.st # "connecting" /\ AssertFails
     \/ /\ e = "connect" /\ c.st = "connecting"
        /\ Deliver(s, e, [c EXCEPT !.seli = {"R"}, !.liEv = {"read", "close"},
                                   !.st = "available"], nNum - 1)

(* Mutant of ScanWritable: a connected slot goes on waiting for liEvConnect. *)
ScanWritable_KeepsConnect(s) ==
  LET c == copy[s]
      e == WriteEvent(c) IN
  /\ ScanEnter(s) /\ nNum # 0 /\ s \notin rd /\ s \in wr
  /\ \/ e = "none" /\ Pass(s, nNum - 1)
     \/ e = "write" /\ Deliver(s, e, c, nNum - 1)
     \/ e = "connect" /\ c.st # "connecting" /\ AssertFails
     \/ /\ e = "connect" /\ c.st = "connecting"
        /\ Deliver(s, e, [c EXCEPT !.st = "available"], nNum - 1)

ScanWritable(s) ==
  LET c == copy[s]
      e == WriteEvent(c) IN
  /\ ScanEnter(s) /\ nNum # 0 /\ s \notin rd /\ s \in wr
  /\ \/ e = "none" /\ Pass(s, nNum - 1)
     \/ e = "write" /\ Deliver(s, e, c, nNum - 1)
     \/ e = "connect" /\ c.st # "connecting" /\ AssertFails
     \/ /\ e = "connect" /\ c.st = "connecting"
        /\ Deliver(s, e, [c EXCEPT !.seli = {"R"}, !.liEv = {"read", "close"},
                                   !.st = "available"], nNum - 1)

ScanQuiet(s) ==
  /\ ScanEnter(s) /\ nNum # 0 /\ s \notin rd \cup wr
  /\ Pass(s, nNum)

(* The callback returns and the iteration ends with the write-back. *)
CallbackReturn ==
  LET s == ev.slot IN
  /\ pc = "callback"
  /\ WriteBack(s, copy[s]) /\ Advance(s, nNum)
  /\ ev' = NoEv /\ cbLeft' = 0
  /\ UNCHANGED <<copy, maxId, nNum, rd, wr, sk, told>>

(* The assert on nNum, the release of the copy, and the return. *)
SelectEnd ==
  /\ pc = "done" /\ nNum = 0
  /\ pc' = "idle" /\ nNum' = 0 /\ rd' = {} /\ wr' = {}
  /\ copy' = [s \in Slots |-> EmptySlot]
  /\ UNCHANGED <<node, maxId, idx, ev, cbLeft, sk, told>>

(* assert( 0 == nNum ) fails. *)
EndAsserts == pc = "done" /\ nNum # 0 /\ AssertFails

-----------------------------------------------------------------------------
Scan == \E s \in Slots : \/ ScanSkip(s) \/ ScanTimeout(s) \/ ScanReadable(s)
                         \/ ScanWritable(s) \/ ScanQuiet(s)

SelectStep == \/ SelectBegin \/ SelectReturn \/ SelectError \/ Relock
              \/ Scan \/ CallbackReturn \/ SelectEnd \/ EndAsserts

Call ==
  \/ \E s \in Slots, k \in Socks :
       \/ lixOpenTcp(s, k) \/ lixOpenUdp(s, k) \/ lixAcceptFull(s, k)
       \/ \E l \in Slots : lixAccept(l, s, k)
  \/ \E s \in Slots : \/ lixConnect(s) \/ lixListen(s) \/ lixTcpRecv(s)
                      \/ lixShutdown(s) \/ lixClose(s)

Kernel == \E k \in Socks : \/ ConnDone(k) \/ ConnFail(k) \/ PeerConnect(k)
                           \/ PeerSend(k) \/ PeerClose(k) \/ Expire(k)

Next == SelectStep \/ Call \/ Kernel

Spec == Init /\ [][Next]_vars

(* The select thread loops over selixSelect, select() has a time-out and    *)
(* callbacks return; the clock advances whatever the threads do.            *)
Fairness ==
  /\ WF_vars(SelectBegin) /\ WF_vars(SelectReturn) /\ WF_vars(Relock)
  /\ WF_vars(Scan) /\ WF_vars(CallbackReturn) /\ WF_vars(SelectEnd)
  /\ \A k \in Socks : SF_vars(Expire(k))

FairSpec == Spec /\ Fairness

-----------------------------------------------------------------------------
(* The type of every variable; nNum stays an integer, not a natural: the    *)
(* walk can count one ready descriptor more often than select() did.        *)
TypeOK ==
  /\ node \in [Slots -> SlotRec] /\ copy \in [Slots -> SlotRec]
  /\ maxId \in Nat
  /\ pc \in {"idle", "selecting", "relock", "scan", "callback", "done", "aborted"}
  /\ idx \in Slots /\ nNum \in Int
  /\ rd \subseteq Slots /\ wr \subseteq Slots
  /\ ev \in EvRec /\ cbLeft \in 0 .. MaxCbCalls
  /\ sk \in [Socks -> SockRec]
  /\ told \in [Socks -> SUBSET {"connect", "close"}]

(* Every descriptor the kernel holds open belongs to exactly one valid slot *)
(* and every valid slot holds an open descriptor: no path of lixOpen,       *)
(* lixAccept (the full table included), lixClose or the write-back leaks a  *)
(* socket or lets two slots share one.                                      *)
SocketsOwned ==
  /\ \A s \in Slots : node[s].valid =>
       node[s].sock \in Socks /\ sk[node[s].sock].st \notin {"free", "closed"}
  /\ \A k \in Socks : sk[k].st \notin {"free", "closed"} =>
       \E s \in Slots : node[s].valid /\ node[s].sock = k
  /\ \A s, r \in Slots : node[s].valid /\ node[r].valid /\ s # r =>
       node[s].sock # node[r].sock

(* dwId is "the unique number" of a socket: the test that the socket has    *)
(* not changed while the lock was released rests on it.                     *)
IdsUnique ==
  \A s, r \in Slots : node[s].valid /\ node[r].valid /\ s # r =>
    node[s].id # node[r].id

(* "If the original socket has changed", the walk passes the slot over: a   *)
(* callback is never told about the descriptor of a socket that has left    *)
(* the slot since the table was copied.                                     *)
NoStaleDispatch == ev.sock = ev.cur

(* liEvClose means "the peer closed": the peer did, or the connection was   *)
(* refused, or it took longer than dwTimeOut.                               *)
CloseMeansPeer ==
  \A k \in Socks : "close" \in told[k] =>
    \/ sk[k].st \in {"failed", "closed"} \/ sk[k].eof \/ sk[k].late

(* liEvConnect is delivered for an established connection only, or for one  *)
(* whose end was reported before and which the callback then left open.     *)
ConnectMeansEstablished ==
  \A k \in Socks : "connect" \in told[k] =>
    sk[k].st \in {"established", "closed"} \/ "close" \in told[k]

(* The slot at which the walk is about to assert liState == liStConnecting. *)
AboutToAssert(s) ==
  /\ ScanEnter(s) /\ nNum # 0 /\ s \in wr \ rd
  /\ WriteEvent(copy[s]) = "connect"

(* "assert( liState == liStConnecting )": a slot that waits for liEvConnect *)
(* is still connecting when its connection is there.  It fails.             *)
ConnectFindsConnecting ==
  \A s \in Slots : AboutToAssert(s) => copy[s].st = "connecting"

(* The one way in which that assert fails: lixShutdown has marked the slot  *)
(* between lixConnect and liEvConnect.  No other call, no event and no      *)
(* write-back leaves a slot waiting for liEvConnect in a state of its own.  *)
AssertsOnlyShutDown ==
  \A s \in Slots : AboutToAssert(s) => copy[s].st \in {"connecting", "shutdowned"}

(* assert( 0 == nNum ) at the end of the walk, while any descriptor was     *)
(* ready: the walk has seen each one select() counted.                      *)
AllReadySeen == pc = "done" => nNum = 0

(* "On what events the application want to be notified": outside the        *)
(* iteration that is handling its slot, a socket stays registered for what  *)
(* its last lix call or event set up; no write-back takes it away.          *)
StaysRegistered ==
  \A s \in Slots :
    LET k == node[s].sock IN
    node[s].valid /\ ~(pc = "callback" /\ ev.slot = s) /\ "close" \notin told[k] =>
      /\ ~node[s].exc
      /\ sk[k].st = "listening" /\ node[s].st # "shutdowned" =>
           node[s].liEv = {"accept"} /\ "R" \in node[s].seli
      /\ sk[k].st = "connecting" =>
           node[s].liEv = {"connect", "close"} /\ "W" \in node[s].seli
      /\ sk[k].st = "established" =>
           /\ "close" \in node[s].liEv
           /\ "R" \in node[s].seli \/ node[s].st = "shutdowned"

(* Unread bytes on an open, registered connection are reported by a liEvRead *)
(* sooner or later, however busy the other slots are, unless the            *)
(* application reads them by itself, shuts down or closes the socket, or an *)
(* assert of the walk ends the program.                                     *)
ReadDelivered ==
  \A k \in Socks :
    (/\ sk[k].st = "established" /\ sk[k].data /\ ~AwaitsConnect(k)
     /\ \E s \in Slots : node[s].sock = k /\ node[s].st = "available")
    ~> \/ ev.event = "read" /\ ev.cur = k
       \/ sk[k].st = "closed" \/ ~sk[k].data \/ pc = "aborted"
       \/ \E s \in Slots : node[s].sock = k /\ node[s].st = "shutdowned"

(* "A connect time-out too is treated as an exception": within dwTimeOut,   *)
(* which lixConnect caps at 20 seconds, the application is told liEvConnect *)
(* or liEvClose of every connection it asked for, unless it closes it.      *)
ConnectAnswered ==
  \A k \in Socks :
    AwaitsConnect(k) ~> told[k] # {} \/ sk[k].st = "closed"

=============================================================================
