--------------------------- MODULE TelnetdProofs ---------------------------
(***************************************************************************)
(* For any number of clients, slots and texts: what is queued while a      *)
(* client has the slot it names goes to that client or to nobody, and a    *)
(* client's parameters are there as long as any thread may look at them.   *)
(***************************************************************************)
EXTENDS Telnetd, FiniteSetTheorems, TLAPS

(* A client the server has not accepted has no thread, and the slot that a  *)
(* client's thread may name in "bye" is a slot.                             *)
Fresh == \A c \in Clients : peer[c] \in {"none", "backlog"} => thr[c].pc = "none"
FdKnown == \A c \in Clients : thr[c].pc \in {"idle", "busy"} => param[c].fd \in Slots

TypeInv == TypeOK /\ Fresh /\ FdKnown

(* Longer sequences. *)
LEMMA LongerSeq ==
  ASSUME NEW S, NEW a \in Seq(S)
  PROVE  /\ \A b \in Seq(S) : a \o b \in Seq(S)
         /\ \A e \in S : Append(a, e) \in Seq(S)
OBVIOUS

(* A message thread with one message more is a message thread. *)
LEMMA PostType ==
  ASSUME NEW Msg, NEW t \in ThrRec(Msg), NEW m \in Msg
  PROVE  Post(t, m) \in ThrRec(Msg) /\ Post(t, m).pc = t.pc
BY DEF Post, ThrRec

(* The other operations of a message thread give message threads, too. *)
LEMMA ThreadType ==
  ASSUME NEW Msg, NEW t \in ThrRec(Msg)
  PROVE  /\ CanTake(t) => Take(t) \in ThrRec(Msg) /\ Take(t).pc = "busy"
         /\ Done(t) \in ThrRec(Msg) /\ Done(t).pc \in {"idle", "ended"}
         /\ End(t) \in ThrRec(Msg) /\ End(t).pc = "ended"
         /\ [t EXCEPT !.run = FALSE] \in ThrRec(Msg)
         /\ [t EXCEPT !.run = FALSE].pc = t.pc
         /\ NewThread \in ThrRec(Msg) /\ NewThread.pc = "idle"
         /\ NoThread \in ThrRec(Msg) /\ NoThread.pc = "none"
<1>2. CanTake(t) => Take(t) \in ThrRec(Msg) /\ Take(t).pc = "busy"
  <2> SUFFICES ASSUME CanTake(t) PROVE Take(t) \in ThrRec(Msg) /\ Take(t).pc = "busy"
    OBVIOUS
  <2>1. Head(t.box) \in Msg /\ Tail(t.box) \in Seq(Msg) /\ (~t.run) \in BOOLEAN
    BY DEF CanTake, ThrRec
  <2> QED
    BY <2>1 DEF Take, ThrRec
<1>3. Done(t) \in ThrRec(Msg) /\ Done(t).pc \in {"idle", "ended"}
  BY DEF Done, ThrRec
<1>4. End(t) \in ThrRec(Msg) /\ End(t).pc = "ended"
  BY DEF End, ThrRec
<1>5. [t EXCEPT !.run = FALSE] \in ThrRec(Msg) /\ [t EXCEPT !.run = FALSE].pc = t.pc
  BY DEF ThrRec
<1>6. NewThread \in ThrRec(Msg) /\ NewThread.pc = "idle"
  BY DEF NewThread, ThrRec
<1>7. NoThread \in ThrRec(Msg) /\ NoThread.pc = "none"
  BY DEF NoThread, ThrRec
<1> QED
  BY <1>2, <1>3, <1>4, <1>5, <1>6, <1>7

(* Texts that were dropped, lost or sent are texts. *)
LEMMA TextType ==
  ASSUME NEW f \in {"unused", "given", "queued", "sent", "cleared", "lost"}
  PROVE  Text(f) \in PrtRec /\ Text(f).fate = f /\ Text(f).to = NoClient
<1>1. 0 \in 0 .. NumSlots
  BY TelnetAssumption DEF TelnetAssumption
<1> QED
  BY <1>1 DEF Text, PrtRec

(* ClearPrintfListByClientId leaves no text queued for the slots it names.  *)
LEMMA ClearedTexts ==
  ASSUME prt \in [Prints -> PrtRec], NEW ks
  PROVE  /\ Cleared(ks) \in [Prints -> PrtRec]
         /\ \A p \in Prints : Cleared(ks)[p].fate = "queued" =>
              Cleared(ks)[p] = prt[p] /\ prt[p].id \notin ks
<1>1. Text("cleared") \in PrtRec /\ Text("cleared").fate = "cleared"
  BY TextType
<1> QED
  BY <1>1 DEF Cleared

(* lixClose on a slot in use keeps the types. *)
LEMMA CloseSlotType ==
  ASSUME TypeInv, NEW k \in Slots, slot[k] # NoClient, CloseSlot(k)
  PROVE  /\ peer' \in [Clients -> PeerStates]
         /\ reaper' \in ThrRec(Clients) /\ prt' \in [Prints -> PrtRec]
         /\ \A c \in Clients : peer'[c] \in {"none", "backlog"} => peer'[c] = peer[c]
<1>1. slot[k] \in Clients
  BY DEF TypeInv, TypeOK
<1>2. reaper' \in ThrRec(Clients)
  BY <1>1, PostType DEF TypeInv, TypeOK, CloseSlot
<1>3. prt' \in [Prints -> PrtRec]
  BY ClearedTexts DEF TypeInv, TypeOK, CloseSlot
<1> QED
  BY <1>1, <1>2, <1>3 DEF TypeInv, TypeOK, CloseSlot, PeerStates

(* At the start everything is down. *)
LEMMA InitTypeInv == Init => TypeInv
<1> SUFFICES ASSUME Init PROVE TypeInv
  OBVIOUS
<1>1. 0 \in 0 .. NumSlots /\ 0 \in 0 .. MaxData
  BY TelnetAssumption DEF TelnetAssumption
<1>2. thr \in [Clients -> ThrRec({"init", "data"})] /\ reaper \in ThrRec(Clients)
      /\ \A c \in Clients : thr[c].pc = "none"
  BY DEF Init, NoThread, ThrRec
<1>3. prt \in [Prints -> PrtRec]
  BY TextType DEF Init
<1>4. tel \in [pc: {"none"}, todo: SUBSET (0 .. NumSlots), shut: 0 .. NumSlots] /\ closeList \in Seq(Slots)
      /\ flag \in BOOLEAN
  <2>1. {} \in SUBSET (0 .. NumSlots)
    OBVIOUS
  <2>2. tel \in [pc: {"none"}, todo: SUBSET (0 .. NumSlots), shut: 0 .. NumSlots]
    BY <1>1, <2>1 DEF Init
  <2>3. closeList \in Seq(Slots)
    BY DEF Init
  <2>4. flag \in BOOLEAN
    BY DEF Init
  <2> QED
    BY <2>2, <2>3, <2>4
<1>7. param \in [Clients \cup {"listen"} -> ParamRec]
  <2>1. [st |-> "none", fd |-> 0] \in ParamRec
    BY <1>1 DEF ParamRec
  <2> QED
    BY <2>1 DEF Init
<1>5. peer \in [Clients -> PeerStates] /\ typed \in [Clients -> 0 .. MaxData]
      /\ slot \in [Slots -> Clients \cup {NoClient}] /\ app = "down" /\ stuck = NoClient
  BY <1>1 DEF Init, PeerStates
<1>6. TypeOK
  BY <1>2, <1>3, <1>4, <1>5, <1>7 DEF TypeOK
<1> QED
  BY <1>2, <1>6 DEF TypeInv, Fresh, FdKnown

(* The record of the server thread, changed. *)
TelRec(pcs) == [pc: pcs, todo: SUBSET (0 .. NumSlots), shut: 0 .. NumSlots]

LEMMA TelRecType ==
  ASSUME NEW P, NEW t \in TelRec(P)
  PROVE  /\ \A q : [t EXCEPT !.pc = q] \in TelRec({q}) /\ [t EXCEPT !.pc = q].shut = t.shut
         /\ \A q, r : r \in SUBSET (0 .. NumSlots) =>
                     [t EXCEPT !.pc = q, !.todo = r] \in TelRec({q})
         /\ \A r, k : r \in SUBSET (0 .. NumSlots) /\ k \in 0 .. NumSlots =>
                     [t EXCEPT !.todo = r, !.shut = k] \in TelRec(P)
         /\ \A k \in 0 .. NumSlots : [t EXCEPT !.shut = k] \in TelRec(P)
BY DEF TelRec

(* The steps of the server thread. *)
LEMMA TelTypeInv ==
  ASSUME TypeInv, TelStep
  PROVE  TypeInv'
<1> USE TelnetAssumption DEF TelnetAssumption, TypeInv
<1>0. tel \in TelRec({"none", "idle", "walk", "close", "print", "clear", "ended"})
  BY DEF TypeOK, TelRec
<1>1. CASE Select
  <2>1. tel' \in [pc: {"walk", "ended"}, todo: SUBSET (0 .. NumSlots), shut: 0 .. NumSlots]
    <3>1. CASE flag
      <4> DEFINE R == (IF \E c \in Clients : peer[c] = "backlog" THEN {0} ELSE {})
            \cup {k \in Slots : slot[k] # NoClient /\ peer[slot[k]] \in {"data", "eof"}}
      <4>1. R \in SUBSET (0 .. NumSlots)
        BY DEF Slots
      <4>2. tel' = [tel EXCEPT !.pc = "walk", !.todo = R]
        BY <1>1, <3>1 DEF Select
      <4> HIDE DEF R
      <4> QED
        BY <1>0, <4>1, <4>2, TelRecType DEF TelRec
    <3>2. CASE ~flag
      <4>1. tel' = [tel EXCEPT !.pc = "ended"]
        BY <1>1, <3>2 DEF Select
      <4> QED
        BY <1>0, <4>1, TelRecType DEF TelRec
    <3> QED
      BY <3>1, <3>2
  <2> QED
    BY <1>1, <2>1 DEF Select, TelUnchanged, TypeOK, Fresh, FdKnown
<1>2. CASE \E c \in Clients : OnAccept(c)
  <2>1. PICK c \in Clients : OnAccept(c)
    BY <1>2
  <2>2. Post(NewThread, "init") \in ThrRec({"init", "data"}) /\ Post(NewThread, "init").pc = "idle"
    <3>1. NewThread \in ThrRec({"init", "data"}) /\ NewThread.pc = "idle"
      BY ThreadType DEF TypeOK
    <3> QED
      BY <3>1, PostType
  <2>3. tel' = [tel EXCEPT !.todo = @ \ {0}] /\ peer[c] = "backlog" /\ thr[c].pc = "none"
    BY <2>1 DEF OnAccept, Handled, Fresh
  <2>4. CASE \E k \in Slots :
               /\ slot' = [slot EXCEPT ![k] = c] /\ peer' = [peer EXCEPT ![c] = "open"]
               /\ param' = [param EXCEPT ![c] = [st |-> "live", fd |-> k]]
               /\ thr' = [thr EXCEPT ![c] = Post(NewThread, "init")]
    <3>1. PICK k \in Slots :
               /\ slot' = [slot EXCEPT ![k] = c] /\ peer' = [peer EXCEPT ![c] = "open"]
               /\ param' = [param EXCEPT ![c] = [st |-> "live", fd |-> k]]
               /\ thr' = [thr EXCEPT ![c] = Post(NewThread, "init")]
      BY <2>4
    <3>2. [st |-> "live", fd |-> k] \in ParamRec
      BY DEF ParamRec, Slots
    <3>3. Fresh' /\ FdKnown'
      BY <2>2, <3>1 DEF TypeOK, Fresh, FdKnown
    <3>4. TypeOK'
      BY <2>1, <2>2, <2>3, <3>1, <3>2 DEF OnAccept, TelUnchanged, TypeOK, PeerStates
    <3> QED
      BY <3>3, <3>4
  <2>5. CASE /\ peer' = [peer EXCEPT ![c] = "closed"]
             /\ param' = [param EXCEPT ![c] = [st |-> "freed", fd |-> 0]]
             /\ UNCHANGED <<slot, thr>>
    <3>1. [st |-> "freed", fd |-> 0] \in ParamRec
      BY DEF ParamRec
    <3>2. Fresh' /\ FdKnown'
      BY <2>3, <2>5 DEF TypeOK, Fresh, FdKnown
    <3>3. TypeOK'
      BY <2>1, <2>3, <2>5, <3>1 DEF OnAccept, TelUnchanged, TypeOK, PeerStates
    <3> QED
      BY <3>2, <3>3
  <2> QED
    BY <2>1, <2>4, <2>5 DEF OnAccept
<1>3. CASE \E k \in Slots : OnRead(k)
  <2>1. PICK k \in Slots : OnRead(k)
    BY <1>3
  <2>2. thr' \in [Clients -> ThrRec({"init", "data"})]
        /\ \A c \in Clients : thr'[c].pc = thr[c].pc
    <3> DEFINE c == slot[k]
    <3>1. c \in Clients /\ thr' = [thr EXCEPT ![c] = Post(@, "data")]
      BY <2>1 DEF OnRead, TypeOK
    <3>2. Post(thr[c], "data") \in ThrRec({"init", "data"}) /\ Post(thr[c], "data").pc = thr[c].pc
      <4>1. thr[c] \in ThrRec({"init", "data"})
        BY <3>1 DEF TypeOK
      <4> HIDE DEF c
      <4> QED
        BY <4>1, PostType
    <3> QED
      BY <3>1, <3>2 DEF TypeOK
  <2>3. peer' \in [Clients -> PeerStates]
        /\ \A c \in Clients : peer'[c] \in {"none", "backlog"} => peer'[c] = peer[c]
    BY <2>1 DEF OnRead, TypeOK, PeerStates
  <2> QED
    BY <2>1, <2>2, <2>3 DEF OnRead, Handled, TelUnchanged, TypeOK, Fresh, FdKnown
<1>4. CASE \E k \in Slots : OnClose(k)
  <2>1. PICK k \in Slots : OnClose(k)
    BY <1>4
  <2>3. slot[k] # NoClient
    BY <2>1 DEF OnClose
  <2>4. tel' \in [pc: {"walk"}, todo: SUBSET (0 .. NumSlots), shut: 0 .. NumSlots]
    <3>1. tel.pc = "walk" /\ tel' = [tel EXCEPT !.todo = @ \ {k}, !.shut = k]
      BY <2>1 DEF OnClose, Handles
    <3>2. tel \in TelRec({"walk"}) /\ k \in 0 .. NumSlots
          /\ tel.todo \ {k} \in SUBSET (0 .. NumSlots)
      BY <1>0, <3>1 DEF TelRec, Slots
    <3> QED
      BY <3>1, <3>2, TelRecType DEF TelRec
  <2> QED
    BY <2>1, <2>3, <2>4, CloseSlotType DEF OnClose, TelUnchanged, TypeOK, Fresh, FdKnown
<1>5. CASE WalkEnd \/ CloseEnd \/ PrintEnd
  BY <1>5 DEF WalkEnd, CloseEnd, PrintEnd, TelUnchanged, TypeOK, Fresh, FdKnown
<1>6. CASE CloseListed
  <2>1. Head(closeList) \in Slots /\ closeList' \in Seq(Slots)
    BY <1>6 DEF CloseListed, TypeOK
  <2>2. CASE slot[Head(closeList)] # NoClient
    <3>1. tel' \in [pc: {"close"}, todo: SUBSET (0 .. NumSlots), shut: 0 .. NumSlots]
      <4>1. tel.pc = "close" /\ tel' = [tel EXCEPT !.shut = Head(closeList)]
        BY <1>6, <2>2 DEF CloseListed
      <4>2. tel \in TelRec({"close"}) /\ Head(closeList) \in 0 .. NumSlots
        BY <1>0, <2>1, <4>1 DEF TelRec, Slots
      <4> QED
        BY <4>1, <4>2, TelRecType DEF TelRec
    <3> QED
      BY <1>6, <2>1, <2>2, <3>1, CloseSlotType
      DEF CloseListed, TelUnchanged, TypeOK, Fresh, FdKnown
  <2>3. CASE slot[Head(closeList)] = NoClient
    BY <1>6, <2>1, <2>3 DEF CloseListed, TelUnchanged, TypeOK, Fresh, FdKnown
  <2> QED
    BY <2>2, <2>3
<1>7. CASE \E p \in Prints : OnQueryPrintf(p)
  BY <1>7, TextType DEF OnQueryPrintf, TelUnchanged, TypeOK, Fresh, FdKnown
<1>8. CASE ClearPrintfList
  BY <1>8, TextType DEF ClearPrintfList, TelUnchanged, TypeOK, Fresh, FdKnown
<1>9. CASE FreeSlot
  <2>1. tel' = [tel EXCEPT !.shut = 0]
    BY <1>9 DEF FreeSlot
  <2>2. tel' \in TelRec({"none", "idle", "walk", "close", "print", "clear", "ended"})
    <3>1. 0 \in 0 .. NumSlots
      OBVIOUS
    <3> QED
      BY <1>0, <2>1, <3>1, TelRecType
  <2> QED
    BY <1>9, <2>2 DEF FreeSlot, TelUnchanged, TelRec, TypeOK, Fresh, FdKnown
<1> QED
  BY <1>1, <1>2, <1>3, <1>4, <1>5, <1>6, <1>7, <1>8, <1>9 DEF TelStep

(* A step that changes the thread of one client, and of the others' state   *)
(* the queues only.                                                         *)
LEMMA OneThreadType ==
  ASSUME TypeInv, ThrUnchanged, param' = param,
         reaper' \in ThrRec(Clients), closeList' \in Seq(Slots),
         NEW c \in Clients, NEW t \in ThrRec({"init", "data"}),
         thr' = [thr EXCEPT ![c] = t],
         thr[c].pc = "none" => t.pc = "none",
         t.pc \in {"idle", "busy"} => thr[c].pc \in {"idle", "busy"}
  PROVE  TypeInv'
<1>1. Fresh'
  BY DEF TypeInv, TypeOK, Fresh, ThrUnchanged
<1>2. FdKnown'
  BY DEF TypeInv, TypeOK, FdKnown, ThrUnchanged
<1>3. TypeOK'
  <2>1. thr' \in [Clients -> ThrRec({"init", "data"})]
    BY DEF TypeInv, TypeOK
  <2> QED
    BY <2>1 DEF TypeInv, TypeOK, ThrUnchanged
<1> QED
  BY <1>1, <1>2, <1>3 DEF TypeInv

(* The steps of the clients' threads, of hListenThrd and of the peers. *)
LEMMA ThreadTypeInv ==
  ASSUME TypeInv,
         ReaperStep \/ \E c \in Clients : ClientLoop(c) \/ ClientBye(c) \/ PeerStep(c)
  PROVE  TypeInv'
<1> USE TelnetAssumption DEF TelnetAssumption, TypeInv
<1>0. [st |-> "freed", fd |-> 0] \in ParamRec
  BY DEF ParamRec
<1>00. \A c \in Clients : thr[c] \in ThrRec({"init", "data"})
  BY DEF TypeOK
<1>1. CASE \E c \in Clients : ClientTake(c)
  <2>1. PICK c \in Clients : ClientTake(c)
    BY <1>1
  <2>2. thr[c].pc = "idle" /\ Take(thr[c]) \in ThrRec({"init", "data"})
        /\ Take(thr[c]).pc = "busy"
    BY <1>00, <2>1, ThreadType DEF ClientTake, CanTake
  <2>3. thr' = [thr EXCEPT ![c] = Take(thr[c])]
    BY <2>1 DEF ClientTake
  <2> QED
    BY <2>1, <2>2, <2>3, OneThreadType DEF ClientTake, TypeOK
<1>2. CASE \E c \in Clients : ClientDone(c) \/ ClientBye(c)
  <2>1. PICK c \in Clients : ClientDone(c) \/ ClientBye(c)
    BY <1>2
  <2>2. thr[c].pc = "busy" /\ Done(thr[c]) \in ThrRec({"init", "data"})
        /\ Done(thr[c]).pc \in {"idle", "ended"}
    BY <1>00, <2>1, ThreadType DEF ClientDone, ClientBye
  <2>3. thr' = [thr EXCEPT ![c] = Done(thr[c])]
    BY <2>1 DEF ClientDone, ClientBye
  <2>4. closeList' \in Seq(Slots)
    <3>1. param[c].fd \in Slots
      BY <2>2 DEF FdKnown
    <3> QED
      <4>1. closeList \in Seq(Slots)
        BY DEF TypeOK
      <4>2. closeList' = closeList \/ closeList' = Append(closeList, param[c].fd)
        BY <2>1 DEF ClientDone, ClientBye
      <4> QED
        BY <3>1, <4>1, <4>2, LongerSeq
  <2> QED
    <3>1. ThrUnchanged /\ param' = param /\ reaper' = reaper
      BY <2>1 DEF ClientDone, ClientBye
    <3> QED
      BY <2>1, <2>2, <2>3, <2>4, <3>1, OneThreadType DEF TypeOK
<1>3. CASE \E c \in Clients : ClientEnd(c)
  <2>1. PICK c \in Clients : ClientEnd(c)
    BY <1>3
  <2>2. thr[c].pc = "idle" /\ End(thr[c]) \in ThrRec({"init", "data"})
        /\ End(thr[c]).pc = "ended"
    BY <1>00, <2>1, ThreadType DEF ClientEnd, CanEnd
  <2>3. thr' = [thr EXCEPT ![c] = End(thr[c])]
    BY <2>1 DEF ClientEnd
  <2> QED
    BY <2>1, <2>2, <2>3, OneThreadType DEF ClientEnd, TypeOK
<1>4. CASE ReapBegin
  <2> DEFINE c == Head(reaper.box)
  <2>1. c \in Clients /\ reaper' \in ThrRec(Clients)
    <3>1. reaper.box \in Seq(Clients) /\ reaper.box # <<>>
      BY <1>4 DEF ReapBegin, CanTake, TypeOK, ThrRec
    <3>2. Take(reaper) \in ThrRec(Clients)
      BY <1>4, ThreadType DEF ReapBegin, TypeOK
    <3> QED
      BY <1>4, <3>1, <3>2 DEF ReapBegin
  <2>2. [thr[c] EXCEPT !.run = FALSE] \in ThrRec({"init", "data"})
        /\ [thr[c] EXCEPT !.run = FALSE].pc = thr[c].pc
    BY <1>00, <2>1, ThreadType
  <2>3. thr' = [thr EXCEPT ![c] = [thr[c] EXCEPT !.run = FALSE]]
    BY <1>4 DEF ReapBegin
  <2> QED
    BY <1>4, <2>1, <2>2, <2>3, OneThreadType DEF ReapBegin, TypeOK
<1>5. CASE ReapEnd
  <2>1. reaper' \in ThrRec(Clients)
    BY <1>5, ThreadType DEF ReapEnd, TypeOK
  <2>2. param' = [param EXCEPT ![reaper.msg] = [st |-> "freed", fd |-> 0]]
        /\ thr[reaper.msg].pc = "ended"
    BY <1>5 DEF ReapEnd
  <2> QED
    <3>1. param' \in [Clients \cup {"listen"} -> ParamRec]
      BY <1>0, <2>2 DEF TypeOK
    <3>2. FdKnown'
      BY <1>5, <2>2 DEF ReapEnd, TypeOK, FdKnown
    <3>3. Fresh'
      BY <1>5 DEF ReapEnd, ThrUnchanged, Fresh
    <3> QED
      BY <1>5, <2>1, <3>1, <3>2, <3>3 DEF ReapEnd, ThrUnchanged, TypeOK
<1>6. CASE ReaperEnd
  <2>1. reaper' \in ThrRec(Clients)
    BY <1>6, ThreadType DEF ReaperEnd, TypeOK
  <2> QED
    BY <1>6, <2>1 DEF ReaperEnd, ThrUnchanged, TypeOK, Fresh, FdKnown
<1>7. CASE \E c \in Clients : PeerStep(c)
  <2>1. PICK c \in Clients : PeerStep(c)
    BY <1>7
  <2>2. peer' \in [Clients -> PeerStates] /\ typed' \in [Clients -> 0 .. MaxData]
    <3>1. PICK x \in PeerStates : peer' = [peer EXCEPT ![c] = x]
      BY <2>1 DEF PeerStep, PeerStates
    <3>2. \/ typed' = typed
          \/ typed[c] < MaxData /\ typed' = [typed EXCEPT ![c] = typed[c] + 1]
      BY <2>1 DEF PeerStep
    <3>3. typed[c] \in 0 .. MaxData
      BY DEF TypeOK
    <3>4. typed' \in [Clients -> 0 .. MaxData]
      <4>1. typed[c] < MaxData => typed[c] + 1 \in 0 .. MaxData
        BY <3>3
      <4>2. typed \in [Clients -> 0 .. MaxData]
        BY DEF TypeOK
      <4> QED
        BY <3>2, <4>1, <4>2
    <3> QED
      BY <3>1, <3>4 DEF TypeOK
  <2>3. \A d \in Clients : peer'[d] \in {"none", "backlog"} => peer[d] \in {"none", "backlog"}
    BY <2>1 DEF PeerStep, TypeOK
  <2> QED
    BY <2>1, <2>2, <2>3 DEF PeerStep, TypeOK, Fresh, FdKnown
<1> QED
  BY <1>1, <1>2, <1>3, <1>4, <1>5, <1>6, <1>7 DEF ReaperStep, ClientLoop

(* The steps of the application. *)
AppStep == \/ StopStep \/ StartThread \/ StartLists \/ StopFlag
           \/ \E p \in Prints : \/ Print0Insert(p)
                                \/ \E w \in Printers, id \in 0 .. NumSlots : Print0Test(w, p, id)

(* The order in which selixDestroyNode closes the slots in use. *)
LEMMA UsedSlots ==
  ASSUME NEW used \in SUBSET Slots
  PROVE  IsFiniteSet(used) /\ Cardinality(used) \in Nat
<1>1. IsFiniteSet(Slots)
  BY TelnetAssumption, FS_Interval DEF TelnetAssumption, Slots
<1>2. IsFiniteSet(used)
  BY <1>1, FS_Subset
<1> QED
  BY <1>2, FS_CardinalityType

(* LmnStartTelnetd, LmnStopTelnetd and LmnTelPrintf0 keep the types.        *)
LEMMA AppTypeInv ==
  ASSUME TypeInv, AppStep
  PROVE  TypeInv'
<1> USE TelnetAssumption DEF TelnetAssumption, TypeInv
<1>1. CASE StartThread
  <2>1. NewThread \in ThrRec(Clients)
    BY ThreadType DEF TypeOK
  <2>2. [param["listen"] EXCEPT !.st = "live"] \in ParamRec
    <3>1. param["listen"] \in ParamRec
      BY DEF TypeOK
    <3> QED
      BY <3>1 DEF ParamRec
  <2>3. param' \in [Clients \cup {"listen"} -> ParamRec]
        /\ \A c \in Clients : param'[c].fd = param[c].fd
    BY <1>1, <2>2 DEF StartThread, TypeOK, ParamRec
  <2>4. tel' \in [pc: {"idle"}, todo: SUBSET (0 .. NumSlots), shut: 0 .. NumSlots]
    BY <1>1 DEF StartThread, TypeOK
  <2>5. TypeOK'
    BY <1>1, <2>1, <2>3, <2>4 DEF StartThread, AppUnchanged, TypeOK
  <2> QED
    BY <1>1, <2>3, <2>5 DEF StartThread, AppUnchanged, Fresh, FdKnown
<1>2. CASE StartLists \/ StopFlag \/ StopJoin
  BY <1>2 DEF StartLists, StopFlag, StopJoin, AppUnchanged, TypeOK, Fresh, FdKnown
<1>3. CASE StopNode
  <2> DEFINE used == {k \in Slots : slot[k] # NoClient}
  <2>1. PICK order \in [1 .. Cardinality(used) -> used] :
          reaper' = [reaper EXCEPT !.run = FALSE,
            !.box = @ \o [i \in 1 .. Cardinality(used) |-> slot[order[i]]]]
    BY <1>3 DEF StopNode
  <2>2. [i \in 1 .. Cardinality(used) |-> slot[order[i]]] \in Seq(Clients)
    <3>1. Cardinality(used) \in Nat
      BY UsedSlots
    <3>2. \A i \in 1 .. Cardinality(used) : slot[order[i]] \in Clients
      BY DEF TypeOK
    <3> QED
      BY <3>1, <3>2
  <2>3. reaper' \in ThrRec(Clients)
    <3>1. reaper.box \o [i \in 1 .. Cardinality(used) |-> slot[order[i]]] \in Seq(Clients)
      <4>1. reaper.box \in Seq(Clients)
        BY DEF TypeOK, ThrRec
      <4> HIDE DEF used
      <4> QED
        BY <2>2, <4>1, LongerSeq
    <3> QED
      BY <2>1, <3>1 DEF TypeOK, ThrRec
  <2>4. prt' \in [Prints -> PrtRec]
    BY <1>3, ClearedTexts DEF StopNode, TypeOK
  <2>5. peer' \in [Clients -> PeerStates]
        /\ \A c \in Clients : peer'[c] \in {"none", "backlog"} => peer'[c] = peer[c]
    BY <1>3 DEF StopNode, TypeOK, PeerStates
  <2>6. slot' \in [Slots -> Clients \cup {NoClient}]
    BY <1>3 DEF StopNode
  <2>7. param' \in [Clients \cup {"listen"} -> ParamRec]
        /\ \A c \in Clients : param'[c].fd = param[c].fd
    BY <1>3 DEF StopNode, TypeOK, ParamRec
  <2> QED
    BY <1>3, <2>3, <2>4, <2>5, <2>6, <2>7 DEF StopNode, TypeOK, Fresh, FdKnown
<1>4. CASE StopEnd
  BY <1>4 DEF StopEnd, TypeOK, Fresh, FdKnown
<1>5. CASE \E p \in Prints, w \in Printers, id \in 0 .. NumSlots : Print0Test(w, p, id)
  <2>1. prt' \in [Prints -> PrtRec]
    <3>1. PICK p \in Prints, w \in Printers, id \in 0 .. NumSlots : Print0Test(w, p, id)
      BY <1>5
    <3> DEFINE o == IF id = 0 THEN NoClient ELSE slot[id]
    <3>2. [prt[p] EXCEPT !.fate = "given", !.by = w, !.id = id, !.owner = o] \in PrtRec
      <4>1. prt[p] \in PrtRec
        BY DEF TypeOK
      <4>2. o \in Clients \cup {NoClient}
        BY DEF TypeOK, Slots
      <4> HIDE DEF o
      <4> QED
        BY <4>1, <4>2 DEF PrtRec
    <3> QED
      BY <3>1, <3>2 DEF Print0Test, TypeOK
  <2> QED
    BY <1>5, <2>1 DEF Print0Test, AppUnchanged, TypeOK, Fresh, FdKnown
<1>6. CASE \E p \in Prints : Print0Insert(p)
  <2>1. PICK p \in Prints : Print0Insert(p)
    BY <1>6
  <2>2. prt[p].id # 0 => prt[p].id \in Slots
    BY DEF TypeOK, PrtRec, Slots
  <2>3. prt' \in [Prints -> PrtRec]
    <3> DEFINE o == IF prt[p].id = 0 THEN NoClient ELSE held[prt[p].id]
    <3>1. o \in Clients \cup {NoClient}
      BY <2>2 DEF TypeOK, held
    <3>2. [prt[p] EXCEPT !.fate = "queued", !.by = NoClient, !.to = o] \in PrtRec
      <4>1. prt[p] \in PrtRec
        BY DEF TypeOK
      <4> HIDE DEF o
      <4> QED
        BY <3>1, <4>1 DEF PrtRec
    <3> QED
      BY <2>1, <3>2 DEF Print0Insert, TypeOK
  <2> QED
    BY <2>1, <2>3 DEF Print0Insert, AppUnchanged, TypeOK, Fresh, FdKnown
<1> QED
  BY <1>1, <1>2, <1>3, <1>4, <1>5, <1>6 DEF AppStep, StopStep

(* A send that stalls or goes on has m_Lock, or gives it back. *)
LEMMA SendChanges ==
  ASSUME SendStep
  PROVE  /\ UNCHANGED <<app, flag, tel, slot, peer, typed, param, thr, reaper, closeList, prt>>
         /\ stuck' \in Clients \cup {NoClient, "server"}
BY DEF SendStep, SendGoesOn, OnQueryPrintfStalls, ClientStalls

LEMMA SendTypeInv == TypeInv /\ SendStep => TypeInv'
BY SendChanges DEF TypeInv, TypeOK, Fresh, FdKnown

(* Every step belongs to one of the four. *)
LEMMA StepKinds ==
  ASSUME Next
  PROVE  \/ TelStep \/ AppStep \/ ReaperStep \/ SendStep
         \/ \E c \in Clients : ClientLoop(c) \/ ClientBye(c) \/ PeerStep(c)
BY DEF Next, AppStep

(* So does a step that changes nothing.                                     *)
LEMMA StutterTypeInv == TypeInv /\ UNCHANGED vars => TypeInv'
BY DEF TypeInv, TypeOK, Fresh, FdKnown, vars

(* The types hold in every reachable state.                                 *)
LEMMA TypeInvariance == Spec => []TypeInv
<1>1. TypeInv /\ [Next]_vars => TypeInv'
  BY StepKinds, TelTypeInv, AppTypeInv, ThreadTypeInv, SendTypeInv, StutterTypeInv
<1> QED
  BY InitTypeInv, <1>1, PTL DEF Spec

(* Type correctness; that no step applies a record or a queue it has not.   *)
THEOREM TelnetTypeCorrect == Spec => []TypeOK
<1>1. TypeInv => TypeOK
  BY DEF TypeInv
<1> QED
  BY <1>1, TypeInvariance, PTL

-----------------------------------------------------------------------------
(* The slots, apart from the one that is being closed. *)
LEMMA HeldType ==
  ASSUME TypeInv
  PROVE  /\ held \in [Slots -> Clients \cup {NoClient}]
         /\ tel.shut = 0 => held = slot
<1>1. slot \in [Slots -> Clients \cup {NoClient}] /\ \A k \in Slots : k # 0
  BY DEF TypeInv, TypeOK, Slots
<1>2. \A k \in Slots : held[k] \in Clients \cup {NoClient}
  BY <1>1 DEF held
<1> QED
  BY <1>1, <1>2 DEF held

(* tel, with another pc or todo, has the same slot in its hands. *)
LEMMA SameShut ==
  ASSUME TypeInv
  PROVE  /\ \A q : [tel EXCEPT !.pc = q].shut = tel.shut
         /\ \A r : [tel EXCEPT !.todo = r].shut = tel.shut
         /\ \A q, r : [tel EXCEPT !.pc = q, !.todo = r].shut = tel.shut
         /\ \A k : [tel EXCEPT !.shut = k].shut = k
         /\ \A r, k : [tel EXCEPT !.todo = r, !.shut = k].shut = k
<1>1. tel \in TelRec({"none", "idle", "walk", "close", "print", "clear", "ended"})
  BY DEF TypeInv, TypeOK, TelRec
<1> QED
  BY <1>1 DEF TelRec

(* lixClose takes a slot, ... *)
LEMMA CloseHeld ==
  ASSUME TypeInv, (\E k \in Slots : OnClose(k)) \/ CloseListed
  PROVE  /\ UNCHANGED <<param, thr>>
         /\ \/ \E k \in Slots : /\ slot[k] # NoClient /\ CloseSlot(k) /\ held = slot
                                /\ held' = [held EXCEPT ![k] = NoClient]
            \/ UNCHANGED <<held, peer, reaper, prt>>
<1>1. ASSUME NEW k \in Slots, tel.shut = 0, tel'.shut = k, slot' = slot
      PROVE  held = slot /\ held' = [held EXCEPT ![k] = NoClient]
  <2>1. held = slot /\ slot \in [Slots -> Clients \cup {NoClient}]
    BY <1>1, HeldType DEF TypeInv, TypeOK
  <2>2. held' = [j \in Slots |-> IF k = j THEN NoClient ELSE slot[j]]
    BY <1>1 DEF held
  <2> QED
    BY <2>1, <2>2
<1>2. CASE \E k \in Slots : OnClose(k)
  <2>1. PICK k \in Slots : OnClose(k)
    BY <1>2
  <2>2. tel.shut = 0 /\ tel'.shut = k /\ slot' = slot
    BY <2>1, SameShut DEF OnClose, Handles, Free
  <2> QED
    BY <1>1, <2>1, <2>2 DEF OnClose
<1>3. CASE CloseListed
  <2>1. Head(closeList) \in Slots /\ tel.shut = 0 /\ slot' = slot
    BY <1>3 DEF CloseListed, Free, TypeInv, TypeOK
  <2>2. CASE slot[Head(closeList)] # NoClient
    <3>1. tel'.shut = Head(closeList) /\ CloseSlot(Head(closeList))
      BY <1>3, <2>2, SameShut DEF CloseListed
    <3> QED
      BY <1>1, <1>3, <2>1, <2>2, <3>1 DEF CloseListed
  <2>3. CASE slot[Head(closeList)] = NoClient
    <3>1. UNCHANGED <<tel, peer, reaper, prt, param, thr>>
      BY <1>3, <2>3 DEF CloseListed
    <3> QED
      BY <2>1, <3>1 DEF held
  <2> QED
    BY <2>2, <2>3
<1> QED
  BY <1>2, <1>3

(* ... and frees it later, when nobody has it any more. *)
LEMMA FreeHeld ==
  ASSUME TypeInv, FreeSlot
  PROVE  held' = held
<1>1. /\ slot \in [Slots -> Clients \cup {NoClient}] /\ tel'.shut = 0
      /\ slot' = [slot EXCEPT ![tel.shut] = NoClient]
      /\ \A k \in Slots : k # 0
  BY SameShut DEF FreeSlot, TypeInv, TypeOK, Slots
<1>2. \A k \in Slots : slot'[k] = IF k = tel.shut THEN NoClient ELSE slot[k]
  BY <1>1
<1> QED
  BY <1>1, <1>2 DEF held

(* liEvAccept gives a slot to a client. *)
LEMMA AcceptHeld ==
  ASSUME TypeInv, NEW c \in Clients, OnAccept(c)
  PROVE  held = slot /\ held' = slot'
<1>1. tel.shut = 0 /\ tel' = [tel EXCEPT !.todo = @ \ {0}]
  BY DEF OnAccept, Handles, Handled, Free
<1>2. tel'.shut = 0 /\ held = slot
  BY <1>1, SameShut, HeldType
<1>3. slot' \in [Slots -> Clients \cup {NoClient}] /\ \A k \in Slots : k # 0
  BY TelTypeInv DEF TelStep, TypeInv, TypeOK, Slots
<1>4. held' = [k \in Slots |-> slot'[k]]
  BY <1>2, <1>3 DEF held
<1> QED
  BY <1>2, <1>3, <1>4

(* The other steps of the server thread leave the slots as they are. *)
LEMMA OtherHeld ==
  ASSUME TypeInv,
         \/ Select \/ (\E k \in Slots : OnRead(k)) \/ FreeSlot \/ WalkEnd \/ CloseEnd
         \/ (\E p \in Prints : OnQueryPrintf(p)) \/ PrintEnd \/ ClearPrintfList
  PROVE  held' = held
<1>1. slot' = slot /\ tel'.shut = tel.shut => held' = held
  BY DEF held
<1>2. CASE FreeSlot
  BY <1>2, FreeHeld
<1>3. CASE \E k \in Slots : OnRead(k)
  <2>1. slot' = slot /\ \E r : tel' = [tel EXCEPT !.todo = r]
    BY <1>3 DEF OnRead, Handled
  <2> QED
    BY <1>1, <2>1, SameShut
<1>6. CASE \E p \in Prints : OnQueryPrintf(p)
  BY <1>1, <1>6 DEF OnQueryPrintf
<1>4. CASE Select
  <2>1. slot' = slot /\ \/ tel' = [tel EXCEPT !.pc = "ended"]
                        \/ \E r : tel' = [tel EXCEPT !.pc = "walk", !.todo = r]
    BY <1>4 DEF Select
  <2>2. CASE tel' = [tel EXCEPT !.pc = "ended"]
    BY <1>1, <2>1, <2>2, SameShut
  <2>3. CASE \E r : tel' = [tel EXCEPT !.pc = "walk", !.todo = r]
    <3>1. PICK r : tel' = [tel EXCEPT !.pc = "walk", !.todo = r]
      BY <2>3
    <3>2. [tel EXCEPT !.pc = "walk", !.todo = r].shut = tel.shut
      BY SameShut
    <3> QED
      BY <1>1, <2>1, <3>1, <3>2
  <2> QED
    BY <2>1, <2>2, <2>3
<1>5. CASE WalkEnd \/ CloseEnd \/ PrintEnd \/ ClearPrintfList
  BY <1>1, <1>5, SameShut DEF WalkEnd, CloseEnd, PrintEnd, ClearPrintfList
<1> QED
  BY <1>2, <1>3, <1>4, <1>5, <1>6

(* Of the application's steps only selixDestroyNode does, which takes them all. *)
LEMMA AppHeld ==
  ASSUME TypeInv, AppStep
  PROVE  \/ held' = held
         \/ StopNode /\ held = slot /\ held' = [k \in Slots |-> NoClient]
<1>1. slot' = slot /\ tel'.shut = tel.shut => held' = held
  BY DEF held
<1>2. CASE StartThread
  BY <1>1, <1>2, SameShut DEF StartThread
<1>3. CASE StopNode
  <2>1. tel.shut = 0 /\ slot' = [k \in Slots |-> NoClient]
    BY <1>3 DEF StopNode, Free
  <2> QED
    BY <1>3, <2>1, HeldType DEF held
<1>4. CASE UNCHANGED <<slot, tel>>
  BY <1>1, <1>4
<1> QED
  BY <1>2, <1>3, <1>4
  DEF AppStep, StopStep, StartLists, StopFlag, StopJoin, StopEnd, Print0Insert, Print0Test

(* Nor do the steps of the other threads. *)
LEMMA ThreadHeld ==
  ASSUME \/ ReaperStep \/ SendStep \/ UNCHANGED vars
         \/ \E c \in Clients : ClientLoop(c) \/ ClientBye(c) \/ PeerStep(c)
  PROVE  held' = held /\ prt' = prt
<1>1. UNCHANGED <<slot, tel, prt>>
  BY SendChanges
  DEF ReaperStep, ReapBegin, ReapEnd, ReaperEnd, ClientLoop, ClientTake, ClientDone,
      ClientEnd, ClientBye, PeerStep, ThrUnchanged, vars
<1> QED
  BY <1>1 DEF held

-----------------------------------------------------------------------------
(* A text for every client is for no client in particular. *)
ForAll == \A p \in Prints : prt[p].fate = "queued" /\ prt[p].to # NoClient => prt[p].id # 0

PrintInv == TypeInv /\ ForAll /\ QueuedForOne

(* Texts that stay queued, and whose slots keep their clients or had none:  *)
(* a slot that is not in use owns no text, so the next client can have it.  *)
LEMMA KeptPrints ==
  ASSUME PrintInv,
         \A p \in Prints : prt'[p].fate = "queued" =>
           /\ prt'[p] = prt[p]
           /\ \/ prt[p].id \notin Slots
              \/ held'[prt[p].id] = held[prt[p].id]
              \/ held[prt[p].id] = NoClient
  PROVE  ForAll' /\ QueuedForOne'
<1>1. ForAll'
  BY DEF PrintInv, ForAll
<1>2. QueuedForOne'
  <2> SUFFICES ASSUME NEW p \in Prints, prt'[p].fate = "queued", prt'[p].to # NoClient
               PROVE  held'[prt'[p].id] = prt'[p].to
    BY DEF QueuedForOne
  <2>1. prt'[p] = prt[p] /\ prt[p].id \in Slots
    BY DEF PrintInv, TypeInv, TypeOK, ForAll, PrtRec, Slots
  <2>2. held[prt[p].id] = prt[p].to
    BY <2>1 DEF PrintInv, QueuedForOne
  <2> QED
    BY <2>1, <2>2
<1> QED
  BY <1>1, <1>2

(* lixClose on a slot takes its texts along. *)
LEMMA CloseSlotPrints ==
  ASSUME PrintInv, NEW k \in Slots, CloseSlot(k), held' = [held EXCEPT ![k] = NoClient]
  PROVE  ForAll' /\ QueuedForOne'
<1>1. prt' = Cleared({k}) /\ held \in [Slots -> Clients \cup {NoClient}]
  BY HeldType DEF CloseSlot, PrintInv
<1>2. \A p \in Prints : prt'[p].fate = "queued" => prt'[p] = prt[p] /\ prt[p].id # k
  BY <1>1, ClearedTexts DEF PrintInv, TypeInv, TypeOK
<1>3. \A j \in Slots : j # k => held'[j] = held[j]
  BY <1>1
<1> QED
  BY <1>2, <1>3, KeptPrints

(* The steps of the server thread. *)
LEMMA TelPrints ==
  ASSUME PrintInv, TelStep
  PROVE  ForAll' /\ QueuedForOne'
<1> USE DEF PrintInv
<1>1. CASE held' = held /\ prt' = prt
  BY <1>1, KeptPrints
<1>2. CASE \E c \in Clients : OnAccept(c)
  <2>1. PICK c \in Clients : OnAccept(c)
    BY <1>2
  <2>2. held = slot /\ held' = slot' /\ prt' = prt
    BY <2>1, AcceptHeld DEF OnAccept
  <2>3. \A k \in Slots : held'[k] = held[k] \/ held[k] = NoClient
    BY <2>1, <2>2 DEF OnAccept, TypeInv, TypeOK
  <2> QED
    BY <2>2, <2>3, KeptPrints
<1>3. CASE (\E k \in Slots : OnClose(k)) \/ CloseListed
  BY <1>1, <1>3, CloseHeld, CloseSlotPrints
<1>4. CASE \E p \in Prints : OnQueryPrintf(p)
  <2>1. \A p \in Prints : prt'[p].fate = "queued" => prt'[p] = prt[p]
    BY <1>4, TextType DEF OnQueryPrintf, TypeInv, TypeOK
  <2> QED
    BY <1>4, <2>1, OtherHeld, KeptPrints
<1>5. CASE ClearPrintfList
  <2>1. \A p \in Prints : prt'[p].fate # "queued"
    BY <1>5, TextType DEF ClearPrintfList
  <2> QED
    BY <2>1, KeptPrints
<1>6. CASE \/ Select \/ (\E k \in Slots : OnRead(k)) \/ FreeSlot
           \/ WalkEnd \/ CloseEnd \/ PrintEnd
  <2>1. prt' = prt
    BY <1>6 DEF Select, OnRead, FreeSlot, WalkEnd, CloseEnd, PrintEnd
  <2> QED
    BY <1>1, <1>6, <2>1, OtherHeld
<1> QED
  BY <1>2, <1>3, <1>4, <1>5, <1>6 DEF TelStep

(* The steps of the application; of LmnTelPrintf0, above all. *)
LEMMA AppPrints ==
  ASSUME PrintInv, AppStep
  PROVE  ForAll' /\ QueuedForOne'
<1> USE DEF PrintInv, TypeInv
<1>1. CASE held' = held /\ prt' = prt
  BY <1>1, KeptPrints
<1>2. CASE StopNode
  <2>1. \A p \in Prints : prt'[p].fate = "queued" => prt[p].id \notin 0 .. NumSlots
    BY <1>2, ClearedTexts DEF StopNode, TypeOK
  <2>2. \A p \in Prints : prt'[p].fate # "queued"
    BY <2>1 DEF TypeOK, PrtRec
  <2> QED
    BY <2>2, KeptPrints
<1>3. CASE \E p \in Prints, w \in Printers, id \in 0 .. NumSlots : Print0Test(w, p, id)
  <2>1. \A p \in Prints : prt'[p].fate = "queued" => prt'[p] = prt[p]
    BY <1>3 DEF Print0Test, TypeOK, PrtRec
  <2>2. held' = held
    BY <1>3 DEF Print0Test, held
  <2> QED
    BY <2>1, <2>2, KeptPrints
<1>4. CASE \E p \in Prints : Print0Insert(p)
  <2>1. PICK p \in Prints : Print0Insert(p)
    BY <1>4
  <2> DEFINE o == IF prt[p].id = 0 THEN NoClient ELSE held[prt[p].id]
  <2>2. prt[p] \in PrtRec
    BY DEF TypeOK
  <2>3. held' = held /\ \A q \in Prints : q # p => prt'[q] = prt[q]
    BY <2>1 DEF Print0Insert, TypeOK, held
  <2>4. prt'[p] = [prt[p] EXCEPT !.fate = "queued", !.by = NoClient, !.to = o]
    BY <2>1 DEF Print0Insert, TypeOK
  <2>5. prt'[p].id = prt[p].id /\ prt'[p].to = o
    BY <2>2, <2>4 DEF PrtRec
  <2>6. ForAll'
    BY <2>3, <2>5 DEF ForAll
  <2>7. QueuedForOne'
    BY <2>3, <2>5 DEF QueuedForOne
  <2> QED
    BY <2>6, <2>7
<1>5. CASE StopJoin \/ StopEnd \/ StartThread \/ StartLists \/ StopFlag
  <2>1. prt' = prt /\ ~StopNode
    BY <1>5 DEF StopJoin, StopEnd, StartThread, StartLists, StopFlag, StopNode
  <2> QED
    BY <1>1, <2>1, AppHeld
<1> QED
  BY <1>2, <1>3, <1>4, <1>5 DEF AppStep, StopStep

(* The property: a text queued while a client has its slot is sent to that  *)
(* client or to nobody.  Inductive with TypeInv, and with what ForAll says  *)
(* of the texts for every client; the index of a slot alone does not tell   *)
(* its clients apart, so it needs the queue to be purged whenever a slot    *)
(* becomes free, and the texts that come between the purge and the freeing  *)
(* to be for nobody in particular.                                          *)
THEOREM TelnetQueuedForOne == Spec => []QueuedForOne
<1>1. Init => ForAll /\ QueuedForOne
  BY TextType DEF Init, ForAll, QueuedForOne
<1>2. ASSUME PrintInv, [Next]_vars PROVE ForAll' /\ QueuedForOne'
  <2>1. CASE held' = held /\ prt' = prt
    BY <1>2, <2>1, KeptPrints
  <2>2. CASE \/ ReaperStep \/ SendStep \/ UNCHANGED vars
             \/ \E c \in Clients : ClientLoop(c) \/ ClientBye(c) \/ PeerStep(c)
    BY <2>1, <2>2, ThreadHeld
  <2> QED
    BY <1>2, <2>2, StepKinds, TelPrints, AppPrints
<1>3. ForAll /\ QueuedForOne /\ TypeInv /\ [Next]_vars => (ForAll /\ QueuedForOne)'
  BY <1>2 DEF PrintInv
<1> QED
  BY <1>1, <1>3, TypeInvariance, PTL DEF Spec

-----------------------------------------------------------------------------
(* Where a client is: in a slot that is not being closed, queued for hListenThrd or in its hands.    *)
Queue == 1 .. Len(reaper.box)

(* It is nowhere twice, ... *)
SlotOnce == \A j, k \in Slots : held[j] = held[k] /\ held[j] # NoClient => j = k
QueueOnce == \A i, j \in Queue : reaper.box[i] = reaper.box[j] => i = j
OnePlace ==
  /\ \A i \in Queue : reaper.box[i] # reaper.msg /\ \A k \in Slots : held[k] # reaper.box[i]
  /\ \A k \in Slots : held[k] \in Clients => held[k] # reaper.msg

(* ... it is somewhere exactly if its parameters are live, ... *)
SlotLive == \A k \in Slots : held[k] # NoClient =>
              param[held[k]].st = "live" /\ peer[held[k]] \in {"open", "data", "eof"}
QueueLive == \A i \in Queue :
               param[reaper.box[i]].st = "live" /\ peer[reaper.box[i]] = "closed"
MsgLive == reaper.msg \in Clients =>
             param[reaper.msg].st = "live" /\ peer[reaper.msg] = "closed"
Somewhere == \A c \in Clients : param[c].st = "live" =>
               \/ \E k \in Slots : held[k] = c
               \/ \E i \in Queue : reaper.box[i] = c
               \/ reaper.msg = c

(* ... which its thread needs as long as it runs. *)
ThreadLive == \A c \in Clients : thr[c].pc \in {"idle", "busy"} => param[c].st = "live"
NoMsg == reaper.pc # "busy" => reaper.msg = "none"

PlaceInv == /\ SlotOnce /\ QueueOnce /\ OnePlace /\ SlotLive /\ QueueLive /\ MsgLive
            /\ Somewhere /\ ThreadLive /\ NoMsg

(* Before the server is started there is nothing. *)
Down == app = "down" => /\ tel.pc = "none" /\ tel.shut = 0 /\ reaper.pc = "none"
                        /\ \A c \in Clients : param[c].st = "none"

(* The queue with one client more. *)
LEMMA QueuePost ==
  ASSUME TypeInv, NEW c \in Clients, reaper' = Post(reaper, c)
  PROVE  /\ Queue' = 1 .. (Len(reaper.box) + 1) /\ Len(reaper.box) \in Nat
         /\ \A i \in Queue : reaper'.box[i] = reaper.box[i]
         /\ reaper'.box[Len(reaper.box) + 1] = c
         /\ reaper'.msg = reaper.msg /\ reaper'.pc = reaper.pc
<1>1. reaper.box \in Seq(Clients)
  BY DEF TypeInv, TypeOK, ThrRec
<1>2. reaper'.box = Append(reaper.box, c) /\ reaper'.msg = reaper.msg /\ reaper'.pc = reaper.pc
  BY DEF Post, TypeInv, TypeOK, ThrRec
<1> QED
  BY <1>1, <1>2 DEF Queue

(* lixClose moves the client from its slot to the queue. *)
LEMMA CloseSlotPlaces ==
  ASSUME TypeInv, PlaceInv, NEW k \in Slots, slot[k] # NoClient, CloseSlot(k), held = slot,
         held' = [held EXCEPT ![k] = NoClient], param' = param, thr' = thr
  PROVE  PlaceInv'
<1> DEFINE c == held[k]
           n == Len(reaper.box) + 1
<1>1. c \in Clients /\ held \in [Slots -> Clients \cup {NoClient}]
      /\ peer \in [Clients -> PeerStates] /\ NoClient \notin Clients
  BY TelnetAssumption, HeldType DEF TypeInv, TypeOK, TelnetAssumption
<1>2. /\ Queue' = 1 .. n /\ n - 1 \in Nat /\ Queue = 1 .. (n - 1)
      /\ \A i \in Queue : reaper'.box[i] = reaper.box[i]
      /\ reaper'.box[n] = c /\ reaper'.msg = reaper.msg /\ reaper'.pc = reaper.pc
  <2>1. reaper' = Post(reaper, c)
    BY DEF CloseSlot
  <2> HIDE DEF c
  <2> QED
    BY <1>1, <2>1, QueuePost DEF Queue
<1>3. \A i \in Queue' : i \in Queue \/ i = n
  BY <1>2
<1>4. n \notin Queue /\ n \in Queue' /\ Queue \subseteq Queue'
  BY <1>2
<1>5. /\ held' = [held EXCEPT ![k] = NoClient] /\ peer' = [peer EXCEPT ![c] = "closed"]
  BY DEF CloseSlot
<1>6. \A i \in Queue : reaper.box[i] \in Clients
  BY DEF TypeInv, TypeOK, ThrRec, Queue
<1>7. \A j \in Slots : j # k => held'[j] = held[j] /\ held[j] # c
  BY <1>1, <1>5 DEF PlaceInv, SlotOnce
<1>8. held'[k] = NoClient /\ peer'[c] = "closed" /\ \A d \in Clients : d # c => peer'[d] = peer[d]
  BY <1>1, <1>5
<1> HIDE DEF c, n
<1>9. SlotOnce'
  BY <1>1, <1>7, <1>8 DEF PlaceInv, SlotOnce
<1>10. QueueOnce'
  BY <1>2, <1>3, <1>4 DEF PlaceInv, QueueOnce, OnePlace, c
<1>11. OnePlace'
  BY <1>1, <1>2, <1>3, <1>6, <1>7, <1>8 DEF PlaceInv, OnePlace, c
<1>12. SlotLive'
  BY <1>1, <1>7, <1>8 DEF PlaceInv, SlotLive
<1>13. QueueLive'
  BY <1>1, <1>2, <1>3, <1>6, <1>8 DEF PlaceInv, QueueLive, SlotLive, c
<1>14. MsgLive'
  BY <1>1, <1>2, <1>8 DEF PlaceInv, MsgLive
<1>15. Somewhere'
  <2> SUFFICES ASSUME NEW d \in Clients, param[d].st = "live"
               PROVE  \/ \E j \in Slots : held'[j] = d
                      \/ \E i \in Queue' : reaper'.box[i] = d
                      \/ reaper'.msg = d
    BY DEF Somewhere
  <2>1. CASE d = c
    BY <1>2, <1>4, <2>1
  <2>2. CASE \E j \in Slots : held[j] = d /\ j # k
    BY <1>7, <2>2
  <2>3. CASE \E i \in Queue : reaper.box[i] = d
    BY <1>2, <1>4, <2>3
  <2> QED
    BY <1>2, <2>1, <2>2, <2>3 DEF PlaceInv, Somewhere, c
<1>16. ThreadLive' /\ NoMsg'
  BY <1>2 DEF PlaceInv, ThreadLive, NoMsg
<1> QED
  BY <1>9, <1>10, <1>11, <1>12, <1>13, <1>14, <1>15, <1>16 DEF PlaceInv

(* What does not touch the places. *)
LEMMA SamePlaces ==
  ASSUME TypeInv, PlaceInv, held' = held, reaper' = reaper,
         \A c \in Clients : param'[c].st = param[c].st,
         \A c \in Clients : \/ peer'[c] = peer[c]
                            \/ peer[c] \in {"none", "backlog"}
                            \/ /\ peer[c] \in {"open", "data", "eof"}
                               /\ peer'[c] \in {"open", "data", "eof"},
         \A c \in Clients : thr'[c].pc \in {"idle", "busy"} => thr[c].pc \in {"idle", "busy"}
  PROVE  PlaceInv'
<1>1. \A i \in Queue : reaper.box[i] \in Clients
  BY DEF TypeInv, TypeOK, ThrRec, Queue
<1>2. Queue' = Queue
  BY DEF Queue
<1>3. SlotOnce' /\ QueueOnce' /\ OnePlace'
  BY <1>2 DEF PlaceInv, SlotOnce, QueueOnce, OnePlace
<1>4. SlotLive'
  BY HeldType DEF PlaceInv, SlotLive
<1>5. QueueLive' /\ MsgLive'
  BY <1>1, <1>2 DEF PlaceInv, QueueLive, MsgLive
<1>6. Somewhere'
  BY <1>2 DEF PlaceInv, Somewhere
<1>7. ThreadLive' /\ NoMsg'
  BY DEF PlaceInv, ThreadLive, NoMsg
<1> QED
  BY <1>3, <1>4, <1>5, <1>6, <1>7 DEF PlaceInv

(* A client that waits to be accepted is nowhere. *)
LEMMA WaitingNowhere ==
  ASSUME TypeInv, PlaceInv, NEW c \in Clients, peer[c] = "backlog"
  PROVE  /\ \A k \in Slots : held[k] # c
         /\ \A i \in Queue : reaper.box[i] # c
         /\ reaper.msg # c /\ thr[c].pc = "none" /\ c # NoClient
BY TelnetAssumption DEF TelnetAssumption, TypeInv, Fresh, PlaceInv, SlotLive, QueueLive, MsgLive

(* liEvAccept puts it in a slot, or turns it away. *)
LEMMA AcceptPlaces ==
  ASSUME TypeInv, PlaceInv, NEW c \in Clients, OnAccept(c)
  PROVE  PlaceInv'
<1>1. /\ \A k \in Slots : held[k] # c
      /\ \A i \in Queue : reaper.box[i] # c
      /\ reaper.msg # c /\ thr[c].pc = "none" /\ c # NoClient
  BY WaitingNowhere DEF OnAccept
<1>2. reaper' = reaper /\ Queue' = Queue
  BY DEF OnAccept, Queue
<1>3. \A i \in Queue : reaper.box[i] \in Clients
  BY DEF TypeInv, TypeOK, ThrRec, Queue
<1>0. held = slot /\ held' = slot'
  BY AcceptHeld
<1>4. \A k \in Slots : held[k] \in Clients \/ held[k] = NoClient
  BY <1>0 DEF TypeInv, TypeOK
<1>5. CASE \E k \in Slots : held[k] = NoClient /\ held' = [held EXCEPT ![k] = c]
  <2>1. PICK k \in Slots : held[k] = NoClient /\ held' = [held EXCEPT ![k] = c]
    BY <1>5
  <2>2. held'[k] = c /\ \A j \in Slots : j # k => held'[j] = held[j]
    BY <1>0, <2>1 DEF TypeInv, TypeOK
  <2>3. held' # held
    BY <1>1, <2>2
  <2>4. /\ peer' = [peer EXCEPT ![c] = "open"]
        /\ \E j \in Slots : param' = [param EXCEPT ![c] = [st |-> "live", fd |-> j]]
        /\ thr' = [thr EXCEPT ![c] = Post(NewThread, "init")]
    BY <1>0, <2>3 DEF OnAccept
  <2>5. /\ peer'[c] = "open" /\ param'[c].st = "live"
        /\ \A d \in Clients : d # c =>
             peer'[d] = peer[d] /\ param'[d] = param[d] /\ thr'[d] = thr[d]
    BY <2>4 DEF TypeInv, TypeOK
  <2>6. SlotOnce'
    BY <1>1, <2>2 DEF PlaceInv, SlotOnce
  <2>7. QueueOnce' /\ OnePlace'
    BY <1>1, <1>2, <2>2 DEF PlaceInv, QueueOnce, OnePlace
  <2>8. SlotLive'
    BY <1>1, <1>4, <2>2, <2>5 DEF PlaceInv, SlotLive
  <2>9. QueueLive' /\ MsgLive'
    BY <1>1, <1>2, <1>3, <2>5 DEF PlaceInv, QueueLive, MsgLive
  <2>10. Somewhere'
    <3>1. \A d \in Clients : (\E j \in Slots : held[j] = d) => \E j \in Slots : held'[j] = d
      BY <1>1, <2>1, <2>2, TelnetAssumption DEF TelnetAssumption
    <3> QED
      BY <1>2, <2>2, <2>5, <3>1 DEF PlaceInv, Somewhere
  <2>11. ThreadLive' /\ NoMsg'
    BY <1>2, <2>5 DEF PlaceInv, ThreadLive, NoMsg
  <2> QED
    BY <2>6, <2>7, <2>8, <2>9, <2>10, <2>11 DEF PlaceInv
<1>6. CASE held' = held /\ thr' = thr
  <2>1. peer' = [peer EXCEPT ![c] = "closed"]
        /\ param' = [param EXCEPT ![c] = [st |-> "freed", fd |-> 0]]
    <3>1. ~\E k \in Slots : held[k] = NoClient /\ held' = [held EXCEPT ![k] = c]
      BY <1>0, <1>1, <1>6 DEF TypeInv, TypeOK
    <3> QED
      BY <1>0, <3>1 DEF OnAccept
  <2>2. /\ param'[c].st = "freed"
        /\ \A d \in Clients : d # c => peer'[d] = peer[d] /\ param'[d] = param[d]
    BY <2>1 DEF TypeInv, TypeOK
  <2>3. SlotOnce' /\ QueueOnce' /\ OnePlace'
    BY <1>2, <1>6 DEF PlaceInv, SlotOnce, QueueOnce, OnePlace
  <2>4. SlotLive'
    BY <1>1, <1>4, <1>6, <2>2 DEF PlaceInv, SlotLive
  <2>5. QueueLive' /\ MsgLive'
    BY <1>1, <1>2, <1>3, <2>2 DEF PlaceInv, QueueLive, MsgLive
  <2>6. Somewhere'
    BY <1>2, <1>6, <2>2 DEF PlaceInv, Somewhere
  <2>7. ThreadLive' /\ NoMsg'
    BY <1>1, <1>2, <1>6, <2>2 DEF PlaceInv, ThreadLive, NoMsg
  <2> QED
    BY <2>3, <2>4, <2>5, <2>6, <2>7 DEF PlaceInv
<1> QED
  BY <1>0, <1>5, <1>6 DEF OnAccept

(* The steps of the server thread. *)
LEMMA TelPlaces ==
  ASSUME TypeInv, PlaceInv, TelStep
  PROVE  PlaceInv'
<1>1. CASE UNCHANGED <<held, peer, param, thr, reaper>>
  BY <1>1, SamePlaces
<1>2. CASE \E c \in Clients : OnAccept(c)
  BY <1>2, AcceptPlaces
<1>3. CASE \E k \in Slots : OnRead(k)
  <2>1. PICK k \in Slots : OnRead(k)
    BY <1>3
  <2> DEFINE c == slot[k]
  <2>2. c \in Clients /\ thr' = [thr EXCEPT ![c] = Post(thr[c], "data")]
        /\ peer[c] = "data" /\ peer' = [peer EXCEPT ![c] = "open"]
    BY <2>1 DEF OnRead, TypeInv, TypeOK
  <2>3. Post(thr[c], "data").pc = thr[c].pc
    <3>1. thr[c] \in ThrRec({"init", "data"})
      BY <2>2 DEF TypeInv, TypeOK
    <3> HIDE DEF c
    <3> QED
      BY <3>1, PostType
  <2>4. \A d \in Clients : thr'[d].pc = thr[d].pc /\ (d # c => peer'[d] = peer[d])
        /\ peer'[c] = "open"
    BY <2>2, <2>3 DEF TypeInv, TypeOK
  <2>5. held' = held /\ UNCHANGED <<param, reaper>>
    BY <1>3, <2>1, OtherHeld DEF OnRead
  <2> QED
    BY <2>2, <2>4, <2>5, SamePlaces
<1>4. CASE (\E k \in Slots : OnClose(k)) \/ CloseListed
  BY <1>1, <1>4, CloseHeld, CloseSlotPlaces
<1>5. CASE \/ Select \/ FreeSlot \/ WalkEnd \/ CloseEnd
           \/ (\E p \in Prints : OnQueryPrintf(p)) \/ PrintEnd \/ ClearPrintfList
  <2>1. held' = held
    BY <1>5, OtherHeld
  <2>2. UNCHANGED <<peer, param, thr, reaper>>
    BY <1>5 DEF Select, FreeSlot, WalkEnd, CloseEnd, OnQueryPrintf, PrintEnd, ClearPrintfList
  <2> QED
    BY <1>1, <2>1, <2>2
<1> QED
  BY <1>2, <1>3, <1>4, <1>5 DEF TelStep

(* hListenThrd takes a client, waits for its thread, and frees its          *)
(* parameters.                                                              *)
LEMMA ReaperPlaces ==
  ASSUME TypeInv, PlaceInv, ReaperStep
  PROVE  PlaceInv'
<1>0. held' = held
  BY ThreadHeld
<1>1. reaper.box \in Seq(Clients) /\ \A i \in Queue : reaper.box[i] \in Clients
  BY DEF TypeInv, TypeOK, ThrRec, Queue
<1>2. "none" \notin Clients /\ NoClient \notin Clients
  BY TelnetAssumption DEF TelnetAssumption
<1>3. \A k \in Slots : held[k] \in Clients \/ held[k] = NoClient
  BY HeldType
<1>4. CASE ReapBegin
  <2> DEFINE c == Head(reaper.box)
  <2>1. reaper' = Take(reaper) /\ reaper.box # <<>> /\ reaper.pc = "idle"
        /\ UNCHANGED <<held, peer, param>>
    BY <1>0, <1>4 DEF ReapBegin, CanTake, ThrUnchanged
  <2>2. reaper'.box = Tail(reaper.box) /\ reaper'.msg = c /\ reaper'.pc = "busy"
    BY <2>1 DEF Take, TypeInv, TypeOK, ThrRec
  <2>3. /\ 1 \in Queue /\ reaper.box[1] = c /\ c \in Clients
        /\ \A i \in Queue' : /\ i \in Queue /\ i + 1 \in Queue /\ i + 1 # 1
                             /\ reaper'.box[i] = reaper.box[i + 1]
        /\ \A i \in Queue : i = 1 \/ (i - 1 \in Queue' /\ reaper'.box[i - 1] = reaper.box[i])
    BY <1>1, <2>1, <2>2 DEF Queue
  <2>4. \A d \in Clients : thr'[d].pc = thr[d].pc
    <3>1. thr' = [thr EXCEPT ![c] = [thr[c] EXCEPT !.run = FALSE]]
      BY <1>4 DEF ReapBegin
    <3>2. [thr[c] EXCEPT !.run = FALSE].pc = thr[c].pc
      BY <2>3, ThreadType DEF TypeInv, TypeOK
    <3> QED
      BY <3>1, <3>2 DEF TypeInv, TypeOK
  <2> HIDE DEF c
  <2>5. SlotOnce' /\ SlotLive'
    BY <2>1 DEF PlaceInv, SlotOnce, SlotLive
  <2>6. QueueOnce'
    <3> SUFFICES ASSUME NEW i \in Queue', NEW j \in Queue', reaper'.box[i] = reaper'.box[j]
                 PROVE  i = j
      BY DEF QueueOnce
    <3>1. i + 1 = j + 1
      BY <2>3 DEF PlaceInv, QueueOnce
    <3> QED
      BY <3>1 DEF Queue
  <2>11. \A i \in Queue' : /\ \E j \in Queue : reaper'.box[i] = reaper.box[j]
                           /\ reaper'.box[i] # c
    <3> TAKE i \in Queue'
    <3>1. i + 1 \in Queue /\ reaper'.box[i] = reaper.box[i + 1] /\ i + 1 # 1
      BY <2>3
    <3>2. reaper.box[i + 1] # reaper.box[1]
      BY <2>3, <3>1 DEF PlaceInv, QueueOnce
    <3> QED
      BY <2>3, <3>1, <3>2
  <2>7. OnePlace'
    <3>1. \A k \in Slots : held[k] # c
      BY <2>3 DEF PlaceInv, OnePlace
    <3> QED
      BY <2>1, <2>2, <2>11, <3>1 DEF PlaceInv, OnePlace
  <2>8. QueueLive' /\ MsgLive'
    <3>1. param[c].st = "live" /\ peer[c] = "closed"
      BY <2>3 DEF PlaceInv, QueueLive
    <3> QED
      BY <2>1, <2>2, <2>11, <3>1 DEF PlaceInv, QueueLive, MsgLive
  <2>9. Somewhere'
    <3> SUFFICES ASSUME NEW d \in Clients, param[d].st = "live",
                        ~(\E k \in Slots : held[k] = d), d # c
                 PROVE  \E i \in Queue' : reaper'.box[i] = d
      BY <2>1, <2>2 DEF Somewhere
    <3>1. reaper.msg = "none"
      BY <2>1 DEF PlaceInv, NoMsg
    <3>2. PICK i \in Queue : reaper.box[i] = d
      BY <1>2, <3>1 DEF PlaceInv, Somewhere
    <3> QED
      BY <2>3, <3>2
  <2>10. ThreadLive' /\ NoMsg'
    BY <2>1, <2>2, <2>4 DEF PlaceInv, ThreadLive, NoMsg
  <2> QED
    BY <2>5, <2>6, <2>7, <2>8, <2>9, <2>10 DEF PlaceInv
<1>5. CASE ReapEnd
  <2> DEFINE c == reaper.msg
  <2>1. /\ reaper' = Done(reaper) /\ thr[c].pc = "ended" /\ UNCHANGED <<held, peer, thr>>
        /\ param' = [param EXCEPT ![c] = [st |-> "freed", fd |-> 0]]
    BY <1>0, <1>5 DEF ReapEnd, ThrUnchanged
  <2>2. reaper'.box = reaper.box /\ reaper'.msg = "none" /\ Queue' = Queue
    BY <2>1 DEF Done, TypeInv, TypeOK, ThrRec, Queue
  <2>3. \A d \in Clients : /\ d # c => param'[d] = param[d]
                           /\ d = c => param'[d].st = "freed"
    BY <2>1 DEF TypeInv, TypeOK
  <2> HIDE DEF c
  <2>4. /\ \A i \in Queue : reaper.box[i] # c
        /\ \A k \in Slots : held[k] \in Clients => held[k] # c
    BY DEF PlaceInv, OnePlace, c
  <2>5. SlotOnce' /\ QueueOnce'
    BY <2>1, <2>2 DEF PlaceInv, SlotOnce, QueueOnce
  <2>6. OnePlace'
    BY <1>1, <1>2, <2>1, <2>2 DEF PlaceInv, OnePlace
  <2>7. SlotLive'
    BY <1>3, <2>1, <2>3, <2>4 DEF PlaceInv, SlotLive
  <2>8. QueueLive' /\ MsgLive'
    BY <1>1, <1>2, <2>1, <2>2, <2>3, <2>4 DEF PlaceInv, QueueLive, MsgLive
  <2>9. Somewhere'
    BY <2>1, <2>2, <2>3 DEF PlaceInv, Somewhere, c
  <2>10. ThreadLive' /\ NoMsg'
    BY <2>1, <2>2, <2>3 DEF PlaceInv, ThreadLive, NoMsg
  <2> QED
    BY <2>5, <2>6, <2>7, <2>8, <2>9, <2>10 DEF PlaceInv
<1>6. CASE ReaperEnd
  <2>1. /\ reaper' = End(reaper) /\ reaper.pc = "idle" /\ UNCHANGED <<held, peer, param, thr>>
    BY <1>0, <1>6 DEF ReaperEnd, CanEnd, ThrUnchanged
  <2>2. reaper'.box = reaper.box /\ reaper'.msg = reaper.msg /\ Queue' = Queue
    BY <2>1 DEF End, TypeInv, TypeOK, ThrRec, Queue
  <2>3. SlotOnce' /\ QueueOnce' /\ OnePlace'
    BY <2>1, <2>2 DEF PlaceInv, SlotOnce, QueueOnce, OnePlace
  <2>4. SlotLive' /\ QueueLive' /\ MsgLive' /\ Somewhere'
    BY <2>1, <2>2 DEF PlaceInv, SlotLive, QueueLive, MsgLive, Somewhere
  <2>5. ThreadLive' /\ NoMsg'
    BY <2>1, <2>2 DEF PlaceInv, ThreadLive, NoMsg
  <2> QED
    BY <2>3, <2>4, <2>5 DEF PlaceInv
<1> QED
  BY <1>4, <1>5, <1>6 DEF ReaperStep

(* The steps of the clients' threads and of the peers move no client. *)
LEMMA ClientPlaces ==
  ASSUME TypeInv, PlaceInv,
         NEW c \in Clients, ClientLoop(c) \/ ClientBye(c) \/ PeerStep(c)
  PROVE  PlaceInv'
<1>0. held' = held
  BY ThreadHeld
<1>1. thr[c] \in ThrRec({"init", "data"})
  BY DEF TypeInv, TypeOK
<1>2. CASE PeerStep(c)
  <2>1. \A d \in Clients : \/ peer'[d] = peer[d]
                           \/ peer[d] \in {"none", "backlog"}
                           \/ /\ peer[d] \in {"open", "data", "eof"}
                              /\ peer'[d] \in {"open", "data", "eof"}
    BY <1>2 DEF PeerStep, TypeInv, TypeOK
  <2> QED
    BY <1>0, <1>2, <2>1, SamePlaces DEF PeerStep
<1>3. CASE ClientLoop(c) \/ ClientBye(c)
  <2>1. UNCHANGED <<held, reaper, peer, param>>
    BY <1>0, <1>3 DEF ClientLoop, ClientTake, ClientDone, ClientEnd, ClientBye, ThrUnchanged
  <2>2. /\ thr' = [thr EXCEPT ![c] = Take(thr[c])] \/ thr' = [thr EXCEPT ![c] = Done(thr[c])]
           \/ thr' = [thr EXCEPT ![c] = End(thr[c])]
        /\ thr[c].pc \in {"idle", "busy"}
    BY <1>3 DEF ClientLoop, ClientTake, ClientDone, ClientEnd, ClientBye, CanTake, CanEnd
  <2>3. \A d \in Clients : thr'[d].pc \in {"idle", "busy"} => thr[d].pc \in {"idle", "busy"}
    BY <2>2 DEF TypeInv, TypeOK
  <2> QED
    BY <2>1, <2>3, SamePlaces
<1> QED
  BY <1>2, <1>3

(* selixDestroyNode moves every client that has a slot to the queue, each   *)
(* once because the slots are visited in order.                             *)
LEMMA StopNodePlaces ==
  ASSUME TypeInv, PlaceInv, StopNode
  PROVE  PlaceInv'
<1>0. held = slot /\ held' = [k \in Slots |-> NoClient]
  <2>1. tel.shut = 0 /\ tel' = tel /\ slot' = [k \in Slots |-> NoClient]
    BY DEF StopNode, Free
  <2> QED
    BY <2>1, HeldType DEF held
<1> DEFINE used == {k \in Slots : slot[k] # NoClient}
           n == Cardinality(used)
           m == Len(reaper.box)
<1>1. PICK order \in [1 .. n -> used] :
        /\ \A i, j \in DOMAIN order : i < j => order[i] < order[j]
        /\ reaper' = [reaper EXCEPT !.run = FALSE, !.box = @ \o [i \in 1 .. n |-> slot[order[i]]]]
  BY DEF StopNode
<1> DEFINE added == [i \in 1 .. n |-> slot[order[i]]]
<1>2. n \in Nat /\ IsFiniteSet(used) /\ used \subseteq Slots
  BY UsedSlots
<1>3. "none" \notin Clients /\ NoClient \notin Clients /\ Slots \subseteq Nat
  BY TelnetAssumption DEF TelnetAssumption, Slots
<1>4. \A k \in used : slot[k] \in Clients
  BY DEF TypeInv, TypeOK
<1>5. reaper.box \in Seq(Clients) /\ m \in Nat
  BY DEF TypeInv, TypeOK, ThrRec
<1>6. /\ UNCHANGED thr /\ slot' = [k \in Slots |-> NoClient]
      /\ peer' = [c \in Clients |-> IF \E k \in used : slot[k] = c THEN "closed" ELSE peer[c]]
      /\ \A c \in Clients : param'[c].st = param[c].st
  <2>1. param' = [param EXCEPT !["listen"].st = "freed"] /\ "listen" \notin Clients
    BY TelnetAssumption DEF TelnetAssumption, StopNode
  <2> QED
    BY <2>1 DEF StopNode, TypeInv, TypeOK, ParamRec
<1>7. reaper'.box = reaper.box \o added /\ reaper'.msg = reaper.msg /\ reaper'.pc = reaper.pc
  BY <1>1 DEF TypeInv, TypeOK, ThrRec
<1> HIDE DEF used, m
(* The order is a permutation of the slots in use. *)
<1>8. \A i, j \in 1 .. n : order[i] = order[j] => i = j
  <2> SUFFICES ASSUME NEW i \in 1 .. n, NEW j \in 1 .. n, i < j PROVE order[i] # order[j]
    BY <1>2
  <2>1. order[i] < order[j] /\ order[i] \in Nat /\ order[j] \in Nat
    BY <1>1, <1>2, <1>3
  <2> QED
    BY <2>1
<1>9. \A k \in used : \E i \in 1 .. n : order[i] = k
  <2>1. order \in Injection(1 .. n, used)
    BY <1>8 DEF Injection, IsInjective
  <2>2. Cardinality(1 .. n) = n
    BY <1>2, FS_Interval
  <2>3. order \in Surjection(1 .. n, used)
    BY <1>2, <2>1, <2>2, FS_Injection
  <2> QED
    BY <2>3 DEF Surjection
(* What is added to the queue are the clients that had a slot, once each. *)
<1>10. /\ added \in Seq(Clients) /\ Len(added) = n
       /\ \A i \in 1 .. n : added[i] = slot[order[i]] /\ order[i] \in used
  BY <1>2, <1>4
<1> HIDE DEF added, n
<1>11. \A i, j \in 1 .. n : added[i] = added[j] => i = j
  <2> SUFFICES ASSUME NEW i \in 1 .. n, NEW j \in 1 .. n, added[i] = added[j] PROVE i = j
    OBVIOUS
  <2>1. order[i] = order[j]
    <3>1. slot[order[i]] = slot[order[j]] /\ order[i] \in Slots /\ order[j] \in Slots
          /\ slot[order[i]] # NoClient
      BY <1>2, <1>3, <1>4, <1>10
    <3> QED
      BY <1>0, <3>1 DEF PlaceInv, SlotOnce
  <2> QED
    BY <1>8, <2>1
<1>12. \A i \in Queue' : \/ i \in Queue /\ reaper'.box[i] = reaper.box[i]
                         \/ i - m \in 1 .. n /\ i \notin Queue /\ reaper'.box[i] = added[i - m]
  BY <1>2, <1>5, <1>7, <1>10 DEF Queue, m
<1>13. \A i \in Queue : i \in Queue' /\ reaper'.box[i] = reaper.box[i]
  BY <1>2, <1>5, <1>7, <1>10 DEF Queue, m
<1>14. \A i \in 1 .. n : m + i \in Queue' /\ reaper'.box[m + i] = added[i]
  BY <1>2, <1>5, <1>7, <1>10 DEF Queue, m
<1>15. \A i \in 1 .. n : /\ added[i] \in Clients /\ added[i] # reaper.msg
                         /\ \E k \in used : slot[k] = added[i]
                         /\ \A j \in Queue : added[i] # reaper.box[j]
  <2> TAKE i \in 1 .. n
  <2>1. order[i] \in Slots /\ added[i] = slot[order[i]] /\ added[i] \in Clients
    BY <1>2, <1>4, <1>10
  <2> QED
    BY <1>0, <1>10, <2>1 DEF PlaceInv, OnePlace
<1>16. SlotOnce' /\ SlotLive'
  BY <1>0, <1>6 DEF SlotOnce, SlotLive
<1>17. QueueOnce'
  <2> SUFFICES ASSUME NEW i \in Queue', NEW j \in Queue', reaper'.box[i] = reaper'.box[j]
               PROVE  i = j
    BY DEF QueueOnce
  <2>1. CASE i \in Queue /\ j \in Queue
    BY <1>13, <2>1 DEF PlaceInv, QueueOnce
  <2>2. CASE i \notin Queue /\ j \notin Queue
    <3>1. i - m = j - m
      BY <1>11, <1>12, <2>2
    <3> QED
      BY <1>5, <3>1 DEF Queue
  <2>3. CASE i \in Queue /\ j \notin Queue
    BY <1>12, <1>15, <2>3
  <2>4. CASE i \notin Queue /\ j \in Queue
    BY <1>12, <1>15, <2>4
  <2> QED
    BY <2>1, <2>2, <2>3, <2>4
<1>18. OnePlace'
  <2>1. \A i \in Queue' : reaper'.box[i] # reaper'.msg
    BY <1>0, <1>7, <1>12, <1>15 DEF PlaceInv, OnePlace
  <2>2. \A i \in Queue' : reaper'.box[i] \in Clients
    <3>1. \A i \in Queue : reaper.box[i] \in Clients
      BY <1>5 DEF Queue
    <3> QED
      BY <3>1, <1>12, <1>15
  <2>3. \A k \in Slots : slot'[k] = NoClient
    BY <1>6
  <2> QED
    BY <1>0, <1>3, <2>1, <2>2, <2>3 DEF OnePlace
<1>19. \A c \in Clients : (\E k \in used : slot[k] = c) =>
         param[c].st = "live" /\ peer'[c] = "closed"
  BY <1>0, <1>2, <1>3, <1>6 DEF PlaceInv, SlotLive
<1>20. \A c \in Clients : peer[c] = "closed" => peer'[c] = "closed"
  BY <1>6
<1>21. QueueLive'
  <2> SUFFICES ASSUME NEW i \in Queue'
               PROVE  param'[reaper'.box[i]].st = "live" /\ peer'[reaper'.box[i]] = "closed"
    BY DEF QueueLive
  <2>1. CASE i \in Queue
    <3>1. reaper'.box[i] = reaper.box[i] /\ reaper.box[i] \in Clients
      BY <1>5, <1>13, <2>1 DEF Queue
    <3> QED
      BY <1>6, <1>20, <2>1, <3>1 DEF PlaceInv, QueueLive
  <2>2. CASE i \notin Queue
    <3>1. reaper'.box[i] \in Clients /\ \E k \in used : slot[k] = reaper'.box[i]
      BY <1>12, <1>15, <2>2
    <3> QED
      BY <1>6, <1>19, <3>1
  <2> QED
    BY <2>1, <2>2
<1>22. MsgLive'
  BY <1>6, <1>7, <1>20 DEF PlaceInv, MsgLive
<1>23. Somewhere'
  <2> SUFFICES ASSUME NEW c \in Clients, param[c].st = "live"
               PROVE  (\E i \in Queue' : reaper'.box[i] = c) \/ reaper'.msg = c
    BY <1>0, <1>6 DEF Somewhere
  <2>1. CASE \E k \in Slots : slot[k] = c
    <3>1. PICK k \in used : slot[k] = c
      BY <1>3, <2>1 DEF used
    <3>2. PICK i \in 1 .. n : order[i] = k
      BY <1>9, <3>1
    <3> QED
      BY <1>10, <1>14, <3>1, <3>2
  <2>2. CASE \E i \in Queue : reaper.box[i] = c
    BY <1>13, <2>2
  <2> QED
    BY <1>0, <1>7, <2>1, <2>2 DEF PlaceInv, Somewhere
<1>24. ThreadLive' /\ NoMsg'
  BY <1>6, <1>7 DEF PlaceInv, ThreadLive, NoMsg
<1> QED
  BY <1>16, <1>17, <1>18, <1>21, <1>22, <1>23, <1>24 DEF PlaceInv

(* The other steps of the application. *)
LEMMA AppPlaces ==
  ASSUME TypeInv, PlaceInv, Down, AppStep
  PROVE  PlaceInv'
<1>1. CASE UNCHANGED <<held, peer, param, thr, reaper>>
  BY <1>1, SamePlaces
<1>2. CASE StartThread
  <2>1. "listen" \notin Clients /\ "none" \notin Clients
    BY TelnetAssumption DEF TelnetAssumption
  <2>0. held' = held
    BY <1>2, AppHeld DEF StartThread, StopNode
  <2>2. /\ held' = held /\ peer' = peer /\ thr' = thr
        /\ \A c \in Clients : param'[c] = param[c] /\ param[c].st = "none"
    BY <1>2, <2>0, <2>1 DEF StartThread, AppUnchanged, Down, TypeInv, TypeOK
  <2>3. reaper'.box = <<>> /\ reaper'.msg = "none" /\ Queue' = {}
    BY <1>2 DEF StartThread, NewThread, Queue
  <2>4. SlotOnce' /\ SlotLive' /\ ThreadLive'
    BY <2>2, HeldType DEF PlaceInv, SlotOnce, SlotLive, ThreadLive, TypeInv, TypeOK
  <2>5. QueueOnce' /\ OnePlace' /\ QueueLive' /\ MsgLive' /\ NoMsg'
    BY <2>1, <2>3 DEF QueueOnce, OnePlace, QueueLive, MsgLive, NoMsg
  <2>6. Somewhere'
    BY <2>2 DEF Somewhere
  <2> QED
    BY <2>4, <2>5, <2>6 DEF PlaceInv
<1>3. CASE StopNode
  BY <1>3, StopNodePlaces
<1>4. CASE UNCHANGED <<slot, tel, peer, param, thr, reaper>>
  BY <1>1, <1>4 DEF held
<1> QED
  BY <1>2, <1>3, <1>4
  DEF AppStep, StopStep, StartLists, StopFlag, StopJoin, StopEnd, Print0Insert, Print0Test,
      AppUnchanged

(* Nothing runs before the server is started. *)
LEMMA DownStep ==
  ASSUME TypeInv, Down, [Next]_vars
  PROVE  Down'
<1>1. CASE app' # "down"
  BY <1>1 DEF Down
<1>2. CASE app' = "down" /\ app # "down"
  <2>1. app' = app
    BY <1>2, StepKinds, SendChanges
    DEF AppStep, StopStep, StartThread, StartLists, StopFlag, StopJoin, StopNode, StopEnd,
        Print0Insert, Print0Test, TelStep, Select, OnAccept, OnRead, OnClose, FreeSlot, WalkEnd,
        CloseListed, CloseEnd, OnQueryPrintf, PrintEnd, ClearPrintfList, TelUnchanged, ReaperStep, ReapBegin,
        ReapEnd, ReaperEnd, ClientLoop, ClientTake, ClientDone, ClientEnd, ClientBye, PeerStep,
        ThrUnchanged, vars
  <2> QED
    BY <1>2, <2>1
<1>3. CASE app' = "down" /\ app = "down"
  <2>6. tel.shut = 0
    BY <1>3 DEF Down
  <2>1. tel.pc = "none" /\ reaper.pc = "none" /\ \A c \in Clients : param[c].st = "none"
    BY <1>3 DEF Down
  <2>2. ~TelStep
    BY <2>1, <2>6 DEF TelStep, Select, OnAccept, OnRead, OnClose, FreeSlot, WalkEnd, CloseListed,
      CloseEnd, OnQueryPrintf, PrintEnd, ClearPrintfList, Handles
  <2>3. ~ReaperStep
    BY <2>1 DEF ReaperStep, ReapBegin, ReapEnd, ReaperEnd, CanTake, CanEnd
  <2>4. ~AppStep
    BY <1>3 DEF AppStep, StopStep, StartThread, StartLists, StopFlag, StopJoin, StopNode, StopEnd,
      Print0Insert, Print0Test
  <2>5. CASE UNCHANGED <<tel, reaper, param>>
    BY <2>1, <2>5, <2>6 DEF Down
  <2> QED
    BY <2>2, <2>3, <2>4, <2>5, StepKinds, SendChanges
    DEF ClientLoop, ClientTake, ClientDone, ClientEnd, ClientBye, PeerStep, ThrUnchanged, vars
<1> QED
  BY <1>1, <1>2, <1>3

(* The places hold in every reachable state.                                *)
LEMMA PlaceInvariance == Spec => []PlaceInv
<1>1. Init => PlaceInv /\ Down
  <2> SUFFICES ASSUME Init PROVE PlaceInv /\ Down
    OBVIOUS
  <2>1. "none" \notin Clients
    BY TelnetAssumption DEF TelnetAssumption
  <2>2. Queue = {} /\ reaper.msg = "none" /\ reaper.pc = "none"
    BY DEF Init, NoThread, Queue
  <2>0. \A k \in Slots : held[k] = NoClient
    BY DEF Init, held
  <2>3. SlotOnce /\ SlotLive
    BY <2>0 DEF SlotOnce, SlotLive
  <2>4. QueueOnce /\ OnePlace /\ QueueLive /\ MsgLive /\ NoMsg
    BY <2>0, <2>1, <2>2, TelnetAssumption
    DEF QueueOnce, OnePlace, QueueLive, MsgLive, NoMsg, TelnetAssumption
  <2>5. Somewhere /\ ThreadLive
    BY DEF Init, Somewhere, ThreadLive, NoThread
  <2>6. Down
    BY DEF Init, Down, NoThread
  <2> QED
    BY <2>3, <2>4, <2>5, <2>6 DEF PlaceInv
<1>2. TypeInv /\ PlaceInv /\ Down /\ [Next]_vars => (PlaceInv /\ Down)'
  <2> SUFFICES ASSUME TypeInv, PlaceInv, Down, [Next]_vars PROVE PlaceInv'
    BY DownStep
  <2>1. CASE UNCHANGED vars \/ SendStep
    BY <2>1, SendChanges, ThreadHeld, SamePlaces DEF vars
  <2> QED
    BY <2>1, StepKinds, TelPlaces, ReaperPlaces, ClientPlaces, AppPlaces
<1> QED
  BY <1>1, <1>2, TypeInvariance, PTL DEF Spec

(* The property: whoever may still look at a client's parameters finds them *)
(* live.                                                                    *)
THEOREM TelnetParamsLive == Spec => []ParamsLive
<1>1. TypeInv /\ PlaceInv => ParamsLive
  <2> SUFFICES ASSUME TypeInv, PlaceInv, NEW c \in Clients,
                      \/ \E k \in Slots : held[k] = c
                      \/ thr[c].pc \in {"idle", "busy"}
                      \/ c \in ToSet(reaper.box)
                      \/ reaper.msg = c
               PROVE  param[c].st = "live"
    BY DEF ParamsLive
  <2>1. c # NoClient
    BY TelnetAssumption DEF TelnetAssumption
  <2>2. c \in ToSet(reaper.box) => \E i \in Queue : reaper.box[i] = c
    <3>1. reaper.box \in Seq(Clients)
      BY DEF TypeInv, TypeOK, ThrRec
    <3>2. DOMAIN reaper.box = Queue
      BY <3>1 DEF Queue
    <3> QED
      BY <3>2 DEF ToSet
  <2> QED
    BY <2>1, <2>2 DEF PlaceInv, SlotLive, QueueLive, MsgLive, ThreadLive
<1> QED
  BY <1>1, TypeInvariance, PlaceInvariance, PTL

(* A client with live parameters is in one place. *)
LEMMA LiveInOnePlace ==
  ASSUME TypeInv, PlaceInv, NEW c \in Clients, param[c].st = "live",
         NEW places, places = {k \in Slots : held[k] = c},
         NEW queued, queued = {i \in 1 .. Len(reaper.box) : reaper.box[i] = c}
  PROVE  \/ Cardinality(places) + Cardinality(queued) = 1 /\ reaper.msg # c
         \/ places = {} /\ queued = {} /\ reaper.msg = c
<1>1. c # NoClient
  BY TelnetAssumption DEF TelnetAssumption
<1>2. Cardinality({}) = 0 /\ \A x : Cardinality({x}) = 1
  BY FS_EmptySet, FS_Singleton
<1>3. CASE \E k \in Slots : held[k] = c
  <2>1. PICK k \in Slots : held[k] = c
    BY <1>3
  <2>2. places = {k}
    BY <1>1, <2>1 DEF PlaceInv, SlotOnce
  <2>3. queued = {} /\ reaper.msg # c
    BY <2>1 DEF PlaceInv, OnePlace, Queue
  <2>4. Cardinality(places) = 1 /\ Cardinality(queued) = 0
    BY <1>2, <2>2, <2>3
  <2> QED
    BY <2>3, <2>4
<1>4. CASE \E i \in Queue : reaper.box[i] = c
  <2>1. PICK i \in Queue : reaper.box[i] = c
    BY <1>4
  <2>2. queued = {i}
    BY <2>1 DEF PlaceInv, QueueOnce, Queue
  <2>3. places = {} /\ reaper.msg # c
    BY <2>1 DEF PlaceInv, OnePlace
  <2>4. Cardinality(places) = 0 /\ Cardinality(queued) = 1
    BY <1>2, <2>2, <2>3
  <2> QED
    BY <2>3, <2>4
<1>5. CASE reaper.msg = c
  BY <1>5 DEF PlaceInv, OnePlace, Queue
<1> QED
  BY <1>3, <1>4, <1>5 DEF PlaceInv, Somewhere

(* The property: a client's thread is on its way to exactly one end.  The   *)
(* inductive part is PlaceInv: a client is in one place at a time, and in   *)
(* some place as long as its parameters are live.                           *)
THEOREM TelnetReapedOnce == Spec => []ReapedOnce
<1>1. TypeInv /\ PlaceInv => ReapedOnce
  BY LiveInOnePlace DEF ReapedOnce
<1> QED
  BY <1>1, TypeInvariance, PlaceInvariance, PTL

=============================================================================
