------------------------------ MODULE Telnetd ------------------------------
(***************************************************************************)
(* The telnet console of src/Common/LmnTelnetd.cpp: one server thread      *)
(* (TelnetdThrd) over a selix node, one message thread per client that     *)
(* runs its commands, one more (hListenThrd) that ends the threads of the  *)
(* clients that left, and the application's threads.                       *)
(*                                                                         *)
(* A client is known to the application and to the queues by the index of  *)
(* its slot, which the next client may get.  Its parameters (TSocketParam_)*)
(* and its thread outlive its slot: liEvDestroy posts them to hListenThrd, *)
(* which waits for the thread and frees both.                              *)
(*                                                                         *)
(* Abstractions, by name:                                                  *)
(*  - a message thread is what module LmxThread shows of it: messages in   *)
(*    order, and after LmxDestroyThread at most one more;                  *)
(*  - the command line (editing, history, completion) is one message that  *)
(*    ends in nothing, in "bye" or in a command that prints;               *)
(*  - each handler of the walk is one step (m_Lock keeps the lix calls of  *)
(*    other threads out of it), but for lixClose: LmnTelPrintf0 does not   *)
(*    take m_Lock and may come between liEvDestroy and the freeing of the  *)
(*    slot;                                                                *)
(*  - lixTcpCompleteSend is one step, or stalls with m_Lock in its hands   *)
(*    as long as the other end does not read; dealing with a message takes *)
(*    at least one send;                                                   *)
(*  - the list of prints is a set, its order being of no consequence here, *)
(*    and an insertion is whole although the server thread takes no lock.  *)
(***************************************************************************)
EXTENDS Naturals, Sequences, FiniteSets, SequencesExt

CONSTANTS
  Clients,     (* the connections that can be made                          *)
  NoClient,
  NumSlots,    (* dwMaxCoUsersCnt                                           *)
  Prints,      (* the texts LmnTelPrintf0 can be given                      *)
  App,         (* the thread that starts and stops the server               *)
  Printers,    (* who calls LmnTelPrintf0: App, and commands of clients     *)
  MaxData,     (* bound on the commands one client types                    *)
  StarterWins  (* does LmnStartTelnetd end before the first select returns? *)

ASSUME TelnetAssumption ==
  /\ {NoClient, App, "none", "listen", "server"} \cap Clients = {}
  /\ Printers \subseteq {App} \cup Clients
  /\ NumSlots \in Nat \ {0} /\ MaxData \in Nat /\ StarterWins \in BOOLEAN

Slots == 1 .. NumSlots      (* the listening socket has slot 0 *)

VARIABLES
  app,       (* where App is in LmnStartTelnetd and LmnStopTelnetd          *)
  flag,      (* bTelnetdLoopFlag                                            *)
  tel,       (* TelnetdThrd, the slots its walk has still to look at, and   *)
             (* the one lixClose is in the middle of                        *)
  slot,      (* the clients in the selix node                               *)
  peer,      (* the other end of each connection                            *)
  typed,     (* commands each client has typed so far                       *)
  param,     (* the TSocketParam_ of each client, and of the listening slot *)
  thr,       (* the message thread of each client                           *)
  reaper,    (* hListenThrd                                                 *)
  closeList, (* lstQueryCloseClients                                        *)
  stuck,     (* whose lixTcpCompleteSend is stalled, m_Lock in its hands    *)
  prt        (* what became of each text given to LmnTelPrintf0             *)

vars == <<app, flag, tel, slot, peer, typed, param, thr, reaper, closeList, stuck, prt>>

PeerStates == {"none", "backlog", "open", "data", "eof", "closed"}
ThrRec(Msg) == [pc: {"none", "idle", "busy", "ended"}, run: BOOLEAN,
                quit: BOOLEAN, box: Seq(Msg), msg: Msg \cup {"none"}]
ParamRec == [st: {"none", "live", "freed"}, fd: 0 .. NumSlots]
PrtRec == [fate: {"unused", "given", "queued", "sent", "cleared", "lost"},
           by: Printers \cup {NoClient}, id: 0 .. NumSlots,
           owner: Clients \cup {NoClient}, to: Clients \cup {NoClient}]

Text(fate) == [fate |-> fate, by |-> NoClient, id |-> 0, owner |-> NoClient, to |-> NoClient]

NoThread  == [pc |-> "none", run |-> FALSE, quit |-> FALSE, box |-> <<>>, msg |-> "none"]
NewThread == [pc |-> "idle", run |-> TRUE, quit |-> FALSE, box |-> <<>>, msg |-> "none"]

Init ==
  /\ app = "down" /\ flag = FALSE
  /\ tel = [pc |-> "none", todo |-> {}, shut |-> 0]
  /\ slot = [k \in Slots |-> NoClient]
  /\ peer = [c \in Clients |-> "none"] /\ typed = [c \in Clients |-> 0]
  /\ param = [c \in Clients \cup {"listen"} |-> [st |-> "none", fd |-> 0]]
  /\ thr = [c \in Clients |-> NoThread] /\ reaper = NoThread
  /\ closeList = <<>> /\ stuck = NoClient
  /\ prt = [p \in Prints |-> Text("unused")]

-----------------------------------------------------------------------------
(* A message thread, as module LmxThread shows it. *)

Post(t, m) == [t EXCEPT !.box = Append(@, m)]

(* The next message; bQuit was read at the head of the loop. *)
CanTake(t) == t.pc = "idle" /\ t.box # <<>>
Take(t) == [t EXCEPT !.pc = "busy", !.quit = ~t.run, !.msg = Head(t.box),
                     !.box = Tail(t.box)]

(* The callback returns TRUE. *)
Done(t) == [t EXCEPT !.pc = IF t.quit THEN "ended" ELSE "idle", !.msg = "none"]

(* The loop finds bRun cleared and no message. *)
CanEnd(t) == t.pc = "idle" /\ t.box = <<>> /\ ~t.run
End(t) == [t EXCEPT !.pc = "ended"]

-----------------------------------------------------------------------------
(* The server thread. *)

TelUnchanged == UNCHANGED <<app, flag, typed, stuck>>

(* Nobody is inside a lix call: m_Lock can be had. *)
Free == stuck = NoClient /\ tel.shut = 0

(* The slots, without the one that is being closed. *)
held == [k \in Slots |-> IF tel.shut = k THEN NoClient ELSE slot[k]]

Select ==
  /\ tel.pc = "idle" /\ Free
  /\ IF flag
     THEN tel' = [tel EXCEPT !.pc = "walk", !.todo =
            (IF \E c \in Clients : peer[c] = "backlog" THEN {0} ELSE {})
            \cup {k \in Slots : slot[k] # NoClient /\ peer[slot[k]] \in {"data", "eof"}}]
     ELSE tel' = [tel EXCEPT !.pc = "ended"]
  /\ TelUnchanged
  /\ UNCHANGED <<slot, peer, param, thr, reaper, closeList, prt>>

Handles(k) == tel.pc = "walk" /\ Free /\ k \in tel.todo /\ \A j \in tel.todo : k <= j
Handled(k) == tel' = [tel EXCEPT !.todo = @ \ {k}]

(* liEvAccept: the lowest free slot, new parameters, and a thread that is   *)
(* first told CLIENT_MSG_ID_INIT; with no slot left the connection and the  *)
(* parameters go.                                                           *)
OnAccept(c) ==
  /\ Handles(0) /\ Handled(0) /\ peer[c] = "backlog"
  /\ \/ \E k \in Slots :
          /\ slot[k] = NoClient /\ \A j \in 1 .. k - 1 : slot[j] # NoClient
          /\ slot' = [slot EXCEPT ![k] = c]
          /\ peer' = [peer EXCEPT ![c] = "open"]
          /\ param' = [param EXCEPT ![c] = [st |-> "live", fd |-> k]]
          /\ thr' = [thr EXCEPT ![c] = Post(NewThread, "init")]
     \/ /\ \A k \in Slots : slot[k] # NoClient
        /\ peer' = [peer EXCEPT ![c] = "closed"]
        /\ param' = [param EXCEPT ![c] = [st |-> "freed", fd |-> 0]]
        /\ UNCHANGED <<slot, thr>>
  /\ TelUnchanged /\ UNCHANGED <<reaper, closeList, prt>>

(* liEvRead: what was typed goes to the client's thread. *)
OnRead(k) ==
  LET c == slot[k] IN
  /\ Handles(k) /\ Handled(k) /\ c # NoClient /\ peer[c] = "data"
  /\ peer' = [peer EXCEPT ![c] = "open"]
  /\ thr' = [thr EXCEPT ![c] = Post(@, "data")]
  /\ TelUnchanged /\ UNCHANGED <<slot, param, reaper, closeList, prt>>

(* ClearPrintfListByClientId *)
Cleared(ks) == [p \in Prints |->
  IF prt[p].fate = "queued" /\ prt[p].id \in ks
  THEN Text("cleared") ELSE prt[p]]

(* Mutants of CloseSlot: the prints of the client stay queued; its thread   *)
(* is left alone.                                                           *)
CloseSlot_KeepPrints(k) ==
  /\ peer' = [peer EXCEPT ![slot[k]] = "closed"]
  /\ reaper' = Post(reaper, slot[k]) /\ prt' = prt

CloseSlot_NoPost(k) ==
  /\ peer' = [peer EXCEPT ![slot[k]] = "closed"]
  /\ reaper' = reaper /\ prt' = Cleared({k})

(* lixClose closes the connection and calls liEvDestroy: the thread and the *)
(* parameters are posted to hListenThrd, the queued prints of the slot are  *)
(* dropped.  The slot is still in use ...                                   *)
CloseSlot(k) ==
  /\ peer' = [peer EXCEPT ![slot[k]] = "closed"]
  /\ reaper' = Post(reaper, slot[k]) /\ prt' = Cleared({k})

OnClose(k) ==
  /\ Handles(k) /\ slot[k] # NoClient /\ peer[slot[k]] = "eof"
  /\ tel' = [tel EXCEPT !.todo = @ \ {k}, !.shut = k]
  /\ CloseSlot(k)
  /\ TelUnchanged /\ UNCHANGED <<slot, param, thr, closeList>>

(* Mutant of FreeSlot: the slot stays in use.                               *)
FreeSlot_Keep ==
  /\ tel.shut # 0 /\ tel' = [tel EXCEPT !.shut = 0]
  /\ TelUnchanged /\ UNCHANGED <<slot, peer, param, thr, reaper, closeList, prt>>

(* ... until lixClose marks it as not valid and lets go of m_Lock.          *)
FreeSlot ==
  /\ tel.shut # 0 /\ tel' = [tel EXCEPT !.shut = 0]
  /\ slot' = [slot EXCEPT ![tel.shut] = NoClient]
  /\ TelUnchanged /\ UNCHANGED <<peer, param, thr, reaper, closeList, prt>>

WalkEnd ==
  /\ tel.pc = "walk" /\ tel.todo = {} /\ Free
  /\ StarterWins => app # "starting"
  /\ tel' = [tel EXCEPT !.pc = "close"]
  /\ TelUnchanged /\ UNCHANGED <<slot, peer, param, thr, reaper, closeList, prt>>

(* The list of slots to close is emptied under lock_QueryCloseClients, one  *)
(* lixClose at a time; a slot that is not in use is refused.                *)
CloseListed ==
  LET k == Head(closeList) IN
  /\ tel.pc = "close" /\ Free /\ closeList # <<>> /\ closeList' = Tail(closeList)
  /\ IF slot[k] # NoClient
     THEN CloseSlot(k) /\ tel' = [tel EXCEPT !.shut = k]
     ELSE UNCHANGED <<tel, peer, reaper, prt>>
  /\ TelUnchanged /\ UNCHANGED <<slot, param, thr>>

CloseEnd ==
  /\ tel.pc = "close" /\ tel.shut = 0 /\ closeList = <<>>
  /\ tel' = [tel EXCEPT !.pc = "print"]
  /\ TelUnchanged /\ UNCHANGED <<slot, peer, param, thr, reaper, closeList, prt>>

(* OnQueryPrintf sends the text to the client that has the slot now, or, if *)
(* the index is 0, to every client.                                         *)
OnQueryPrintf(p) ==
  /\ tel.pc = "print" /\ Free /\ prt[p].fate = "queued"
  /\ prt' = [prt EXCEPT ![p] = Text("sent")]
  /\ TelUnchanged /\ UNCHANGED <<tel, slot, peer, param, thr, reaper, closeList>>

(* A send of it stalls, to a client that has a slot (lixTcpCompleteSend).   *)
OnQueryPrintfStalls(p) ==
  /\ tel.pc = "print" /\ Free /\ prt[p].fate = "queued"
  /\ \E k \in Slots : prt[p].id \in {0, k} /\ slot[k] # NoClient
  /\ stuck' = "server"
  /\ UNCHANGED <<app, flag, tel, slot, peer, typed, param, thr, reaper, closeList, prt>>

PrintEnd ==
  /\ tel.pc = "print" /\ stuck # "server" /\ \A p \in Prints : prt[p].fate # "queued"
  /\ tel' = [tel EXCEPT !.pc = "clear"]
  /\ TelUnchanged /\ UNCHANGED <<slot, peer, param, thr, reaper, closeList, prt>>

(* Mutant of ClearPrintfList: the loop does not look at its flag again.     *)
ClearPrintfList_Forever ==
  /\ tel.pc = "clear"
  /\ prt' = Cleared(0 .. NumSlots) /\ tel' = [tel EXCEPT !.pc = "walk", !.todo = {}]
  /\ TelUnchanged /\ UNCHANGED <<slot, peer, param, thr, reaper, closeList>>

(* ClearPrintfList frees the whole list, also what was queued since the     *)
(* walk over it ended.                                                      *)
ClearPrintfList ==
  /\ tel.pc = "clear" /\ tel' = [tel EXCEPT !.pc = "idle"]
  /\ prt' = [p \in Prints |-> IF prt[p].fate = "queued"
                              THEN Text("lost") ELSE prt[p]]
  /\ TelUnchanged /\ UNCHANGED <<slot, peer, param, thr, reaper, closeList>>

-----------------------------------------------------------------------------
(* OnClientMessage, in the thread of client c and in hListenThrd. *)

ThrUnchanged ==
  UNCHANGED <<app, flag, tel, slot, peer, typed, stuck, prt>>

Inside(w) == \E p \in Prints : prt[p].fate = "given" /\ prt[p].by = w

ClientTake(c) ==
  /\ CanTake(thr[c]) /\ thr' = [thr EXCEPT ![c] = Take(@)]
  /\ ThrUnchanged /\ UNCHANGED <<param, reaper, closeList>>

(* The message is dealt with, its last send done; a command of the          *)
(* application's may be inside LmnTelPrintf0.                               *)
ClientDone(c) ==
  /\ thr[c].pc = "busy" /\ Free /\ ~Inside(c)
  /\ thr' = [thr EXCEPT ![c] = Done(@)]
  /\ ThrUnchanged /\ UNCHANGED <<param, reaper, closeList>>

(* "bye" queues the slot the client was given, whoever has it by then; the  *)
(* server thread has lock_QueryCloseClients while it works on the list.     *)
ClientBye(c) ==
  /\ thr[c].pc = "busy" /\ stuck # c /\ thr[c].msg = "data" /\ ~Inside(c)
  /\ tel.pc # "close"
  /\ closeList' = Append(closeList, param[c].fd)
  /\ thr' = [thr EXCEPT ![c] = Done(@)]
  /\ ThrUnchanged /\ UNCHANGED <<param, reaper>>

(* What it sends goes to whoever has the slot of its client, and stalls.    *)
ClientStalls(c) ==
  /\ thr[c].pc = "busy" /\ Free /\ ~Inside(c)
  /\ slot[param[c].fd] # NoClient /\ stuck' = c
  /\ UNCHANGED <<app, flag, tel, slot, peer, typed, param, thr, reaper, closeList, prt>>

ClientEnd(c) ==
  /\ CanEnd(thr[c]) /\ thr' = [thr EXCEPT ![c] = End(@)]
  /\ ThrUnchanged /\ UNCHANGED <<param, reaper, closeList>>

(* CLIENT_MSG_ID_DESTROY_CLIENT_THRD: LmxDestroyThread on the client's ...  *)
ReapBegin ==
  /\ CanTake(reaper) /\ reaper' = Take(reaper)
  /\ thr' = [thr EXCEPT ![Head(reaper.box)].run = FALSE]
  /\ ThrUnchanged /\ UNCHANGED <<param, closeList>>

(* Mutant of ReapEnd: the parameters are freed without waiting.             *)
ReapEnd_NoWait ==
  LET c == reaper.msg IN
  /\ reaper.pc = "busy"
  /\ param' = [param EXCEPT ![c] = [st |-> "freed", fd |-> 0]] /\ reaper' = Done(reaper)
  /\ ThrUnchanged /\ UNCHANGED <<thr, closeList>>

(* ... waits for the thread, and its parameters are freed. *)
ReapEnd ==
  LET c == reaper.msg IN
  /\ reaper.pc = "busy" /\ thr[c].pc = "ended"
  /\ param' = [param EXCEPT ![c] = [st |-> "freed", fd |-> 0]] /\ reaper' = Done(reaper)
  /\ ThrUnchanged /\ UNCHANGED <<thr, closeList>>

ReaperEnd ==
  /\ CanEnd(reaper) /\ reaper' = End(reaper)
  /\ ThrUnchanged /\ UNCHANGED <<param, thr, closeList>>

-----------------------------------------------------------------------------
(* The application. *)

AppUnchanged == UNCHANGED <<peer, typed, closeList, stuck>>

(* LmnStartTelnetd starts the server thread, and then sets up the lists.    *)
StartThread ==
  /\ app = "down" /\ app' = "starting" /\ flag' = TRUE
  /\ tel' = [tel EXCEPT !.pc = "idle"] /\ reaper' = NewThread
  /\ param' = [param EXCEPT !["listen"].st = "live"]
  /\ AppUnchanged /\ UNCHANGED <<slot, thr, prt>>

StartLists ==
  /\ app = "starting" /\ app' = "up"
  /\ AppUnchanged /\ UNCHANGED <<flag, tel, slot, param, thr, reaper, prt>>

(* LmnStopTelnetd has s_lock_telnet from here to its end. *)
StopFlag ==
  /\ app = "up" /\ ~Inside(App) /\ app' = "stop" /\ flag' = FALSE
  /\ AppUnchanged /\ UNCHANGED <<tel, slot, param, thr, reaper, prt>>

StopJoin ==
  /\ app = "stop" /\ tel.pc = "ended" /\ app' = "joined"
  /\ AppUnchanged /\ UNCHANGED <<flag, tel, slot, param, thr, reaper, prt>>

(* selixDestroyNode closes every slot, with liEvDestroy for each; the       *)
(* listening slot's parameters are freed at once.  Then LmxDestroyThread on *)
(* hListenThrd ...                                                          *)
StopNode ==
  LET used == {k \in Slots : slot[k] # NoClient} IN
  /\ app = "joined" /\ Free /\ app' = "waiting"
  /\ slot' = [k \in Slots |-> NoClient]
  /\ peer' = [c \in Clients |-> IF \E k \in used : slot[k] = c THEN "closed" ELSE peer[c]]
  /\ prt' = Cleared(0 .. NumSlots)
  /\ \E order \in [1 .. Cardinality(used) -> used] :
       /\ \A i, j \in DOMAIN order : i < j => order[i] < order[j]
       /\ reaper' = [reaper EXCEPT !.run = FALSE,
            !.box = @ \o [i \in 1 .. Cardinality(used) |-> slot[order[i]]]]
  /\ param' = [param EXCEPT !["listen"].st = "freed"]
  /\ UNCHANGED <<flag, tel, typed, thr, closeList, stuck>>

(* ... waits for it, and everything else is freed. *)
StopEnd ==
  /\ app = "waiting" /\ reaper.pc = "ended" /\ app' = "stopped"
  /\ closeList' = <<>>
  /\ UNCHANGED <<flag, tel, slot, peer, typed, param, thr, reaper, stuck, prt>>

(* LmnTelPrintf0 looks at the flag and then takes s_lock_telnet; its caller *)
(* means the client that has the slot now, the owner of the text.           *)
Print0Test(w, p, id) ==
  /\ app = "up" /\ flag /\ ~Inside(w) /\ prt[p].fate = "unused"
  /\ w \in Clients => thr[w].pc = "busy" /\ thr[w].msg = "data" /\ stuck # w
  /\ prt' = [prt EXCEPT ![p] = [@ EXCEPT !.fate = "given", !.by = w, !.id = id,
               !.owner = IF id = 0 THEN NoClient ELSE slot[id]]]
  /\ AppUnchanged /\ UNCHANGED <<app, flag, tel, slot, param, thr, reaper>>

(* It queues the text under the index, whoever has the slot by then.        *)
Print0Insert(p) ==
  /\ app = "up" /\ prt[p].fate = "given"
  /\ prt' = [prt EXCEPT ![p] = [@ EXCEPT !.fate = "queued", !.by = NoClient,
               !.to = IF prt[p].id = 0 THEN NoClient ELSE held[prt[p].id]]]
  /\ AppUnchanged /\ UNCHANGED <<app, flag, tel, slot, param, thr, reaper>>

-----------------------------------------------------------------------------
(* The peers: connect, type, hang up; and read, or go, so that the stalled  *)
(* send ends.                                                               *)
PeerStep(c) ==
  /\ \/ peer[c] = "none" /\ flag /\ peer' = [peer EXCEPT ![c] = "backlog"] /\ typed' = typed
     \/ /\ peer[c] = "open" /\ typed[c] < MaxData
        /\ peer' = [peer EXCEPT ![c] = "data"] /\ typed' = [typed EXCEPT ![c] = @ + 1]
     \/ peer[c] = "open" /\ peer' = [peer EXCEPT ![c] = "eof"] /\ typed' = typed
  /\ UNCHANGED <<app, flag, tel, slot, param, thr, reaper, closeList, stuck, prt>>

SendGoesOn ==
  /\ stuck # NoClient /\ stuck' = NoClient
  /\ UNCHANGED <<app, flag, tel, slot, peer, typed, param, thr, reaper, closeList, prt>>

-----------------------------------------------------------------------------
TelStep == \/ Select \/ (\E c \in Clients : OnAccept(c))
           \/ (\E k \in Slots : OnRead(k) \/ OnClose(k))
           \/ FreeSlot \/ WalkEnd \/ CloseListed \/ CloseEnd
           \/ (\E p \in Prints : OnQueryPrintf(p)) \/ PrintEnd \/ ClearPrintfList

ClientLoop(c) == ClientTake(c) \/ ClientDone(c) \/ ClientEnd(c)
ReaperStep == ReapBegin \/ ReapEnd \/ ReaperEnd
StopStep == StopJoin \/ StopNode \/ StopEnd
SendStep == \/ SendGoesOn \/ (\E p \in Prints : OnQueryPrintfStalls(p))
            \/ (\E c \in Clients : ClientStalls(c))

Next == \/ TelStep \/ ReaperStep \/ StopStep \/ SendStep \/ StartThread \/ StartLists \/ StopFlag
        \/ \E c \in Clients : \/ ClientLoop(c) \/ PeerStep(c)
                              \/ ClientBye(c)
        \/ \E p \in Prints : \/ Print0Insert(p)
                             \/ \E w \in Printers, id \in 0 .. NumSlots : Print0Test(w, p, id)

Spec == Init /\ [][Next]_vars

(* Every thread is scheduled, commands return and locks are handed out.  No *)
(* client has to read what it is sent: whether a stalled send ever goes on  *)
(* is left open.                                                            *)
FairSpec ==
  Spec /\ WF_vars(TelStep) /\ WF_vars(ReaperStep) /\ WF_vars(StopStep)
       /\ WF_vars(StartLists) /\ \A c \in Clients : WF_vars(ClientLoop(c))
       /\ \A p \in Prints : WF_vars(Print0Insert(p))

-----------------------------------------------------------------------------
TypeOK ==
  /\ app \in {"down", "starting", "up", "stop", "joined", "waiting", "stopped"}
  /\ flag \in BOOLEAN
  /\ tel \in [pc: {"none", "idle", "walk", "close", "print", "clear", "ended"},
              todo: SUBSET (0 .. NumSlots), shut: 0 .. NumSlots]
  /\ slot \in [Slots -> Clients \cup {NoClient}]
  /\ peer \in [Clients -> PeerStates] /\ typed \in [Clients -> 0 .. MaxData]
  /\ param \in [Clients \cup {"listen"} -> ParamRec]
  /\ thr \in [Clients -> ThrRec({"init", "data"})] /\ reaper \in ThrRec(Clients)
  /\ closeList \in Seq(Slots) /\ prt \in [Prints -> PrtRec]
  /\ stuck \in Clients \cup {NoClient, "server"}

(* A client's parameters are there for whoever may still look at them: the  *)
(* server thread until it closes the client's slot, the client's own thread until *)
(* it has ended, hListenThrd until it has freed them.                       *)
ParamsLive ==
  \A c \in Clients :
    (\E k \in Slots : held[k] = c) \/ thr[c].pc \in {"idle", "busy"}
    \/ c \in ToSet(reaper.box) \/ reaper.msg = c
      => param[c].st = "live"

(* A client's thread is on its way to exactly one end: while the client has *)
(* a slot nobody has been asked to end it; afterwards it is queued for, or  *)
(* in the hands of, hListenThrd once, or it is gone, or hListenThrd itself  *)
(* was ended by LmnStopTelnetd before it came to it.                        *)
ReapedOnce ==
  \A c \in Clients : param[c].st = "live" =>
    LET places == {k \in Slots : held[k] = c}
        queued == {i \in 1 .. Len(reaper.box) : reaper.box[i] = c} IN
    \/ Cardinality(places) + Cardinality(queued) = 1 /\ reaper.msg # c
    \/ places = {} /\ queued = {} /\ reaper.msg = c

(* A text queued while a client has the slot it names is sent to that       *)
(* client or to nobody: as long as it is queued the slot is that client's,  *)
(* and not being closed, because liEvDestroy takes the text away before the *)
(* next client can get the slot.                                            *)
QueuedForOne ==
  \A p \in Prints : prt[p].fate = "queued" /\ prt[p].to # NoClient =>
    held[prt[p].id] = prt[p].to

(* From some time on no send stalls. *)
SendsGoOn == <>[](stuck = NoClient)

(* Clients that have left are forgotten: their threads end and their        *)
(* parameters are freed, unless the server is stopped meanwhile or some     *)
(* client stops reading what it is sent.  (No client comes back, so clients *)
(* that have left are all forgotten together if each is.)                   *)
Left(c) == peer[c] = "closed" /\ param[c].st # "freed"

Stopping == app \in {"waiting", "stopped"}

LeaversReaped ==
  SendsGoOn => ((\E c \in Clients : Left(c)) ~> (\A c \in Clients : ~Left(c)) \/ Stopping)

(* LmnStopTelnetd returns whatever the clients type and whenever they leave *)
(* or say bye, as long as they read what they are sent.                     *)
StopReturns == SendsGoOn => (app = "stop" ~> app = "stopped")

(* What the code does not promise, or not for every use of it.              *)

(* LmnStopTelnetd returns although a client has stopped reading; a client   *)
(* that left is forgotten although another has.                             *)
StopReturnsAnyway == app = "stop" ~> app = "stopped"
LeaversReapedAnyway ==
  (\E c \in Clients : Left(c)) ~> (\A c \in Clients : ~Left(c)) \/ Stopping

(* A text goes to the client its caller meant, or to nobody. *)
PrintToOwner ==
  \A p \in Prints : prt[p].fate = "queued" /\ prt[p].owner # NoClient =>
    slot[prt[p].id] = prt[p].owner

(* "bye" closes the connection of the client that typed it: nobody who has  *)
(* typed nothing is on the list of clients to close.                        *)
ByeClosesOwn ==
  \A k \in ToSet(closeList) : slot[k] # NoClient => typed[slot[k]] > 0

(* The server thread finds its lists set up.                                *)
ListsReady == tel.pc \in {"close", "print", "clear"} => app # "starting"

(* LmnStopTelnetd leaves no client's thread behind.                         *)
NoThreadLeft == app = "stopped" => \A c \in Clients : thr[c].pc \in {"none", "ended"}

(* hListenThrd finds the parameters it was given as its context.            *)
ListenParamLive == reaper.pc \in {"idle", "busy"} => param["listen"].st = "live"

(* No text is dropped that was queued for a client still there.             *)
NoPrintLost == \A p \in Prints : prt[p].fate # "lost"

=============================================================================
