-------------------------- MODULE FileShareSession --------------------------
(***************************************************************************)
(* The life of the file-share sessions of src/Common/FileShare: one worker *)
(* thread (fssThread_) that runs selixSelect and then looks for sessions   *)
(* that timed out, and application threads that call the fss functions.    *)
(*                                                                         *)
(* Two locks order them.  s_fss_lock (variable lock) guards the sessions;  *)
(* m_Lock, the lock of the selix manager, is held by the worker during the *)
(* walk of selixSelect (InWalk) and by everybody else for one lix call at  *)
(* a time.  A handler runs in the walk and takes s_fss_lock; fssListen,    *)
(* fssConnect and fssDestroySession hold s_fss_lock and call lix.          *)
(*                                                                         *)
(* Abstractions, by name:                                                  *)
(*  - the slots of the selix node hold what a session can tell of them:    *)
(*    whose they are, what they are for and what the kernel has to report; *)
(*    a slot that is closed leaves the walk in progress (the id check of   *)
(*    selixSelect, module SelixReactor);                                   *)
(*  - what a read brings is one of a few outcomes, and the exchange of the *)
(*    transfer itself is module FileTransfer;                              *)
(*  - a session that was destroyed is never created again at its address;  *)
(*  - SureSend_ ends: its loop of 100 ms sleeps is the outcome it has;     *)
(*  - an assert that fails is found by an invariant, and the session goes  *)
(*    on as it does in a build with NDEBUG.                                *)
(***************************************************************************)
EXTENDS Naturals, Sequences

CONSTANTS
  Sessions,     (* the handles fssCreateSession can return                  *)
  Senders,      (* the sessions created with bSender                        *)
  Apps,         (* the application's threads                                *)
  NumSlots,     (* the size of the selix node, 32 in fssInit                *)
  MaxIp,        (* LMN_MAX_IP_ADDRESS_COUNT, and the bound on dwCount       *)
  SubStates,    (* what eSubState can be when the bytes that are there have *)
                (* been read: SUB_STATE_NONE, or somewhere in a message     *)
  ClosesListen, (* may the application call fssCloseListen on a session     *)
                (* that listens?                                            *)
  CbDestroys,   (* the events whose callback may destroy its session        *)
  CbListens     (* the events whose callback may call fssListen             *)

(* An event is what pfnOnEvent can tell apart, nEvent with dwParam: failed  *)
(* and limit are both FSS_ON_FAILED_TO_ESTABLISH_CONNECTION (0, or          *)
(* FSS_ERROR_SOCKET_LIMIT); closed is FSS_ON_ERROR with                     *)
(* FSS_ERROR_CONNECTION_CLOSED, and error is FSS_ON_ERROR with any other    *)
(* code.                                                                    *)
EventNames == {"failed", "limit", "start", "progress", "complete", "error",
               "closed"}

ASSUME ConstantsAssumption ==
  /\ Senders \subseteq Sessions
  /\ NumSlots \in Nat \ {0} /\ MaxIp \in Nat \ {0}
  /\ "none" \in SubStates /\ SubStates \subseteq {"none", "mid"}
  /\ ClosesListen \in BOOLEAN
  /\ CbDestroys \subseteq EventNames /\ CbListens \subseteq EventNames
  /\ {"free", "worker"} \cap Apps = {} /\ "nobody" \notin Sessions

Slots == 1 .. NumSlots
NoFd  == 0                     (* the -1 of an FdType *)

VARIABLES
  inited,    (* s_inited                                                    *)
  thrdFlag,  (* s_thrd_flag                                                 *)
  lock,      (* who holds s_fss_lock                                        *)
  worker,    (* fssThread_: where it is and what it has still to look at    *)
  sess,      (* the sessions                                                *)
  slot,      (* m_nodes of s_seli_node                                      *)
  call,      (* the fss function each application thread is in              *)
  events     (* history: what each session's callback was told in its last  *)
             (* attempt, repetitions of FSS_ON_PROGRESS left out            *)

vars == <<inited, thrdFlag, lock, worker, sess, slot, call, events>>

States == {"NONE", "LISTEN", "CONNECTING", "CONNECTED", "CONNECT", "ESTABLISHED"}

SessRec == [life: {"none", "live", "gone"}, st: States, listen: Slots \cup {NoFd},
            conn: Slots \cup {NoFd}, fds: [1 .. MaxIp -> Slots \cup {NoFd}],
            cnt: 0 .. MaxIp, left: 0 .. MaxIp, late: BOOLEAN, sub: SubStates]

SlotRec == [owner: Sessions \cup {"nobody"},
            kind: {"free", "listening", "connecting", "stream"},
            ready: {"no", "accept", "connect", "refused", "data", "eof"}]

WorkerRec == [pc: {"none", "idle", "walk", "check", "timeouts", "callback",
                   "return", "ended"},
              back: {"walk", "timeouts"}, todo: SUBSET Slots,
              due: SUBSET Sessions, who: Sessions \cup {"nobody"},
              event: EventNames \cup {"none"},
              after: {"nothing", "goOn", "setNone", "clear"}]

CallRec == [op: {"none", "listen", "connect", "destroy", "deinit"},
            pc: {"tested", "locked"}, h: Sessions \cup {"nobody"},
            n: 0 .. MaxIp, i: 0 .. MaxIp]

NewSession == [life |-> "live", st |-> "NONE", listen |-> NoFd, conn |-> NoFd,
               fds |-> [i \in 1 .. MaxIp |-> NoFd], cnt |-> 0, left |-> 0,
               late |-> TRUE, sub |-> "none"]

EmptySlot == [owner |-> "nobody", kind |-> "free", ready |-> "no"]
NoCall    == [op |-> "none", pc |-> "tested", h |-> "nobody", n |-> 0, i |-> 0]
NoWorker  == [pc |-> "none", back |-> "walk", todo |-> {}, due |-> {},
              who |-> "nobody", event |-> "none", after |-> "nothing"]

Init ==
  /\ inited = FALSE /\ thrdFlag = FALSE /\ lock = "free"
  /\ worker = NoWorker
  /\ sess = [h \in Sessions |-> [NewSession EXCEPT !.life = "none"]]
  /\ slot = [k \in Slots |-> EmptySlot]
  /\ call = [a \in Apps |-> NoCall]
  /\ events = [h \in Sessions |-> <<>>]

-----------------------------------------------------------------------------
(* The lix functions, as the sessions use them. *)

(* The worker holds m_Lock: it is in the walk of selixSelect, or in a       *)
(* callback below it.                                                       *)
InWalk == \/ worker.pc = "walk"
          \/ worker.pc \in {"callback", "return"} /\ worker.back = "walk"

Idle(k) == slot[k].kind = "free" /\ \A j \in 1 .. k - 1 : slot[j].kind # "free"

Open(h, k, kind) == [owner |-> h, kind |-> kind, ready |-> "no"]

Closed(ks) == [k \in Slots |-> IF k \in ks THEN EmptySlot ELSE slot[k]]

(* The descriptors a session has on record. *)
Recorded(h) ==
  ({sess[h].listen, sess[h].conn} \cup {sess[h].fds[i] : i \in 1 .. MaxIp}) \ {NoFd}

(* Mutant of Clear:   the sockets of the attempt are forgotten, not closed.  *)
Clear_KeepSlots(h) == /\ sess' = [sess EXCEPT ![h] = NewSession]
                      /\ slot' = slot

(* TFileShareSesion::Clear: close every descriptor, and start afresh.       *)
Clear(h) == /\ sess' = [sess EXCEPT ![h] = NewSession]
            /\ slot' = Closed(Recorded(h))

(* ~TFileShareSesion, and the session leaves the list. *)
Delete(h) == /\ sess' = [sess EXCEPT ![h] = [NewSession EXCEPT !.life = "gone"]]
             /\ slot' = Closed(Recorded(h))

-----------------------------------------------------------------------------
(* The worker thread. *)

WorkerVars == <<inited, thrdFlag, call>>

(* The copy of the table and the select(): the slots that have news. *)
Select ==
  /\ worker.pc = "idle"
  /\ IF thrdFlag
     THEN worker' = [worker EXCEPT !.pc = "walk",
                       !.todo = {k \in Slots : slot[k].ready # "no"}]
     ELSE worker' = [worker EXCEPT !.pc = "ended"]
  /\ UNCHANGED <<WorkerVars, lock, sess, slot, events>>

WalkEnd ==
  /\ worker.pc = "walk" /\ worker.todo = {}
  /\ worker' = [worker EXCEPT !.pc = "check"]
  /\ UNCHANGED <<WorkerVars, lock, sess, slot, events>>

(* OnSocketEvent_ begins on slot k for session h: it has s_fss_lock.        *)
Handles(k, h, kind, ready) ==
  /\ worker.pc = "walk" /\ lock = "free"
  /\ k \in worker.todo /\ \A j \in worker.todo : k <= j
  /\ slot[k] = [owner |-> h, kind |-> kind, ready |-> ready]

(* The handler returns with no word to the application; the slots it closed *)
(* leave the walk.                                                          *)
Continue(k) ==
  /\ worker' = [worker EXCEPT !.todo =
                  {j \in @ \ {k} : slot'[j] = slot[j]}]
  /\ UNCHANGED <<WorkerVars, lock, events>>

Said(h, e) ==
  IF e = "progress" /\ events[h] # <<>> /\ events[h][Len(events[h])] = e
  THEN events ELSE [events EXCEPT ![h] = Append(@, e)]

(* pfnOnEvent is called with event e; after is what the caller does when it *)
(* returns.                                                                 *)
Tell(h, e, after, todo, back) ==
  /\ lock' = "worker"
  /\ worker' = [worker EXCEPT !.pc = "callback", !.back = back, !.todo = todo,
                              !.who = h, !.event = e, !.after = after,
                              !.due = @ \ {h}]
  /\ events' = Said(h, e)
  /\ UNCHANGED WorkerVars

Notify(k, h, e, after) ==
  Tell(h, e, after, {j \in worker.todo \ {k} : slot'[j] = slot[j]}, "walk")

(* liEvAccept: the new connection takes the lowest free slot, then the      *)
(* listening slot is closed; with no slot left the session gives up.        *)
OnAccept(k, h) ==
  /\ Handles(k, h, "listening", "accept")
  /\ IF sess[h].st # "LISTEN" THEN UNCHANGED <<sess, slot>> /\ Continue(k)
     ELSE \/ \E f \in Slots :
               /\ Idle(f)
               /\ slot' = [Closed({k}) EXCEPT ![f] = Open(h, f, "stream")]
               /\ sess' = [sess EXCEPT ![h].st = "CONNECTED", ![h].conn = f,
                                       ![h].listen = NoFd, ![h].late = FALSE]
               /\ Continue(k)
          \/ Clear(h) /\ Notify(k, h, "limit", "nothing")

(* Mutant of OnConnect: the other attempts are forgotten, not closed.       *)
OnConnect_KeepOthers(k, h) ==
  /\ Handles(k, h, "connecting", "connect") /\ sess[h].st = "CONNECTING"
  /\ slot' = [slot EXCEPT ![k] = Open(h, k, "stream")]
  /\ sess' = [sess EXCEPT ![h] = [NewSession EXCEPT !.st = "CONNECT", !.conn = k,
                                                !.late = FALSE]]
  /\ Continue(k)

(* liEvConnect: the first address that answers wins and the other attempts  *)
(* are closed; the validation string is sent, or the session gives up.      *)
OnConnect(k, h) ==
  /\ Handles(k, h, "connecting", "connect")
  /\ sess[h].st = "CONNECTING"
  /\ \/ /\ slot' = [Closed({sess[h].fds[i] : i \in 1 .. sess[h].cnt} \ {k})
                      EXCEPT ![k] = Open(h, k, "stream")]
        /\ sess' = [sess EXCEPT ![h] = [@ EXCEPT !.st = "CONNECT", !.conn = k,
                      !.fds = [i \in 1 .. MaxIp |->
                                 IF i <= sess[h].cnt THEN NoFd ELSE sess[h].fds[i]],
                      !.cnt = 0, !.left = 0, !.late = FALSE]]
        /\ Continue(k)
     \/ Clear(h) /\ Notify(k, h, "error", "nothing")

(* liEvRead before the transfer: more bytes are needed, or the peer is not  *)
(* who it should be, or the session is established.  The side that was      *)
(* connected to reads its validation in parts, and resets eSubState at the  *)
(* end; the side that connected reads one byte and only asserts (923) that  *)
(* eSubState is SUB_STATE_NONE.                                             *)
OnHandshake(k, h) ==
  /\ Handles(k, h, "stream", "data")
  /\ sess[h].st \in {"CONNECTED", "CONNECT"}
  /\ \/ /\ \E s \in SubStates :
             /\ s # sess[h].sub => s = "mid" /\ sess[h].st = "CONNECTED"
             /\ sess' = [sess EXCEPT ![h].late = FALSE, ![h].sub = s]
        /\ slot' = [slot EXCEPT ![k].ready = "no"]
        /\ Continue(k)
     \/ Clear(h) /\ Notify(k, h, "error", "nothing")
     \/ /\ sess' = [sess EXCEPT ![h].late = FALSE, ![h].st = "ESTABLISHED",
                       ![h].sub = IF sess[h].st = "CONNECTED" THEN "none" ELSE @]
        /\ slot' = [slot EXCEPT ![k].ready = "no"]
        /\ Notify(k, h, "start", "goOn")

(* Mutant of OnTransfer: an error is told before the session is cleared.    *)
OnTransfer_TellFirst(k, h) ==
  /\ Handles(k, h, "stream", "data") /\ sess[h].st = "ESTABLISHED"
  /\ UNCHANGED <<sess, slot>>
  /\ Notify(k, h, "error", "clear")

(* liEvRead in the transfer: nothing to tell, progress, the end or an error.*)
(* A sender's loop goes on after FSS_ON_PROGRESS; a receiver's does not.    *)
(* The bytes may end anywhere in a message.                                 *)
OnTransfer(k, h) ==
  /\ Handles(k, h, "stream", "data")
  /\ sess[h].st = "ESTABLISHED"
  /\ \/ /\ \E s \in SubStates :
             sess' = [sess EXCEPT ![h].late = FALSE, ![h].sub = s]
        /\ slot' = [slot EXCEPT ![k].ready = "no"]
        /\ \/ Continue(k)
           \/ Notify(k, h, "progress", IF h \in Senders THEN "goOn" ELSE "nothing")
           \/ Notify(k, h, "complete", "clear")
     \/ Clear(h) /\ Notify(k, h, "error", "nothing")

(* Mutant of OnClose: the first refusal is told as the failure of all.      *)
OnClose_FirstIsAll(k, h) ==
  /\ Handles(k, h, "connecting", "refused") /\ sess[h].st = "CONNECTING"
  /\ slot' = Closed({k})
  /\ sess' = [sess EXCEPT ![h].left = @ - 1,
                ![h].fds = [i \in 1 .. MaxIp |-> IF @[i] = k THEN NoFd ELSE @[i]]]
  /\ Notify(k, h, "failed", "setNone")

(* liEvClose: an attempt was refused or took too long, or the peer is gone. *)
(* Only the refusal of the last attempt is told.                            *)
OnClose(k, h) ==
  LET s == [sess[h] EXCEPT !.conn = NoFd] IN
  /\ \/ Handles(k, h, "connecting", "refused") \/ Handles(k, h, "stream", "eof")
  /\ slot' = Closed({k})
  /\ IF s.st = "CONNECTING"
     THEN /\ s.left > 0
          /\ sess' = [sess EXCEPT ![h] =
                        [s EXCEPT !.left = @ - 1,
                           !.fds = [i \in 1 .. MaxIp |->
                                      IF i <= s.cnt /\ @[i] = k THEN NoFd ELSE @[i]]]]
          /\ IF s.left = 1 THEN Notify(k, h, "failed", "setNone") ELSE Continue(k)
     ELSE /\ sess' = [sess EXCEPT ![h] = s]
          /\ Notify(k, h, "closed", "setNone")

OnSocketEvent_ == \E k \in Slots, h \in Sessions :
  \/ OnAccept(k, h) \/ OnConnect(k, h) \/ OnHandshake(k, h) \/ OnTransfer(k, h)
  \/ OnClose(k, h)

(* CheckTimeout_ takes s_fss_lock and goes through the sessions.            *)
CheckTimeoutBegin ==
  /\ worker.pc = "check" /\ lock = "free"
  /\ lock' = "worker"
  /\ worker' = [worker EXCEPT !.pc = "timeouts", !.due =
       {h \in Sessions : /\ sess[h].life = "live" /\ sess[h].late
                         /\ sess[h].st \in {"CONNECT", "CONNECTED", "ESTABLISHED"}}]
  /\ UNCHANGED <<WorkerVars, sess, slot, events>>

(* Mutant of CheckTimeout: the session is told and not cleared. *)
CheckTimeout_NoClear(h) ==
  /\ worker.pc = "timeouts" /\ h \in worker.due
  /\ UNCHANGED <<sess, slot>>
  /\ Tell(h, "closed", "nothing", {}, "timeouts")

CheckTimeout(h) ==
  /\ worker.pc = "timeouts" /\ h \in worker.due
  /\ UNCHANGED <<sess, slot>>
  /\ Tell(h, "closed", "clear", {}, "timeouts")

CheckTimeoutEnd ==
  /\ worker.pc = "timeouts" /\ worker.due = {}
  /\ worker' = [worker EXCEPT !.pc = "idle"] /\ lock' = "free"
  /\ UNCHANGED <<WorkerVars, sess, slot, events>>

(* What a successful fssListen leaves. *)
Listening(h, k) ==
  /\ Idle(k)
  /\ slot' = [slot EXCEPT ![k] = Open(h, k, "listening")]
  /\ sess' = [sess EXCEPT ![h].listen = k, ![h].st = "LISTEN"]
  /\ events' = [events EXCEPT ![h] = <<>>]

(* The application's callback: it looks on, or destroys its session, or     *)
(* calls fssListen (both locks are recursive).                              *)
Callback ==
  LET h == worker.who IN
  /\ worker.pc = "callback"
  /\ \/ UNCHANGED <<sess, slot, events>>
     \/ worker.event \in CbDestroys /\ Delete(h) /\ UNCHANGED events
     \/ /\ worker.event \in CbListens /\ sess[h].st = "NONE"
        /\ \E k \in Slots : Listening(h, k)
  /\ worker' = [worker EXCEPT !.pc = "return",
                              !.todo = {k \in @ : slot'[k] = slot[k]}]
  /\ UNCHANGED <<WorkerVars, lock>>

(* What the worker does next; leaving OnSocketEvent_ releases s_fss_lock.   *)
Resumed == /\ worker' = [worker EXCEPT !.pc = worker.back, !.who = "nobody",
                           !.event = "none", !.after = "nothing",
                           !.todo = {k \in @ : slot'[k] = slot[k]}]
           /\ lock' = IF worker.back = "walk" THEN "free" ELSE "worker"
           /\ UNCHANGED <<WorkerVars, events>>

ReturnFromCallback ==
  LET h == worker.who IN
  /\ worker.pc = "return" /\ worker.after # "goOn"
  /\ worker.after = "nothing" \/ sess[h].life = "live"
  /\ CASE worker.after = "nothing" -> UNCHANGED <<sess, slot>>
       [] worker.after = "setNone" -> /\ sess' = [sess EXCEPT ![h].st = "NONE"]
                                      /\ slot' = slot
       [] worker.after = "clear"   -> Clear(h)
  /\ Resumed

(* After FSS_ON_START, and after a sender's FSS_ON_PROGRESS, OnSocketEvent_ *)
(* goes on with the bytes it has (liEvClose does not reset what the last    *)
(* transfer left in bSendPos and bReceivedPos, so any of it may follow),    *)
(* and they may end anywhere in a message.                                  *)
GoOn ==
  LET h == worker.who IN
  /\ worker.pc = "return" /\ worker.after = "goOn" /\ sess[h].life = "live"
  /\ \/ /\ \E s \in SubStates : sess' = [sess EXCEPT ![h].sub = s]
        /\ slot' = slot /\ Resumed
     \/ /\ sess[h].st = "ESTABLISHED"
        /\ \/ Clear(h) /\ Tell(h, "error", "nothing",
                 {j \in worker.todo : slot'[j] = slot[j]}, "walk")
           \/ /\ UNCHANGED <<sess, slot>>
              /\ \/ Tell(h, "progress", IF h \in Senders THEN "goOn" ELSE "nothing",
                         worker.todo, "walk")
                 \/ Tell(h, "complete", "clear", worker.todo, "walk")

-----------------------------------------------------------------------------
(* The fss functions, called by application thread a. *)

AppVars == <<thrdFlag, worker, inited>>

Calling(a, op, h, n) ==
  call' = [call EXCEPT ![a] = [op |-> op, pc |-> "tested", h |-> h, n |-> n, i |-> 0]]

In(a, op, pc) == call[a].op = op /\ call[a].pc = pc

Returns(a) == call' = [call EXCEPT ![a] = NoCall]

fssInit(a) ==
  /\ call[a].op = "none" /\ ~inited
  /\ inited' = TRUE /\ thrdFlag' = TRUE
  /\ worker' = [NoWorker EXCEPT !.pc = "idle"]
  /\ UNCHANGED <<lock, sess, slot, call, events>>

fssDeinitFlag(a) ==
  /\ call[a].op = "none" /\ inited /\ \A b \in Apps : call[b].op # "deinit"
  /\ thrdFlag' = FALSE
  /\ Calling(a, "deinit", "nobody", 0)
  /\ UNCHANGED <<inited, lock, worker, sess, slot, events>>

(* Mutant of fssDeinit: the sessions are left to the application.           *)
fssDeinit_KeepSessions(a) ==
  /\ call[a].op = "deinit" /\ worker.pc = "ended"
  /\ inited' = FALSE /\ Returns(a)
  /\ UNCHANGED <<thrdFlag, lock, worker, sess, slot, events>>

(* LmnWait4Thrd has returned: every session goes, then the selix node. *)
fssDeinit(a) ==
  /\ call[a].op = "deinit" /\ worker.pc = "ended"
  /\ sess' = [h \in Sessions |-> IF sess[h].life = "live"
                                 THEN [NewSession EXCEPT !.life = "gone"] ELSE sess[h]]
  /\ slot' = [k \in Slots |-> EmptySlot]
  /\ inited' = FALSE /\ Returns(a)
  /\ UNCHANGED <<thrdFlag, lock, worker, events>>

fssCreateSession(a, h) ==
  /\ call[a].op = "none" /\ inited /\ lock = "free" /\ sess[h].life = "none"
  /\ sess' = [sess EXCEPT ![h] = NewSession]
  /\ UNCHANGED <<AppVars, lock, slot, call, events>>

(* fssListen and fssConnect look at eState before they take s_fss_lock.     *)
fssTest(a, op, h, n) ==
  /\ call[a].op = "none" /\ inited
  /\ sess[h].life = "live" /\ sess[h].st = "NONE"
  /\ Calling(a, op, h, n)
  /\ UNCHANGED <<AppVars, lock, sess, slot, events>>

fssListenLock(a) ==
  /\ In(a, "listen", "tested") /\ lock = "free"
  /\ lock' = a /\ call' = [call EXCEPT ![a].pc = "locked"]
  /\ UNCHANGED <<AppVars, sess, slot, events>>

(* A random port is bound and listened on, or twenty of them fail. *)
fssListen(a) ==
  LET h == call[a].h IN
  /\ In(a, "listen", "locked") /\ sess[h].life = "live" /\ ~InWalk
  /\ \/ \E k \in Slots : Listening(h, k)
     \/ sess' = [sess EXCEPT ![h].listen = NoFd] /\ UNCHANGED <<slot, events>>
  /\ lock' = "free" /\ Returns(a)
  /\ UNCHANGED AppVars

fssConnectLock(a) ==
  LET h == call[a].h IN
  /\ In(a, "connect", "tested") /\ lock = "free" /\ sess[h].life = "live"
  /\ lock' = a /\ call' = [call EXCEPT ![a].pc = "locked"]
  /\ sess' = [sess EXCEPT ![h].st = "CONNECTING", ![h].cnt = call[a].n]
  /\ events' = [events EXCEPT ![h] = <<>>]
  /\ UNCHANGED <<AppVars, slot>>

(* One turn of the loop over the addresses: lixOpen and lixConnect.         *)
fssConnectNext(a) ==
  LET h == call[a].h
      i == call[a].i + 1 IN
  /\ In(a, "connect", "locked") /\ i <= call[a].n /\ ~InWalk
  /\ \E k \in Slots :
       /\ Idle(k)
       /\ slot' = [slot EXCEPT ![k] = Open(h, k, "connecting")]
       /\ sess' = [sess EXCEPT ![h].fds[i] = k]
  /\ call' = [call EXCEPT ![a].i = i]
  /\ UNCHANGED <<AppVars, lock, events>>

(* lixOpen or lixConnect fails: the attempts so far are closed, and eState  *)
(* stays at FILE_SHARE_SESSION_CONNECTING.                                  *)
fssConnectFail(a) ==
  LET h == call[a].h
      before == 1 .. call[a].i IN
  /\ In(a, "connect", "locked") /\ call[a].i < call[a].n /\ ~InWalk
  /\ slot' = Closed({sess[h].fds[j] : j \in before})
  /\ sess' = [sess EXCEPT ![h].cnt = 0, ![h].fds =
                [j \in 1 .. MaxIp |-> IF j \in before THEN NoFd ELSE @[j]]]
  /\ lock' = "free" /\ Returns(a)
  /\ UNCHANGED <<AppVars, events>>

(* dwConnectingLeftCnt is set once every address is being tried. *)
fssConnect(a) ==
  LET h == call[a].h IN
  /\ In(a, "connect", "locked") /\ call[a].i = call[a].n
  /\ sess' = [sess EXCEPT ![h].left = sess[h].cnt]
  /\ lock' = "free" /\ Returns(a)
  /\ UNCHANGED <<AppVars, slot, events>>

(* liClose works on the table of seli, not on the selix node; without a     *)
(* listening socket the call does nothing.                                  *)
fssCloseListen(a, h) ==
  /\ ClosesListen \/ sess[h].listen = NoFd
  /\ call[a].op = "none" /\ inited /\ sess[h].life = "live" /\ lock = "free"
  /\ sess' = [sess EXCEPT ![h].listen = NoFd]
  /\ UNCHANGED <<AppVars, lock, slot, call, events>>

fssDestroyLock(a, h) ==
  /\ call[a].op = "none" /\ inited /\ sess[h].life # "none" /\ lock = "free"
  /\ lock' = a
  /\ call' = [call EXCEPT ![a] = [op |-> "destroy", pc |-> "locked", h |-> h,
                                  n |-> 0, i |-> 0]]
  /\ UNCHANGED <<AppVars, sess, slot, events>>

(* The list is searched for the handle; a handle that has gone is refused.  *)
fssDestroySession(a) ==
  LET h == call[a].h IN
  /\ In(a, "destroy", "locked")
  /\ \/ sess[h].life = "live" /\ (InWalk => Recorded(h) = {}) /\ Delete(h)
     \/ sess[h].life = "gone" /\ UNCHANGED <<sess, slot>>
  /\ lock' = "free" /\ Returns(a)
  /\ UNCHANGED <<AppVars, events>>

-----------------------------------------------------------------------------
(* The kernel, the peer and the clock. *)

World == UNCHANGED <<inited, thrdFlag, lock, worker, call, events>>

Happens(k) ==
  /\ slot[k].ready = "no"
  /\ \E r \in CASE slot[k].kind = "listening"  -> {"accept"}
                [] slot[k].kind = "connecting" -> {"connect", "refused"}
                [] slot[k].kind = "stream"     -> {"data", "eof"}
                [] OTHER                       -> {} :
       slot' = [slot EXCEPT ![k].ready = r]
  /\ UNCHANGED sess /\ World

(* FSS_TRANSFER_TIMEOUT passes with no byte from the peer; CheckTimeout_    *)
(* reads the clock once, so time that passes in the walk counts after it.   *)
TimePasses(h) ==
  /\ ~sess[h].late /\ sess[h].st \in {"CONNECT", "CONNECTED", "ESTABLISHED"}
  /\ ~InWalk /\ worker.pc # "timeouts"
  /\ sess' = [sess EXCEPT ![h].late = TRUE]
  /\ UNCHANGED slot /\ World

-----------------------------------------------------------------------------
WorkerStep == \/ Select \/ OnSocketEvent_ \/ WalkEnd \/ CheckTimeoutBegin
              \/ \E h \in Sessions : CheckTimeout(h)
              \/ CheckTimeoutEnd \/ Callback \/ ReturnFromCallback \/ GoOn

(* The steps a call takes once the thread is in it, but for fssDeinit.      *)
AppStep(a) == \/ fssListenLock(a) \/ fssListen(a)
              \/ fssConnectLock(a) \/ fssConnectNext(a) \/ fssConnectFail(a)
              \/ fssConnect(a) \/ fssDestroySession(a) \/ fssDeinit(a)

NewCall(a) == \/ fssInit(a) \/ fssDeinitFlag(a)
              \/ \E h \in Sessions :
                   \/ fssCreateSession(a, h) \/ fssDestroyLock(a, h)
                   \/ fssCloseListen(a, h) \/ fssTest(a, "listen", h, 0)
                   \/ \E n \in 1 .. MaxIp : fssTest(a, "connect", h, n)

Next == \/ WorkerStep
        \/ \E a \in Apps : AppStep(a) \/ NewCall(a)
        \/ \E k \in Slots : Happens(k)
        \/ \E h \in Sessions : TimePasses(h)

Spec == Init /\ [][Next]_vars

(* Every thread is scheduled, select() times out, and a thread that keeps   *)
(* finding a lock free gets it in the end.                                  *)
FairSpec == Spec /\ SF_vars(WorkerStep) /\ \A a \in Apps : SF_vars(AppStep(a))

-----------------------------------------------------------------------------
TypeOK ==
  /\ inited \in BOOLEAN /\ thrdFlag \in BOOLEAN
  /\ lock \in {"free", "worker"} \cup Apps
  /\ worker \in WorkerRec
  /\ sess \in [Sessions -> SessRec] /\ slot \in [Slots -> SlotRec]
  /\ call \in [Apps -> CallRec]
  /\ events \in [Sessions -> Seq(EventNames)]

(* Between the sessions and the selix node nothing leaks and nothing        *)
(* dangles: a slot in use belongs to a live session that has it on record,  *)
(* and what a session has on record is its own.  Accept, the race of the    *)
(* addresses, a failed fssConnect, a time-out, a destroy in the callback    *)
(* and fssDeinit all move descriptors.                                      *)
FdsAccurate ==
  /\ \A k \in Slots : slot[k].kind # "free" =>
       sess[slot[k].owner].life = "live" /\ k \in Recorded(slot[k].owner)
  /\ \A h \in Sessions : \A k \in Recorded(h) : slot[k].owner = h

(* "Only if all fail has it really failed" (fileshare.h): when the session  *)
(* is told that no connection could be made, no attempt is still under way. *)
FailedMeansAll ==
  worker.pc = "callback" /\ worker.event = "failed" =>
    \A k \in Slots : slot[k].owner # worker.who

(* What OnSocketEvent_ asserts of the event it is given, in the state in    *)
(* which the handler is about to run: liEvConnect finds the session         *)
(* connecting (728), liEvClose finds it neither idle nor listening (1206)   *)
(* and with an attempt left to lose (1214), and what is read comes from     *)
(* fdConnected (the asserts before each Clear).  Not here are 923, which is *)
(* SubStateAssertHolds, and the asserts about the bytes themselves (325,    *)
(* 566, 594, 666 and 1012), which this module does not look at.             *)
EventAssertsHold ==
  \A k \in Slots, h \in Sessions, r \in {"connect", "refused", "data", "eof"} :
    Handles(k, h, slot[k].kind, r) =>
      /\ r = "connect" => sess[h].st = "CONNECTING"
      /\ r \in {"refused", "eof"} => sess[h].st \notin {"NONE", "LISTEN"}
      /\ r = "refused" => sess[h].st = "CONNECTING" /\ sess[h].left > 0
      /\ r \in {"data", "eof"} => sess[h].conn = k

(* assert( pSesseion->eSubState == SUB_STATE_NONE ), fileshare.cpp:923:     *)
(* when the VALIDATION_ACK_TYPE arrives on a connection the session made,   *)
(* no part of a message is under way.                                       *)
SubStateAssertHolds ==
  \A k \in Slots, h \in Sessions :
    Handles(k, h, "stream", "data") /\ sess[h].st = "CONNECT" =>
      sess[h].sub = "none"

(* The worker goes back to a session that its callback has destroyed only   *)
(* where OnSocketEvent_ and CheckTimeout_ tell first and clear after: never *)
(* once the session was told of FSS_ERROR_SOCKET_LIMIT or of an error that  *)
(* is not FSS_ERROR_CONNECTION_CLOSED, whatever the callbacks do.           *)
ClearedBeforeTold ==
  worker.pc = "return" /\ sess[worker.who].life = "gone" /\ worker.after # "nothing" =>
    worker.event \notin {"limit", "error"}

(* A thread that tested eState before it took s_fss_lock works on a session *)
(* that is still there.                                                     *)
TestedIsLive ==
  \A a \in Apps : call[a].op \in {"listen", "connect"} =>
    sess[call[a].h].life = "live"

(* What an application hears of one attempt: at most one end, nothing after *)
(* it, and progress or completion only after a start.                       *)
OneOutcome ==
  \A h \in Sessions : \A i \in 1 .. Len(events[h]) :
    /\ i < Len(events[h]) => events[h][i] \in {"start", "progress"}
    /\ events[h][i] \in {"start", "failed", "limit"} => i = 1
    /\ events[h][i] \in {"progress", "complete"} => i > 1

(* Once fssDeinit has returned there is no worker, no session and no open   *)
(* socket left, whatever was going on when it was called.                   *)
DeinitReleases ==
  ~inited => /\ worker.pc \in {"none", "ended"} /\ lock = "free"
             /\ \A h \in Sessions : sess[h].life # "live"
             /\ \A k \in Slots : slot[k] = EmptySlot

(* "Trying to connect has two steps: one side tries to connect to the       *)
(* other; if it succeeds, the transfer goes on; if it fails, the other way  *)
(* round" (fileshare.h): an attempt is decided, so fssConnect returns.      *)
ConnectReturns ==
  \A a \in Apps : call[a].op = "connect" ~> call[a].op # "connect"

=============================================================================
