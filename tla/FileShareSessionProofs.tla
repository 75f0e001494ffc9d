----------------------- MODULE FileShareSessionProofs -----------------------
(***************************************************************************)
(* The sessions of src/Common/FileShare, for any number of sessions, slots *)
(* and addresses: no descriptor leaks or dangles, a failure is told when   *)
(* no attempt is left, the asserts about the event hold, an attempt has    *)
(* one outcome, and fssDeinit leaves nothing; and, for any application at  *)
(* all, after which events a destroyed session is not worked on again.     *)
(*                                                                         *)
(* The other theorems are about an application that keeps to what the code asks  *)
(* of it (Disciplined below); what happens otherwise is a hazard of the    *)
(* code, and the README says which hypothesis excludes which.              *)
(***************************************************************************)
EXTENDS FileShareSession, FiniteSetTheorems, TLAPS

-----------------------------------------------------------------------------
(* The inductive invariant. *)

(* The application calls the fss functions from one thread; it does not     *)
(* close a session that listens with fssCloseListen; its callback destroys  *)
(* a session only at the events that come after the session was cleared,    *)
(* and does not start one there.                                            *)
Disciplined ==
  /\ \A a, b \in Apps : a = b
  /\ ClosesListen = FALSE
  /\ CbDestroys \subseteq {"limit", "error"}
  /\ CbListens \cap {"limit", "error"} = {}

Transferring == {"CONNECT", "CONNECTED", "ESTABLISHED"}

(* The worker is in a callback, or has just returned from one. *)
Telling == worker.pc \in {"callback", "return"}

(* Who holds s_fss_lock is told by where the threads are.                   *)
LockInv ==
  /\ lock = "worker" <=> worker.pc \in {"callback", "return", "timeouts"}
  /\ \A a \in Apps : lock = a <=> call[a].pc = "locked"

(* Where an application thread is in its call, and what it may rely on of   *)
(* the session it works on.                                                 *)
CallOK(a) ==
  LET c == call[a] IN
  /\ c.op \in {"none", "deinit"} => c.pc = "tested"
  /\ c.op = "destroy" => c.pc = "locked"
  /\ c.op \in {"listen", "connect", "destroy"} => c.h \in Sessions
  /\ c.op = "listen" \/ (c.op = "connect" /\ c.pc = "tested") =>
       sess[c.h].st = "NONE"
  /\ c.op = "connect" /\ c.pc = "tested" => c.i = 0
  /\ c.op = "connect" /\ c.pc = "locked" =>
       /\ sess[c.h].st = "CONNECTING" /\ c.i <= c.n
       /\ sess[c.h].cnt = c.n /\ sess[c.h].left = 0
       /\ \A j \in 1 .. MaxIp : sess[c.h].fds[j] # NoFd <=> j <= c.i

(* Before fssInit and after fssDeinit there is nothing. *)
QuietInv ==
  ~inited => /\ worker.pc \in {"none", "ended"}
             /\ \A a \in Apps : call[a].op = "none"
             /\ \A h \in Sessions : sess[h].life # "live"
             /\ \A k \in Slots : slot[k] = EmptySlot

(* A slot in use is on record with its owner, in the field that says what   *)
(* it is for, and has news of its own kind.                                 *)
SlotOK(k) ==
  LET s == slot[k] IN
  /\ s.kind = "free" => s = EmptySlot
  /\ s.kind # "free" => s.owner \in Sessions
  /\ s.kind = "listening" =>
       sess[s.owner].listen = k /\ s.ready \in {"no", "accept"}
  /\ s.kind = "connecting" =>
       /\ \E i \in 1 .. MaxIp : sess[s.owner].fds[i] = k
       /\ s.ready \in {"no", "connect", "refused"}
  /\ s.kind = "stream" =>
       sess[s.owner].conn = k /\ s.ready \in {"no", "data", "eof"}

Holds(h, k, kind) == slot[k].owner = h /\ slot[k].kind = kind

(* The state of a session says which of its descriptors are open.           *)
SessOK(h) ==
  LET s == sess[h] IN
  /\ s.listen # NoFd => s.st = "LISTEN" /\ Holds(h, s.listen, "listening")
  /\ s.conn # NoFd => s.st \in Transferring /\ Holds(h, s.conn, "stream")
  /\ \A i \in 1 .. MaxIp : s.fds[i] # NoFd =>
       s.st = "CONNECTING" /\ i <= s.cnt /\ Holds(h, s.fds[i], "connecting")
  /\ \A i, j \in 1 .. MaxIp : s.fds[i] # NoFd /\ s.fds[i] = s.fds[j] => i = j
  /\ s.life # "live" => s.st = "NONE"
  /\ s.st # "CONNECTING" => s.left = 0

(* The addresses that are being tried. *)
Tried(h) == {i \in 1 .. MaxIp : sess[h].fds[i] # NoFd}

(* dwConnectingLeftCnt counts the attempts under way once fssConnect is     *)
(* done.                                                                    *)
LeftOK(h) ==
  sess[h].st = "CONNECTING" =>
    \/ sess[h].left = Cardinality(Tried(h))
    \/ \E a \in Apps : call[a].op = "connect" /\ call[a].pc = "locked" /\ call[a].h = h

(* What is told of session h, and what will be done when the callback       *)
(* returns, go with the state the session is in.                            *)
Fits(h, event, after, back) ==
  LET s == sess[h] IN
  /\ event \in {"limit", "error"} => after = "nothing" /\ s.st = "NONE"
  /\ event \notin {"limit", "error"} => s.life = "live" /\ s.st # "NONE"
  /\ after = "goOn" => s.st = "ESTABLISHED" /\ back = "walk"
  /\ after = "nothing" => s.st \in {"NONE", "ESTABLISHED"}
  /\ after = "setNone" => Recorded(h) = {} /\ s.left = 0
  /\ event = "failed" => after = "setNone"

TellInv ==
  Telling => /\ worker.who \in Sessions
             /\ Fits(worker.who, worker.event, worker.after, worker.back)

InTimeouts == \/ worker.pc = "timeouts"
              \/ Telling /\ worker.back = "timeouts"

(* The sessions CheckTimeout_ has still to tell stay as it found them.      *)
DueInv ==
  \A h \in worker.due :
    /\ InTimeouts
    /\ sess[h].life = "live" /\ sess[h].st \in Transferring
    /\ Telling => h # worker.who

(* The session is being told of its end, and its state does not say so yet. *)
Ending(h) ==
  Telling /\ worker.who = h /\ worker.after \in {"setNone", "clear"}

(* A history with one outcome at most, in the right place.                  *)
GoodHistory(e) ==
  \A i \in 1 .. Len(e) :
    /\ i < Len(e) => e[i] \in {"start", "progress"}
    /\ e[i] \in {"start", "failed", "limit"} => i = 1
    /\ e[i] \in {"progress", "complete"} => i > 1

(* A history that has begun and has not ended. *)
Running(e) ==
  GoodHistory(e) /\ Len(e) > 0 /\ e[Len(e)] \in {"start", "progress"}

HistoryOK(h) ==
  /\ GoodHistory(events[h])
  /\ ~Ending(h) /\ sess[h].st \notin {"NONE", "ESTABLISHED"} => events[h] = <<>>
  /\ ~Ending(h) /\ sess[h].st = "ESTABLISHED" => Running(events[h])

(* The table of the selix node and the records of the sessions agree.       *)
DescInv ==
  /\ \A k \in Slots : SlotOK(k)
  /\ \A h \in Sessions : SessOK(h)

IInv ==
  /\ TypeOK /\ LockInv /\ QuietInv /\ TellInv /\ DueInv /\ DescInv
  /\ \A a \in Apps : CallOK(a)
  /\ \A h \in Sessions : LeftOK(h) /\ HistoryOK(h)

-----------------------------------------------------------------------------
(* The table and the records. *)

(* A step that works for session h alone: the other sessions keep their     *)
(* records, and the slots that change were free or belonged to h, and are   *)
(* free or belong to h afterwards.                                          *)
Changes(h) ==
  /\ sess' \in [Sessions -> SessRec] /\ slot' \in [Slots -> SlotRec]
  /\ \A g \in Sessions : g # h => sess'[g] = sess[g]
  /\ \A k \in Slots : slot'[k] # slot[k] =>
       /\ slot[k].kind # "free" => slot[k].owner = h
       /\ slot'[k].kind # "free" => slot'[k].owner = h
       /\ slot'[k].kind = "free" => slot'[k] = EmptySlot

(* The fields of a session, and of a slot. *)
LEMMA Fields ==
  ASSUME TypeOK
  PROVE  /\ \A h \in Sessions :
              /\ sess[h].life \in {"none", "live", "gone"} /\ sess[h].st \in States
              /\ sess[h].listen \in Slots \cup {NoFd}
              /\ sess[h].conn \in Slots \cup {NoFd}
              /\ sess[h].fds \in [1 .. MaxIp -> Slots \cup {NoFd}]
              /\ sess[h].cnt \in 0 .. MaxIp /\ sess[h].left \in 0 .. MaxIp
              /\ sess[h].late \in BOOLEAN /\ sess[h].sub \in SubStates
              /\ \A i \in 1 .. MaxIp : sess[h].fds[i] \in Slots \cup {NoFd}
         /\ \A k \in Slots :
              /\ slot[k].owner \in Sessions \cup {"nobody"}
              /\ slot[k].kind \in {"free", "listening", "connecting", "stream"}
              /\ slot[k].ready \in {"no", "accept", "connect", "refused", "data", "eof"}
<1>1. sess \in [Sessions -> SessRec] /\ slot \in [Slots -> SlotRec]
  BY DEF TypeOK
<1>2. ASSUME NEW h \in Sessions PROVE sess[h] \in SessRec
  BY <1>1
<1>3. ASSUME NEW k \in Slots PROVE slot[k] \in SlotRec
  BY <1>1
<1> QED
  BY <1>2, <1>3 DEF SessRec, SlotRec

(* A new session is a session. *)
LEMMA NewIsSession ==
  /\ NewSession \in SessRec
  /\ \A l \in {"none", "live", "gone"} : [NewSession EXCEPT !.life = l] \in SessRec
  /\ EmptySlot \in SlotRec
<1>1. /\ MaxIp \in Nat /\ NoFd \in Slots \cup {NoFd} /\ 0 \in 0 .. MaxIp
      /\ "none" \in SubStates
  BY ConstantsAssumption DEF ConstantsAssumption
<1>2. [i \in 1 .. MaxIp |-> NoFd] \in [1 .. MaxIp -> Slots \cup {NoFd}]
  OBVIOUS
<1> QED
  BY <1>1, <1>2 DEF SessRec, SlotRec, NewSession, EmptySlot, States

(* The fields of a new session. *)
LEMMA NewFields ==
  ASSUME NEW l
  PROVE  /\ [NewSession EXCEPT !.life = l].life = l
         /\ [NewSession EXCEPT !.life = l].st = "NONE"
         /\ [NewSession EXCEPT !.life = l].listen = NoFd
         /\ [NewSession EXCEPT !.life = l].conn = NoFd
         /\ [NewSession EXCEPT !.life = l].left = 0
         /\ \A i \in 1 .. MaxIp : [NewSession EXCEPT !.life = l].fds[i] = NoFd
BY DEF NewSession

(* No slot is the 0 that stands for no descriptor. *)
LEMMA NoFdIsNoSlot == NoFd \notin Slots
BY DEF NoFd, Slots

(* What a session has on record is what the table says is its own. *)
LEMMA RecordedIsOwned ==
  ASSUME TypeOK, DescInv, NEW h \in Sessions
  PROVE  /\ Recorded(h) \subseteq Slots
         /\ \A k \in Slots : k \in Recorded(h) <=> slot[k].kind # "free" /\ slot[k].owner = h
<1>1. SessOK(h)
  BY DEF DescInv
<1>2. ASSUME NEW k \in Recorded(h)
      PROVE  k \in Slots /\ slot[k].kind # "free" /\ slot[k].owner = h
  <2>1. k # NoFd /\ (k = sess[h].listen \/ k = sess[h].conn
                     \/ \E i \in 1 .. MaxIp : k = sess[h].fds[i])
    BY DEF Recorded
  <2>2. k \in Slots
    BY <2>1, Fields
  <2>3. \/ Holds(h, k, "listening") \/ Holds(h, k, "stream")
        \/ Holds(h, k, "connecting")
    BY <1>1, <2>1 DEF SessOK
  <2> QED
    BY <2>2, <2>3 DEF Holds
<1>3. ASSUME NEW k \in Slots, slot[k].kind # "free", slot[k].owner = h
      PROVE  k \in Recorded(h)
  <2>1. SlotOK(k)
    BY DEF DescInv
  <2>2. slot[k].kind \in {"listening", "connecting", "stream"} /\ k # NoFd
    BY <1>3, Fields, NoFdIsNoSlot
  <2>3. k = sess[h].listen \/ k = sess[h].conn \/ \E i \in 1 .. MaxIp : k = sess[h].fds[i]
    BY <1>3, <2>1, <2>2 DEF SlotOK
  <2> QED
    BY <2>2, <2>3 DEF Recorded
<1> QED
  BY <1>2, <1>3

(* A step for session h disturbs the agreement at h only. *)
LEMMA OnlyHere ==
  ASSUME TypeOK, DescInv, NEW h \in Sessions, Changes(h), SessOK(h)',
         \A k \in Slots : slot'[k].kind # "free" /\ slot'[k].owner = h => SlotOK(k)'
  PROVE  DescInv'
<1>1. ASSUME NEW k \in Slots PROVE SlotOK(k)'
  <2>1. CASE slot'[k].kind # "free" /\ slot'[k].owner = h
    BY <2>1
  <2>2. CASE slot'[k].kind = "free"
    <3>1. slot'[k] = EmptySlot
      <4>1. SlotOK(k)
        BY DEF DescInv
      <4> QED
        BY <2>2, <4>1 DEF Changes, SlotOK
    <3> QED
      BY <3>1 DEF SlotOK, EmptySlot
  <2>3. CASE slot'[k].kind # "free" /\ slot'[k].owner # h
    <3>1. slot'[k] = slot[k] /\ SlotOK(k)
      BY <2>3 DEF Changes, DescInv
    <3>2. slot[k].owner \in Sessions /\ sess'[slot[k].owner] = sess[slot[k].owner]
      BY <2>3, <3>1 DEF Changes, SlotOK
    <3> QED
      BY <3>1, <3>2 DEF SlotOK
  <2> QED
    BY <2>1, <2>2, <2>3
<1>2. ASSUME NEW g \in Sessions, g # h PROVE SessOK(g)'
  <2>1. sess'[g] = sess[g] /\ SessOK(g)
    BY <1>2 DEF Changes, DescInv
  <2>2. ASSUME NEW k \in Slots, NEW kind, kind # "free", Holds(g, k, kind)
        PROVE  Holds(g, k, kind)'
    BY <1>2, <2>2 DEF Changes, Holds
  <2>9. /\ sess[g].listen # NoFd => sess[g].listen \in Slots
        /\ sess[g].conn # NoFd => sess[g].conn \in Slots
        /\ \A i \in 1 .. MaxIp : sess[g].fds[i] # NoFd => sess[g].fds[i] \in Slots
    BY Fields
  <2>3. sess[g].listen # NoFd => Holds(g, sess[g].listen, "listening")'
    BY <2>1, <2>2, <2>9 DEF SessOK
  <2>4. sess[g].conn # NoFd => Holds(g, sess[g].conn, "stream")'
    BY <2>1, <2>2, <2>9 DEF SessOK
  <2>5. \A i \in 1 .. MaxIp : sess[g].fds[i] # NoFd =>
           Holds(g, sess[g].fds[i], "connecting")'
    BY <2>1, <2>2, <2>9 DEF SessOK
  <2> QED
    BY <2>1, <2>3, <2>4, <2>5 DEF SessOK, Holds
<1> QED
  BY <1>1, <1>2 DEF DescInv

(* Clear and Delete: the session has nothing on record, and no slot is its. *)
LEMMA Cleared ==
  ASSUME TypeOK, DescInv, NEW h \in Sessions, NEW l \in {"none", "live", "gone"},
         sess' = [sess EXCEPT ![h] = [NewSession EXCEPT !.life = l]],
         slot' = Closed(Recorded(h))
  PROVE  /\ Changes(h) /\ DescInv'
         /\ sess'[h].st = "NONE" /\ sess'[h].life = l
<1> DEFINE r == [NewSession EXCEPT !.life = l]
<1>0. /\ r \in SessRec /\ r.life = l /\ r.st = "NONE" /\ r.listen = NoFd
      /\ r.conn = NoFd /\ r.left = 0 /\ \A i \in 1 .. MaxIp : r.fds[i] = NoFd
  BY NewIsSession, NewFields, Zenon
<1> HIDE DEF r
<1>4. sess' = [sess EXCEPT ![h] = r] /\ sess'[h] = r
  BY DEF TypeOK, r
<1>1. sess' \in [Sessions -> SessRec]
  BY <1>0, <1>4 DEF TypeOK
<1>2. slot' \in [Slots -> SlotRec]
  BY NewIsSession DEF TypeOK, Closed
<1>3. Changes(h)
  <2>1. \A g \in Sessions : g # h => sess'[g] = sess[g]
    BY <1>4 DEF TypeOK
  <2>2. \A k \in Slots : slot'[k] # slot[k] =>
          slot'[k] = EmptySlot /\ slot[k].owner = h
    BY RecordedIsOwned DEF Closed
  <2> QED
    BY <1>1, <1>2, <2>1, <2>2 DEF Changes, EmptySlot
<1>5. SessOK(h)'
  <2>1. /\ sess'[h].listen = NoFd /\ sess'[h].conn = NoFd /\ sess'[h].st = "NONE"
        /\ sess'[h].left = 0 /\ \A i \in 1 .. MaxIp : sess'[h].fds[i] = NoFd
    BY <1>0, <1>4
  <2> QED
    BY <2>1 DEF SessOK
<1>6. \A k \in Slots : slot'[k].kind # "free" => slot'[k].owner # h
  BY RecordedIsOwned DEF Closed, EmptySlot
<1> QED
  BY <1>0, <1>3, <1>4, <1>5, <1>6, OnlyHere

-----------------------------------------------------------------------------
(* The histories. *)

(* A word that may follow keeps a history good; it keeps it open unless     *)
(* it is an end.                                                            *)
LEMMA Appended ==
  ASSUME NEW e \in Seq(EventNames), NEW x \in EventNames,
         e = <<>> \/ Running(e),
         x \in {"start", "failed", "limit"} => e = <<>>,
         x \in {"progress", "complete"} => e # <<>>
  PROVE  /\ Append(e, x) \in Seq(EventNames)
         /\ GoodHistory(Append(e, x))
         /\ x \in {"start", "progress"} => Running(Append(e, x))
<1> DEFINE f == Append(e, x)  n == Len(e)
<1>1. /\ f \in Seq(EventNames) /\ n \in Nat /\ Len(f) = n + 1 /\ f[n + 1] = x
      /\ \A i \in 1 .. n : f[i] = e[i]
  OBVIOUS
<1>2. e = <<>> <=> n = 0
  OBVIOUS
<1>3. /\ \A i \in 1 .. n : e[i] \in {"start", "progress"}
      /\ \A i \in 1 .. n : e[i] \in {"start", "failed", "limit"} => i = 1
      /\ \A i \in 1 .. n : e[i] \in {"progress", "complete"} => i > 1
  <2>1. CASE e = <<>>
    BY <1>2, <2>1
  <2>2. CASE Running(e)
    <3>1. /\ \A i \in 1 .. n : /\ i < n => e[i] \in {"start", "progress"}
                               /\ e[i] \in {"start", "failed", "limit"} => i = 1
                               /\ e[i] \in {"progress", "complete"} => i > 1
          /\ e[n] \in {"start", "progress"}
      BY <2>2 DEF Running, GoodHistory
    <3>2. \A i \in 1 .. n : i < n \/ i = n
      BY <1>1
    <3> QED
      BY <3>1, <3>2
  <2> QED
    BY <2>1, <2>2
<1> HIDE DEF f, n
<1>4. \A i \in 1 .. Len(f) : (i \in 1 .. n /\ i < Len(f)) \/ (i = n + 1 /\ ~(i < Len(f)))
  BY <1>1
<1>5. (x \in {"start", "failed", "limit"} => n = 0) /\ (x \in {"progress", "complete"} => n > 0)
  BY <1>1, <1>2
<1>6. GoodHistory(f)
  <2> SUFFICES ASSUME NEW i \in 1 .. Len(f)
               PROVE  /\ i < Len(f) => f[i] \in {"start", "progress"}
                      /\ f[i] \in {"start", "failed", "limit"} => i = 1
                      /\ f[i] \in {"progress", "complete"} => i > 1
    BY DEF GoodHistory
  <2>1. CASE i \in 1 .. n /\ i < Len(f)
    BY <1>1, <1>3, <2>1
  <2>2. CASE i = n + 1 /\ ~(i < Len(f))
    BY <1>1, <1>5, <2>2
  <2> QED
    BY <1>4, <2>1, <2>2
<1>7. x \in {"start", "progress"} => Running(f)
  BY <1>1, <1>6 DEF Running
<1> QED
  BY <1>1, <1>6, <1>7 DEF f

(* What Said adds keeps the history of its session good, and the others.    *)
LEMMA SaidIsGood ==
  ASSUME TypeOK, NEW h \in Sessions, NEW x \in EventNames, events' = Said(h, x),
         events[h] = <<>> \/ Running(events[h]),
         x \in {"start", "failed", "limit"} => events[h] = <<>>,
         x \in {"progress", "complete"} => events[h] # <<>>
  PROVE  /\ events' \in [Sessions -> Seq(EventNames)]
         /\ \A g \in Sessions : g # h => events'[g] = events[g]
         /\ GoodHistory(events'[h])
         /\ x \in {"start", "progress"} => Running(events'[h])
<1>1. events \in [Sessions -> Seq(EventNames)] /\ events[h] \in Seq(EventNames)
  BY DEF TypeOK
<1>2. CASE x = "progress" /\ events[h] # <<>> /\ events[h][Len(events[h])] = x
  <2>1. events' = events /\ Running(events[h])
    BY <1>2 DEF Said
  <2> QED
    BY <1>1, <2>1 DEF Running
<1>3. CASE ~(x = "progress" /\ events[h] # <<>> /\ events[h][Len(events[h])] = x)
  <2>1. events' = [events EXCEPT ![h] = Append(events[h], x)]
    BY <1>3 DEF Said
  <2>2. /\ Append(events[h], x) \in Seq(EventNames)
        /\ GoodHistory(Append(events[h], x))
        /\ x \in {"start", "progress"} => Running(Append(events[h], x))
    BY <1>1, Appended
  <2> QED
    BY <1>1, <2>1, <2>2
<1> QED
  BY <1>2, <1>3

-----------------------------------------------------------------------------
(* The three ways in which a step that works on one session leaves the      *)
(* invariant: the worker tells of the session, the worker goes on without   *)
(* a word, or an application thread takes a step of its call.               *)

(* The threads that hold no lock, when the application does not. *)
LEMMA NobodyLocked ==
  ASSUME TypeOK, LockInv, lock \in {"free", "worker"}
  PROVE  \A a \in Apps : call[a].pc = "tested"
<1> SUFFICES ASSUME NEW a \in Apps PROVE call[a].pc = "tested"
  OBVIOUS
<1>1. lock # a
  BY ConstantsAssumption DEF ConstantsAssumption
<1>2. call[a].pc \in {"tested", "locked"}
  BY DEF TypeOK, CallRec
<1> QED
  BY <1>1, <1>2 DEF LockInv

(* A call that waits for the lock looks at a session that is idle, so a     *)
(* step that works on another session, or leaves an idle session idle, is   *)
(* nothing to it.                                                           *)
LEMMA CallsWait ==
  ASSUME TypeOK, LockInv, lock \in {"free", "worker"}, NEW h \in Sessions,
         \A a \in Apps : CallOK(a), call' = call,
         \A g \in Sessions : g # h => sess'[g] = sess[g],
         sess[h].st = "NONE" => sess'[h].st = "NONE"
  PROVE  \A a \in Apps : CallOK(a)'
<1> SUFFICES ASSUME NEW a \in Apps PROVE CallOK(a)'
  OBVIOUS
<1>1. call[a].pc = "tested" /\ CallOK(a)
  BY NobodyLocked
<1>2. call[a].op \in {"none", "listen", "connect", "destroy", "deinit"}
  BY DEF TypeOK, CallRec
<1>3. CASE call[a].op \in {"none", "deinit"}
  BY <1>1, <1>3 DEF CallOK
<1>4. CASE call[a].op = "destroy"
  BY <1>1, <1>4 DEF CallOK
<1>5. CASE call[a].op \in {"listen", "connect"}
  <2>1. call[a].h \in Sessions /\ sess[call[a].h].st = "NONE"
    BY <1>1, <1>5 DEF CallOK
  <2>2. sess'[call[a].h].st = "NONE"
    BY <2>1
  <2> QED
    BY <1>1, <1>5, <2>1, <2>2 DEF CallOK
<1> QED
  BY <1>2, <1>3, <1>4, <1>5

(* The worker tells of session h. *)
LEMMA Tells ==
  ASSUME IInv, NEW h \in Sessions, NEW e \in EventNames,
         NEW after \in {"nothing", "goOn", "setNone", "clear"},
         NEW todo \in SUBSET Slots, NEW back \in {"walk", "timeouts"},
         lock \in {"free", "worker"},
         worker.pc \in {"walk", "return", "timeouts"},
         Telling => worker.who = h, ~Ending(h),
         worker.due # {} => back = "timeouts",
         Tell(h, e, after, todo, back),
         Changes(h), DescInv', Fits(h, e, after, back)',
         sess[h].st # "NONE",
         e \in {"start", "failed", "limit"} => sess[h].st # "ESTABLISHED",
         e \in {"progress", "complete"} => sess[h].st = "ESTABLISHED",
         sess'[h].st = "CONNECTING" => sess'[h].left = Cardinality(Tried(h))',
         \/ after \in {"setNone", "clear"}
         \/ sess'[h].st = "NONE"
         \/ sess'[h].st = "ESTABLISHED" /\ e \in {"start", "progress"}
  PROVE  IInv'
<1>0. /\ TypeOK /\ LockInv /\ QuietInv /\ TellInv /\ DueInv /\ DescInv
      /\ \A a \in Apps : CallOK(a)
      /\ \A g \in Sessions : LeftOK(g) /\ HistoryOK(g)
  BY DEF IInv
<1>1. /\ lock' = "worker" /\ call' = call /\ inited' = inited /\ thrdFlag' = thrdFlag
      /\ events' = Said(h, e)
      /\ worker' = [worker EXCEPT !.pc = "callback", !.back = back, !.todo = todo,
                                  !.who = h, !.event = e, !.after = after,
                                  !.due = @ \ {h}]
  BY DEF Tell, WorkerVars
<1>2. worker \in WorkerRec
  BY <1>0 DEF TypeOK
<1>3. /\ worker'.pc = "callback" /\ worker'.back = back /\ worker'.who = h
      /\ worker'.event = e /\ worker'.after = after /\ worker'.due = worker.due \ {h}
      /\ worker' \in WorkerRec
  BY <1>1, <1>2 DEF WorkerRec
<1>4. /\ sess' \in [Sessions -> SessRec] /\ slot' \in [Slots -> SlotRec]
      /\ \A g \in Sessions : g # h => sess'[g] = sess[g]
  BY DEF Changes
<1>5. /\ events' \in [Sessions -> Seq(EventNames)]
      /\ \A g \in Sessions : g # h => events'[g] = events[g]
      /\ GoodHistory(events'[h])
      /\ e \in {"start", "progress"} => Running(events'[h])
  <2>1. /\ sess[h].st = "ESTABLISHED" => Running(events[h])
        /\ sess[h].st # "ESTABLISHED" => events[h] = <<>>
    BY <1>0 DEF HistoryOK
  <2>2. Running(events[h]) => events[h] # <<>>
    BY <1>0 DEF Running, TypeOK
  <2> QED
    BY <1>0, <1>1, <2>1, <2>2, SaidIsGood
<1>6. TypeOK'
  BY <1>0, <1>1, <1>3, <1>4, <1>5 DEF TypeOK
<1>7. \A a \in Apps : call[a].pc = "tested"
  BY <1>0, NobodyLocked
<1>8. LockInv'
  <2>1. \A a \in Apps : lock' # a /\ call'[a].pc # "locked"
    BY <1>1, <1>7, ConstantsAssumption DEF ConstantsAssumption
  <2> QED
    BY <1>1, <1>3, <2>1 DEF LockInv
<1>9. QuietInv'
  BY <1>0, <1>1 DEF QuietInv
<1>10. TellInv'
  BY <1>3 DEF TellInv
<1>11. DueInv'
  <2> SUFFICES ASSUME NEW g \in worker'.due
               PROVE  /\ InTimeouts'
                      /\ sess'[g].life = "live" /\ sess'[g].st \in Transferring
                      /\ g # worker'.who
    BY DEF DueInv
  <2>1. g \in worker.due /\ g # h /\ g \in Sessions /\ back = "timeouts"
    BY <1>2, <1>3 DEF WorkerRec
  <2>2. sess[g].life = "live" /\ sess[g].st \in Transferring
    BY <1>0, <2>1 DEF DueInv
  <2> QED
    BY <1>3, <1>4, <2>1, <2>2 DEF InTimeouts, Telling
<1>12. \A a \in Apps : CallOK(a)'
  BY <1>0, <1>1, <1>4, CallsWait
<1>13. ASSUME NEW g \in Sessions PROVE LeftOK(g)'
  <2>1. CASE g = h
    BY <2>1 DEF LeftOK
  <2>2. CASE g # h
    <3>1. sess[g].st = "CONNECTING" => sess[g].left = Cardinality(Tried(g))
      BY <1>0, <1>7 DEF LeftOK
    <3> QED
      BY <1>4, <2>2, <3>1 DEF LeftOK, Tried
  <2> QED
    BY <2>1, <2>2
<1>14. ASSUME NEW g \in Sessions PROVE HistoryOK(g)'
  <2>1. CASE g = h
    BY <1>3, <1>5, <2>1 DEF HistoryOK, Ending, Telling
  <2>2. CASE g # h
    <3>1. ~Ending(g)
      BY <2>2 DEF Ending
    <3> QED
      BY <1>0, <1>4, <1>5, <2>2, <3>1 DEF HistoryOK
  <2> QED
    BY <2>1, <2>2
<1> QED
  BY <1>6, <1>8, <1>9, <1>10, <1>11, <1>12, <1>13, <1>14 DEF IInv

(* The worker goes on with its walk, or with the sessions that timed out.   *)
LEMMA Goes ==
  ASSUME IInv, NEW h \in Sessions,
         lock \in {"free", "worker"}, lock' \in {"free", "worker"},
         worker.pc \in {"walk", "return"}, Telling => worker.who = h,
         worker' \in WorkerRec, worker'.pc \in {"walk", "timeouts"},
         worker'.due = worker.due,
         worker'.pc = "timeouts" <=> lock' = "worker",
         worker.due # {} => worker'.pc = "timeouts",
         UNCHANGED <<WorkerVars, events>>,
         Changes(h), DescInv',
         sess[h].st = "NONE" => sess'[h].st = "NONE",
         sess'[h].st = "CONNECTING" => sess'[h].left = Cardinality(Tried(h))',
         \/ sess'[h].st = "NONE"
         \/ ~Ending(h) /\ sess'[h].st = "ESTABLISHED" /\ sess[h].st = "ESTABLISHED"
         \/ ~Ending(h) /\ sess[h].st # "ESTABLISHED" /\ sess'[h].st # "ESTABLISHED"
  PROVE  IInv'
<1>0. /\ TypeOK /\ LockInv /\ QuietInv /\ TellInv /\ DueInv /\ DescInv
      /\ \A a \in Apps : CallOK(a)
      /\ \A g \in Sessions : LeftOK(g) /\ HistoryOK(g)
  BY DEF IInv
<1>1. /\ call' = call /\ inited' = inited /\ thrdFlag' = thrdFlag /\ events' = events
      /\ worker'.pc \notin {"callback", "return", "none", "ended"} /\ ~Telling'
  BY DEF WorkerVars, Telling
<1>4. /\ sess' \in [Sessions -> SessRec] /\ slot' \in [Slots -> SlotRec]
      /\ \A g \in Sessions : g # h => sess'[g] = sess[g]
  BY DEF Changes
<1>6. TypeOK'
  BY <1>0, <1>1, <1>4 DEF TypeOK
<1>7. \A a \in Apps : call[a].pc = "tested"
  BY <1>0, NobodyLocked
<1>8. LockInv'
  <2>1. \A a \in Apps : lock' # a /\ call'[a].pc # "locked"
    BY <1>1, <1>7, ConstantsAssumption DEF ConstantsAssumption
  <2> QED
    BY <1>1, <2>1 DEF LockInv
<1>9. QuietInv'
  BY <1>0, <1>1 DEF QuietInv
<1>10. TellInv'
  BY <1>1 DEF TellInv
<1>11. DueInv'
  <2> SUFFICES ASSUME NEW g \in worker'.due
               PROVE  /\ InTimeouts'
                      /\ sess'[g].life = "live" /\ sess'[g].st \in Transferring
    BY <1>1 DEF DueInv
  <2>1. g \in worker.due /\ g \in Sessions
    BY <1>0 DEF TypeOK, WorkerRec
  <2>2. InTimeouts /\ sess[g].life = "live" /\ sess[g].st \in Transferring
        /\ (Telling => g # worker.who)
    BY <1>0, <2>1 DEF DueInv
  <2>3. g # h
    BY <2>2 DEF InTimeouts
  <2> QED
    BY <1>4, <2>1, <2>2, <2>3 DEF InTimeouts
<1>12. \A a \in Apps : CallOK(a)'
  BY <1>0, <1>1, <1>4, CallsWait
<1>13. ASSUME NEW g \in Sessions PROVE LeftOK(g)'
  <2>1. CASE g = h
    BY <2>1 DEF LeftOK
  <2>2. CASE g # h
    <3>1. sess[g].st = "CONNECTING" => sess[g].left = Cardinality(Tried(g))
      BY <1>0, <1>7 DEF LeftOK
    <3> QED
      BY <1>4, <2>2, <3>1 DEF LeftOK, Tried
  <2> QED
    BY <2>1, <2>2
<1>14. ASSUME NEW g \in Sessions PROVE HistoryOK(g)'
  <2>0. ~Ending(g)' /\ events'[g] = events[g]
    BY <1>1 DEF Ending
  <2>1. CASE g = h
    <3>1. HistoryOK(h)
      BY <1>0
    <3> QED
      BY <2>0, <2>1, <3>1, <1>0, Fields DEF HistoryOK
  <2>2. CASE g # h
    <3>1. ~Ending(g)
      BY <2>2 DEF Ending
    <3> QED
      BY <1>0, <1>4, <2>0, <2>2, <3>1 DEF HistoryOK
  <2> QED
    BY <2>1, <2>2
<1> QED
  BY <1>6, <1>8, <1>9, <1>10, <1>11, <1>12, <1>13, <1>14 DEF IInv

(* The application's thread takes a step, holding the lock or finding it    *)
(* free.                                                                    *)
LEMMA AppDoes ==
  ASSUME IInv, Disciplined, NEW a \in Apps, NEW h \in Sessions,
         lock \in {"free", a}, lock' \in {"free", a}, inited,
         UNCHANGED AppVars, call' \in [Apps -> CallRec],
         lock' = a <=> call'[a].pc = "locked", CallOK(a)',
         call[a].op = "connect" /\ call[a].pc = "locked" => call[a].h = h,
         Changes(h), DescInv', LeftOK(h)',
         events' \in [Sessions -> Seq(EventNames)],
         \A g \in Sessions : g # h => events'[g] = events[g],
         GoodHistory(events'[h]),
         sess'[h].st \notin {"NONE", "ESTABLISHED"} => events'[h] = <<>>,
         sess'[h].st = "ESTABLISHED" => Running(events'[h])
  PROVE  IInv'
<1>0. /\ TypeOK /\ LockInv /\ QuietInv /\ TellInv /\ DueInv /\ DescInv
      /\ \A b \in Apps : CallOK(b)
      /\ \A g \in Sessions : LeftOK(g) /\ HistoryOK(g)
  BY DEF IInv
<1>1. /\ inited' = inited /\ thrdFlag' = thrdFlag /\ worker' = worker
      /\ lock # "worker" /\ lock' # "worker" /\ a # "free"
  BY ConstantsAssumption DEF AppVars, ConstantsAssumption
<1>2. ~Telling /\ worker.pc # "timeouts" /\ ~Telling'
  BY <1>0, <1>1 DEF LockInv, Telling
<1>3. \A b \in Apps : b = a
  BY DEF Disciplined
<1>4. /\ sess' \in [Sessions -> SessRec] /\ slot' \in [Slots -> SlotRec]
      /\ \A g \in Sessions : g # h => sess'[g] = sess[g]
  BY DEF Changes
<1>6. TypeOK'
  BY <1>0, <1>1, <1>4 DEF TypeOK
<1>8. LockInv'
  <2>1. worker.pc \notin {"callback", "return", "timeouts"}
    BY <1>2 DEF Telling
  <2> QED
    BY <1>1, <1>3, <2>1 DEF LockInv
<1>9. QuietInv'
  BY <1>0, <1>1 DEF QuietInv
<1>10. TellInv'
  BY <1>2 DEF TellInv
<1>11. DueInv'
  <2>1. worker.due = {}
    BY <1>0, <1>2 DEF DueInv, InTimeouts
  <2> QED
    BY <1>1, <2>1 DEF DueInv
<1>12. \A b \in Apps : CallOK(b)'
  BY <1>3
<1>13. ASSUME NEW g \in Sessions PROVE LeftOK(g)'
  <2>1. CASE g = h
    BY <2>1
  <2>2. CASE g # h
    <3>1. sess[g].st = "CONNECTING" => sess[g].left = Cardinality(Tried(g))
      BY <1>0, <1>3, <2>2 DEF LeftOK
    <3> QED
      BY <1>4, <2>2, <3>1 DEF LeftOK, Tried
  <2> QED
    BY <2>1, <2>2
<1>14. ASSUME NEW g \in Sessions PROVE HistoryOK(g)'
  <2>0. ~Ending(g)' /\ ~Ending(g)
    BY <1>2 DEF Ending
  <2>1. CASE g = h
    BY <2>0, <2>1 DEF HistoryOK
  <2>2. CASE g # h
    BY <1>0, <1>4, <2>0, <2>2 DEF HistoryOK
  <2> QED
    BY <2>1, <2>2
<1> QED
  BY <1>6, <1>8, <1>9, <1>10, <1>11, <1>12, <1>13, <1>14 DEF IInv

-----------------------------------------------------------------------------
(* OnSocketEvent_. *)

(* What a handler finds. *)
LEMMA HandlerFacts ==
  ASSUME IInv, NEW k \in Slots, NEW h \in Sessions, NEW kind, NEW ready,
         kind # "free", Handles(k, h, kind, ready)
  PROVE  /\ TypeOK /\ DescInv /\ SlotOK(k) /\ SessOK(h)
         /\ worker.pc = "walk" /\ lock = "free" /\ ~Telling /\ ~Ending(h)
         /\ worker.due = {} /\ worker \in WorkerRec
         /\ slot[k].owner = h /\ slot[k].kind = kind /\ slot[k].ready = ready
         /\ sess[h].st = "CONNECTING" => sess[h].left = Cardinality(Tried(h))
<1>1. /\ TypeOK /\ LockInv /\ DueInv /\ DescInv /\ LeftOK(h)
  BY DEF IInv
<1>2. worker.pc = "walk" /\ lock = "free" /\ slot[k] = [owner |-> h, kind |-> kind, ready |-> ready]
  BY DEF Handles
<1>3. ~Telling /\ ~Ending(h) /\ ~InTimeouts
  BY <1>2 DEF Telling, Ending, InTimeouts
<1>4. worker.due = {}
  BY <1>1, <1>3 DEF DueInv
<1>5. SlotOK(k) /\ SessOK(h) /\ worker \in WorkerRec
  BY <1>1 DEF DescInv, TypeOK
<1>6. sess[h].st = "CONNECTING" => sess[h].left = Cardinality(Tried(h))
  BY <1>1, <1>2, NobodyLocked DEF LeftOK
<1> QED
  BY <1>1, <1>2, <1>3, <1>4, <1>5, <1>6

(* A handler that says nothing. *)
LEMMA HandlerGoes ==
  ASSUME IInv, NEW k \in Slots, NEW h \in Sessions, NEW kind, NEW ready,
         kind # "free", Handles(k, h, kind, ready), Continue(k),
         Changes(h), DescInv',
         sess[h].st = "NONE" => sess'[h].st = "NONE",
         sess'[h].st = "CONNECTING" => sess'[h].left = Cardinality(Tried(h))',
         \/ sess'[h].st = "NONE"
         \/ sess'[h].st = "ESTABLISHED" /\ sess[h].st = "ESTABLISHED"
         \/ sess[h].st # "ESTABLISHED" /\ sess'[h].st # "ESTABLISHED"
  PROVE  IInv'
<1>1. /\ worker.pc = "walk" /\ lock = "free" /\ ~Telling /\ ~Ending(h)
      /\ worker.due = {} /\ worker \in WorkerRec
  BY HandlerFacts
<1>2. /\ worker' = [worker EXCEPT !.todo = {j \in @ \ {k} : slot'[j] = slot[j]}]
      /\ UNCHANGED <<WorkerVars, events>> /\ lock' = lock
  BY DEF Continue
<1>3. worker' \in WorkerRec /\ worker'.pc = "walk" /\ worker'.due = worker.due
  BY <1>1, <1>2 DEF WorkerRec
<1> QED
  BY <1>1, <1>2, <1>3, Goes

(* A handler that tells the application. *)
LEMMA HandlerTells ==
  ASSUME IInv, NEW k \in Slots, NEW h \in Sessions, NEW kind, NEW ready,
         kind # "free", Handles(k, h, kind, ready),
         NEW e \in EventNames, NEW after \in {"nothing", "goOn", "setNone", "clear"},
         Notify(k, h, e, after),
         Changes(h), DescInv', Fits(h, e, after, "walk")',
         sess[h].st # "NONE",
         e \in {"start", "failed", "limit"} => sess[h].st # "ESTABLISHED",
         e \in {"progress", "complete"} => sess[h].st = "ESTABLISHED",
         sess'[h].st = "CONNECTING" => sess'[h].left = Cardinality(Tried(h))',
         \/ after \in {"setNone", "clear"}
         \/ sess'[h].st = "NONE"
         \/ sess'[h].st = "ESTABLISHED" /\ e \in {"start", "progress"}
  PROVE  IInv'
<1> DEFINE todo == {j \in worker.todo \ {k} : slot'[j] = slot[j]}
<1>1. /\ worker.pc = "walk" /\ lock = "free" /\ ~Telling /\ ~Ending(h)
      /\ worker.due = {} /\ worker \in WorkerRec
  BY HandlerFacts
<1>2. todo \in SUBSET Slots
  BY <1>1 DEF WorkerRec
<1>3. Tell(h, e, after, todo, "walk")
  BY DEF Notify
<1> HIDE DEF todo
<1> QED
  BY <1>1, <1>2, <1>3, Tells

(* What the slots of a session are for. *)
LEMMA OwnSlots ==
  ASSUME TypeOK, DescInv, NEW h \in Sessions, NEW j \in Slots,
         slot[j].kind # "free", slot[j].owner = h
  PROVE  \/ slot[j].kind = "listening" /\ sess[h].st = "LISTEN" /\ sess[h].listen = j
         \/ slot[j].kind = "stream" /\ sess[h].st \in Transferring /\ sess[h].conn = j
         \/ /\ slot[j].kind = "connecting" /\ sess[h].st = "CONNECTING"
            /\ \E i \in 1 .. MaxIp : sess[h].fds[i] = j /\ i <= sess[h].cnt
<1>1. SlotOK(j) /\ SessOK(h) /\ j # NoFd
  BY NoFdIsNoSlot DEF DescInv
<1>2. slot[j].kind \in {"listening", "connecting", "stream"}
  BY Fields
<1>3. CASE slot[j].kind = "listening"
  BY <1>1, <1>3 DEF SlotOK, SessOK
<1>4. CASE slot[j].kind = "stream"
  BY <1>1, <1>4 DEF SlotOK, SessOK
<1>5. CASE slot[j].kind = "connecting"
  BY <1>1, <1>5 DEF SlotOK, SessOK
<1> QED
  BY <1>2, <1>3, <1>4, <1>5

(* A session that is neither live nor idle does not exist. *)
LEMMA BusyIsLive ==
  ASSUME TypeOK, DescInv, NEW h \in Sessions, sess[h].st # "NONE"
  PROVE  sess[h].life = "live"
BY DEF DescInv, SessOK

(* The session gives up: it is cleared and told. *)
LEMMA GivesUp ==
  ASSUME IInv, NEW k \in Slots, NEW h \in Sessions, NEW kind, NEW ready,
         kind # "free", Handles(k, h, kind, ready), NEW e \in {"limit", "error"},
         Clear(h), Notify(k, h, e, "nothing"),
         sess[h].st # "NONE", e = "limit" => sess[h].st # "ESTABLISHED"
  PROVE  IInv'
<1>1. TypeOK /\ DescInv
  BY HandlerFacts
<1>2. sess' = [sess EXCEPT ![h] = [NewSession EXCEPT !.life = "live"]]
  BY DEF Clear, NewSession
<1>3. slot' = Closed(Recorded(h))
  BY DEF Clear
<1>4. Changes(h) /\ DescInv' /\ sess'[h].st = "NONE" /\ sess'[h].life = "live"
  BY <1>1, <1>2, <1>3, Cleared
<1>5. Fits(h, e, "nothing", "walk")'
  BY <1>4 DEF Fits
<1>6. e \in EventNames
  BY DEF EventNames
<1> QED
  BY <1>4, <1>5, <1>6, HandlerTells

(* liEvAccept. *)
LEMMA StepOnAccept ==
  ASSUME IInv, NEW k \in Slots, NEW h \in Sessions, OnAccept(k, h)
  PROVE  IInv'
<1>1. Handles(k, h, "listening", "accept")
  BY DEF OnAccept
<1>2. TypeOK /\ DescInv /\ SessOK(h) /\ slot[k].owner = h /\ slot[k].kind = "listening"
  BY <1>1, HandlerFacts
<1>3. sess[h].st = "LISTEN" /\ sess[h].listen = k
  BY <1>2, OwnSlots
<1>4. CASE Clear(h) /\ Notify(k, h, "limit", "nothing")
  BY <1>1, <1>3, <1>4, GivesUp
<1>5. CASE \E f \in Slots :
             /\ Idle(f)
             /\ slot' = [Closed({k}) EXCEPT ![f] = Open(h, f, "stream")]
             /\ sess' = [sess EXCEPT ![h].st = "CONNECTED", ![h].conn = f,
                                     ![h].listen = NoFd, ![h].late = FALSE]
             /\ Continue(k)
  <2>1. PICK f \in Slots :
             /\ Idle(f)
             /\ slot' = [Closed({k}) EXCEPT ![f] = Open(h, f, "stream")]
             /\ sess' = [sess EXCEPT ![h].st = "CONNECTED", ![h].conn = f,
                                     ![h].listen = NoFd, ![h].late = FALSE]
             /\ Continue(k)
    BY <1>5
  <2>2. slot[f].kind = "free" /\ f # k
    BY <1>2, <2>1 DEF Idle
  <2>3. /\ slot' \in [Slots -> SlotRec]
        /\ slot'[f] = [owner |-> h, kind |-> "stream", ready |-> "no"]
        /\ slot'[k] = EmptySlot
        /\ \A j \in Slots : j # f /\ j # k => slot'[j] = slot[j]
    BY <1>2, <2>1, <2>2, NewIsSession DEF Closed, Open, TypeOK, SlotRec
  <2>4. /\ sess' \in [Sessions -> SessRec]
        /\ \A g \in Sessions : g # h => sess'[g] = sess[g]
    <3>1. sess \in [Sessions -> SessRec]
      BY <1>2 DEF TypeOK
    <3>2. sess'[h] \in SessRec
      BY <2>1, <3>1, ZenonT(60) DEF SessRec, States
    <3> QED
      BY <2>1, <3>1, <3>2
  <2>5. /\ sess'[h].st = "CONNECTED" /\ sess'[h].conn = f /\ sess'[h].listen = NoFd
        /\ sess'[h].fds = sess[h].fds /\ sess'[h].left = sess[h].left
        /\ sess'[h].life = sess[h].life
    BY <1>2, <2>1 DEF TypeOK, SessRec
  <2>6. Changes(h)
    BY <1>2, <2>2, <2>3, <2>4 DEF Changes, EmptySlot
  <2>7. SessOK(h)'
    <3>1. Holds(h, f, "stream")'
      BY <2>3 DEF Holds
    <3>2. \A i \in 1 .. MaxIp : sess'[h].fds[i] = NoFd
      BY <1>2, <1>3, <2>5 DEF SessOK
    <3>3. sess'[h].life = "live" /\ sess'[h].left = 0
      BY <1>2, <1>3, <2>5 DEF SessOK
    <3> QED
      BY <2>5, <3>1, <3>2, <3>3 DEF SessOK, Transferring
  <2>8. ASSUME NEW j \in Slots, slot'[j].kind # "free", slot'[j].owner = h
        PROVE  SlotOK(j)'
    <3>1. j # k
      BY <2>3, <2>8 DEF EmptySlot
    <3>2. j = f
      BY <1>2, <1>3, <2>3, <2>8, <3>1, OwnSlots DEF Transferring
    <3> QED
      BY <2>3, <2>5, <3>2 DEF SlotOK
  <2>9. DescInv'
    BY <1>2, <2>6, <2>7, <2>8, OnlyHere
  <2> QED
    BY <1>1, <1>3, <2>1, <2>5, <2>6, <2>9, HandlerGoes
<1> QED
  BY <1>3, <1>4, <1>5 DEF OnAccept

(* liEvConnect. *)
LEMMA StepOnConnect ==
  ASSUME IInv, NEW k \in Slots, NEW h \in Sessions, OnConnect(k, h)
  PROVE  IInv'
<1>1. Handles(k, h, "connecting", "connect") /\ sess[h].st = "CONNECTING"
  BY DEF OnConnect
<1>2. TypeOK /\ DescInv /\ SessOK(h) /\ slot[k].owner = h /\ slot[k].kind = "connecting"
  BY <1>1, HandlerFacts
<1>3. CASE Clear(h) /\ Notify(k, h, "error", "nothing")
  BY <1>1, <1>3, GivesUp
<1>4. CASE /\ slot' = [Closed({sess[h].fds[i] : i \in 1 .. sess[h].cnt} \ {k})
                      EXCEPT ![k] = Open(h, k, "stream")]
           /\ sess' = [sess EXCEPT ![h] = [@ EXCEPT !.st = "CONNECT", !.conn = k,
                      !.fds = [i \in 1 .. MaxIp |->
                                 IF i <= sess[h].cnt THEN NoFd ELSE sess[h].fds[i]],
                      !.cnt = 0, !.left = 0, !.late = FALSE]]
           /\ Continue(k)
  <2> DEFINE F == {sess[h].fds[i] : i \in 1 .. sess[h].cnt} \ {k}
             g0 == [i \in 1 .. MaxIp |-> IF i <= sess[h].cnt THEN NoFd ELSE sess[h].fds[i]]
  <2>1. /\ MaxIp \in Nat /\ sess[h].cnt \in 0 .. MaxIp /\ k # NoFd
        /\ \A i \in 1 .. MaxIp : sess[h].fds[i] \in Slots \cup {NoFd}
        /\ sess \in [Sessions -> SessRec] /\ sess[h] \in SessRec
        /\ slot \in [Slots -> SlotRec]
    BY <1>2, Fields, NoFdIsNoSlot, ConstantsAssumption DEF ConstantsAssumption, TypeOK
  <2>2. \A j \in Slots : j \in F => slot[j].owner = h /\ j # k
    BY <1>2, <2>1, NoFdIsNoSlot DEF SessOK, Holds
  <2>3. \A i \in 1 .. MaxIp : g0[i] = NoFd
    BY <1>2, <2>1 DEF SessOK
  <2>4. g0 \in [1 .. MaxIp -> Slots \cup {NoFd}]
    BY <2>1
  <2>5. sess' = [sess EXCEPT ![h] = [sess[h] EXCEPT !.st = "CONNECT", !.conn = k,
                                  !.fds = g0, !.cnt = 0, !.left = 0, !.late = FALSE]]
    BY <1>4
  <2>13. slot' = [[j \in Slots |-> IF j \in F THEN EmptySlot ELSE slot[j]]
                   EXCEPT ![k] = [owner |-> h, kind |-> "stream", ready |-> "no"]]
    BY <1>4 DEF Closed, Open
  <2> HIDE DEF F, g0
  <2>6. /\ slot' \in [Slots -> SlotRec]
        /\ slot'[k] = [owner |-> h, kind |-> "stream", ready |-> "no"]
        /\ \A j \in Slots : j # k /\ j \in F => slot'[j] = EmptySlot
        /\ \A j \in Slots : j # k /\ j \notin F => slot'[j] = slot[j]
    BY <2>1, <2>13, NewIsSession DEF SlotRec
  <2>7. /\ sess' \in [Sessions -> SessRec]
        /\ \A g \in Sessions : g # h => sess'[g] = sess[g]
    <3>1. sess'[h] \in SessRec
      <4>1. 0 \in 0 .. MaxIp /\ sess \in [Sessions -> SessRec]
        BY <2>1
      <4> QED
        BY <2>4, <2>5, <4>1, ZenonT(60) DEF SessRec, States
    <3> QED
      BY <2>1, <2>5, <3>1
  <2>8. /\ sess'[h].st = "CONNECT" /\ sess'[h].conn = k /\ sess'[h].left = 0
        /\ sess'[h].listen = sess[h].listen /\ sess'[h].fds = g0
        /\ sess'[h].life = sess[h].life
    BY <2>1, <2>5 DEF SessRec
  <2>9. Changes(h)
    BY <1>2, <2>2, <2>6, <2>7 DEF Changes, EmptySlot
  <2>10. SessOK(h)'
    <3>1. Holds(h, k, "stream")'
      BY <2>6 DEF Holds
    <3>2. sess'[h].listen = NoFd /\ sess'[h].life = "live"
      BY <1>1, <1>2, <2>8 DEF SessOK
    <3> QED
      BY <2>3, <2>8, <3>1, <3>2 DEF SessOK, Transferring
  <2>11. ASSUME NEW j \in Slots, slot'[j].kind # "free", slot'[j].owner = h
        PROVE  SlotOK(j)'
    <3>1. j = k
      <4>1. SUFFICES ASSUME j # k PROVE FALSE
        OBVIOUS
      <4>2. j \notin F /\ slot'[j] = slot[j]
        BY <2>6, <2>11, <4>1 DEF EmptySlot
      <4>3. \E i \in 1 .. MaxIp : sess[h].fds[i] = j /\ i <= sess[h].cnt
        BY <1>1, <1>2, <2>11, <4>2, OwnSlots DEF Transferring
      <4> QED
        BY <2>1, <4>1, <4>2, <4>3 DEF F
    <3> QED
      BY <2>6, <2>8, <3>1 DEF SlotOK
  <2>12. DescInv'
    BY <1>2, <2>9, <2>10, <2>11, OnlyHere
  <2> QED
    BY <1>1, <1>4, <2>8, <2>9, <2>12, HandlerGoes
<1> QED
  BY <1>3, <1>4 DEF OnConnect

(* What is read refreshes the session, and its slot has no news for now.    *)
LEMMA Refreshed ==
  ASSUME TypeOK, DescInv, NEW h \in Sessions, NEW k \in Slots,
         slot[k].kind = "stream", slot[k].owner = h,
         slot' = [slot EXCEPT ![k].ready = "no"],
         sess' \in [Sessions -> SessRec],
         \A g \in Sessions : g # h => sess'[g] = sess[g],
         sess'[h].st \in Transferring,
         sess'[h].listen = sess[h].listen, sess'[h].conn = sess[h].conn,
         sess'[h].fds = sess[h].fds, sess'[h].left = sess[h].left,
         sess'[h].life = sess[h].life
  PROVE  Changes(h) /\ DescInv'
<1>1. SessOK(h) /\ sess[h].st \in Transferring /\ sess[h].conn = k
  BY OwnSlots DEF DescInv
<1>2. slot \in [Slots -> SlotRec]
  BY DEF TypeOK
<1>3. /\ slot' \in [Slots -> SlotRec]
      /\ slot'[k].kind = "stream" /\ slot'[k].owner = h /\ slot'[k].ready = "no"
      /\ \A j \in Slots : j # k => slot'[j] = slot[j]
  BY <1>2 DEF SlotRec
<1>4. Changes(h)
  BY <1>3 DEF Changes
<1>5. /\ sess[h].st \notin {"NONE", "LISTEN", "CONNECTING"}
      /\ sess'[h].st \notin {"NONE", "LISTEN", "CONNECTING"}
  BY <1>1 DEF Transferring
<1>6. SessOK(h)'
  <2>1. Holds(h, k, "stream")'
    BY <1>3 DEF Holds
  <2>2. /\ sess[h].listen = NoFd /\ \A i \in 1 .. MaxIp : sess[h].fds[i] = NoFd
        /\ sess[h].left = 0 /\ sess[h].life = "live"
    BY <1>1, <1>5 DEF SessOK
  <2> QED
    BY <1>1, <2>1, <2>2 DEF SessOK
<1>7. ASSUME NEW j \in Slots, slot'[j].kind # "free", slot'[j].owner = h
      PROVE  SlotOK(j)'
  <2>1. j = k
    BY <1>1, <1>3, <1>5, <1>7, OwnSlots
  <2> QED
    BY <1>1, <1>3, <2>1 DEF SlotOK
<1> QED
  BY <1>4, <1>6, <1>7, OnlyHere

(* A session that has heard something is a session, and what the table is   *)
(* compared with has not changed.                                           *)
LEMMA HeardAll ==
  ASSUME sess \in [Sessions -> SessRec], NEW h \in Sessions, NEW s \in SubStates,
         NEW st \in States,
         sess' = [sess EXCEPT ![h].late = FALSE, ![h].st = st, ![h].sub = s]
  PROVE  /\ sess' \in [Sessions -> SessRec]
         /\ \A g \in Sessions : g # h => sess'[g] = sess[g]
         /\ sess'[h].st = st /\ sess'[h].life = sess[h].life
         /\ sess'[h].listen = sess[h].listen /\ sess'[h].conn = sess[h].conn
         /\ sess'[h].fds = sess[h].fds /\ sess'[h].left = sess[h].left
<1> DEFINE r == [sess[h] EXCEPT !.late = FALSE, !.st = st, !.sub = s]
<1>1. sess[h] \in SessRec
  OBVIOUS
<1>2. sess' = [sess EXCEPT ![h] = r]
  OBVIOUS
<1>3. r \in SessRec
  BY <1>1, ZenonT(60) DEF SessRec
<1>4. /\ r.st = st /\ r.life = sess[h].life /\ r.listen = sess[h].listen
      /\ r.conn = sess[h].conn /\ r.fds = sess[h].fds /\ r.left = sess[h].left
  BY <1>1 DEF SessRec
<1> HIDE DEF r
<1> QED
  BY <1>2, <1>3, <1>4

LEMMA Heard ==
  ASSUME sess \in [Sessions -> SessRec], NEW h \in Sessions, NEW s \in SubStates,
         sess' = [sess EXCEPT ![h].late = FALSE, ![h].sub = s]
  PROVE  /\ sess' \in [Sessions -> SessRec]
         /\ \A g \in Sessions : g # h => sess'[g] = sess[g]
         /\ sess'[h].st = sess[h].st /\ sess'[h].life = sess[h].life
         /\ sess'[h].listen = sess[h].listen /\ sess'[h].conn = sess[h].conn
         /\ sess'[h].fds = sess[h].fds /\ sess'[h].left = sess[h].left
<1> DEFINE r == [sess[h] EXCEPT !.late = FALSE, !.sub = s]
<1>1. sess[h] \in SessRec
  OBVIOUS
<1>2. sess' = [sess EXCEPT ![h] = r]
  OBVIOUS
<1>3. r \in SessRec
  BY <1>1, ZenonT(60) DEF SessRec
<1>4. /\ r.st = sess[h].st /\ r.life = sess[h].life /\ r.listen = sess[h].listen
      /\ r.conn = sess[h].conn /\ r.fds = sess[h].fds /\ r.left = sess[h].left
  BY <1>1 DEF SessRec
<1> HIDE DEF r
<1> QED
  BY <1>2, <1>3, <1>4

(* A step that changes eSubState alone: the table and the records agree.    *)
LEMMA SubMoves ==
  ASSUME TypeOK, DescInv, NEW h \in Sessions, NEW s \in SubStates,
         sess' = [sess EXCEPT ![h].sub = s], slot' = slot
  PROVE  /\ Changes(h) /\ DescInv'
         /\ sess'[h].st = sess[h].st /\ sess'[h].life = sess[h].life
<1> DEFINE r == [sess[h] EXCEPT !.sub = s]
<1>1. sess \in [Sessions -> SessRec] /\ sess[h] \in SessRec
  BY DEF TypeOK
<1>2. sess' = [sess EXCEPT ![h] = r]
  OBVIOUS
<1>3. r \in SessRec
  BY <1>1, ZenonT(60) DEF SessRec
<1>4. /\ r.st = sess[h].st /\ r.life = sess[h].life /\ r.listen = sess[h].listen
      /\ r.conn = sess[h].conn /\ r.fds = sess[h].fds /\ r.left = sess[h].left
      /\ r.cnt = sess[h].cnt
  BY <1>1 DEF SessRec
<1> HIDE DEF r
<1>5. Changes(h)
  BY <1>1, <1>2, <1>3 DEF Changes, TypeOK
<1>6. sess'[h] = r
  BY <1>1, <1>2
<1>7. SessOK(h)'
  <2>1. SessOK(h)
    BY DEF DescInv
  <2> QED
    BY <1>4, <1>6, <2>1 DEF SessOK, Holds
<1>8. ASSUME NEW k \in Slots, slot'[k].kind # "free", slot'[k].owner = h
      PROVE  SlotOK(k)'
  <2>1. SlotOK(k)
    BY DEF DescInv
  <2> QED
    BY <1>4, <1>6, <1>8, <2>1 DEF SlotOK
<1> QED
  BY <1>4, <1>5, <1>6, <1>7, <1>8, OnlyHere

(* The handshake of the session. *)
LEMMA StepOnHandshake ==
  ASSUME IInv, NEW k \in Slots, NEW h \in Sessions, OnHandshake(k, h)
  PROVE  IInv'
<1>1. Handles(k, h, "stream", "data") /\ sess[h].st \in {"CONNECTED", "CONNECT"}
  BY DEF OnHandshake
<1>2. TypeOK /\ DescInv /\ slot[k].owner = h /\ slot[k].kind = "stream"
  BY <1>1, HandlerFacts
<1>3. sess \in [Sessions -> SessRec] /\ sess[h].life = "live"
  BY <1>1, <1>2, BusyIsLive DEF TypeOK
<1>4. CASE Clear(h) /\ Notify(k, h, "error", "nothing")
  BY <1>1, <1>4, GivesUp
<1>5. CASE /\ \E s \in SubStates :
                /\ s # sess[h].sub => s = "mid" /\ sess[h].st = "CONNECTED"
                /\ sess' = [sess EXCEPT ![h].late = FALSE, ![h].sub = s]
           /\ slot' = [slot EXCEPT ![k].ready = "no"]
           /\ Continue(k)
  <2>1. PICK s \in SubStates : sess' = [sess EXCEPT ![h].late = FALSE, ![h].sub = s]
    BY <1>5
  <2>2. /\ sess' \in [Sessions -> SessRec]
        /\ \A g \in Sessions : g # h => sess'[g] = sess[g]
        /\ sess'[h].st = sess[h].st /\ sess'[h].life = sess[h].life
        /\ sess'[h].listen = sess[h].listen /\ sess'[h].conn = sess[h].conn
        /\ sess'[h].fds = sess[h].fds /\ sess'[h].left = sess[h].left
    BY <1>3, <2>1, Heard
  <2>3. Changes(h) /\ DescInv'
    <3>1. sess'[h].st \in Transferring
      BY <1>1, <2>2 DEF Transferring
    <3>2. slot' = [slot EXCEPT ![k].ready = "no"]
      BY <1>5
    <3> QED
      BY <1>2, <2>2, <3>1, <3>2, Refreshed
  <2> QED
    BY <1>1, <1>5, <2>2, <2>3, HandlerGoes
<1>6. CASE /\ sess' = [sess EXCEPT ![h].late = FALSE, ![h].st = "ESTABLISHED",
                           ![h].sub = IF sess[h].st = "CONNECTED" THEN "none" ELSE @]
           /\ slot' = [slot EXCEPT ![k].ready = "no"]
           /\ Notify(k, h, "start", "goOn")
  <2>0. PICK s \in SubStates : s = IF sess[h].st = "CONNECTED" THEN "none" ELSE sess[h].sub
    BY <1>2, Fields, ConstantsAssumption DEF ConstantsAssumption
  <2>1. sess' = [sess EXCEPT ![h].late = FALSE, ![h].st = "ESTABLISHED", ![h].sub = s]
    BY <1>6, <2>0
  <2>2. /\ sess' \in [Sessions -> SessRec]
        /\ \A g \in Sessions : g # h => sess'[g] = sess[g]
        /\ sess'[h].st = "ESTABLISHED" /\ sess'[h].life = sess[h].life
        /\ sess'[h].listen = sess[h].listen /\ sess'[h].conn = sess[h].conn
        /\ sess'[h].fds = sess[h].fds /\ sess'[h].left = sess[h].left
    BY <1>3, <2>1, HeardAll DEF States
  <2>3. Changes(h) /\ DescInv'
    BY <1>1, <1>2, <1>6, <2>2, Refreshed DEF Transferring
  <2>4. Fits(h, "start", "goOn", "walk")'
    BY <1>3, <2>2 DEF Fits
  <2> QED
    BY <1>1, <1>6, <2>2, <2>3, <2>4, HandlerTells DEF EventNames
<1> QED
  BY <1>4, <1>5, <1>6 DEF OnHandshake

(* The transfer. *)
LEMMA StepOnTransfer ==
  ASSUME IInv, NEW k \in Slots, NEW h \in Sessions, OnTransfer(k, h)
  PROVE  IInv'
<1>1. Handles(k, h, "stream", "data") /\ sess[h].st = "ESTABLISHED"
  BY DEF OnTransfer
<1>2. TypeOK /\ DescInv /\ slot[k].owner = h /\ slot[k].kind = "stream"
  BY <1>1, HandlerFacts
<1>3. sess \in [Sessions -> SessRec] /\ sess[h].life = "live"
  BY <1>1, <1>2, BusyIsLive DEF TypeOK
<1>4. CASE Clear(h) /\ Notify(k, h, "error", "nothing")
  BY <1>1, <1>4, GivesUp
<1>5. CASE /\ \E s \in SubStates :
                sess' = [sess EXCEPT ![h].late = FALSE, ![h].sub = s]
           /\ slot' = [slot EXCEPT ![k].ready = "no"]
           /\ \/ Continue(k)
              \/ Notify(k, h, "progress", IF h \in Senders THEN "goOn" ELSE "nothing")
              \/ Notify(k, h, "complete", "clear")
  <2>1. PICK s \in SubStates : sess' = [sess EXCEPT ![h].late = FALSE, ![h].sub = s]
    BY <1>5
  <2>2. /\ sess' \in [Sessions -> SessRec]
        /\ \A g \in Sessions : g # h => sess'[g] = sess[g]
        /\ sess'[h].st = sess[h].st /\ sess'[h].life = sess[h].life
        /\ sess'[h].listen = sess[h].listen /\ sess'[h].conn = sess[h].conn
        /\ sess'[h].fds = sess[h].fds /\ sess'[h].left = sess[h].left
    BY <1>3, <2>1, Heard
  <2>3. Changes(h) /\ DescInv'
    <3>1. sess'[h].st \in Transferring
      BY <1>1, <2>2 DEF Transferring
    <3>2. slot' = [slot EXCEPT ![k].ready = "no"]
      BY <1>5
    <3> QED
      BY <1>2, <2>2, <3>1, <3>2, Refreshed
  <2>4. CASE Continue(k)
    BY <1>1, <2>2, <2>3, <2>4, HandlerGoes
  <2>5. ASSUME NEW after \in {"goOn", "nothing"}, Notify(k, h, "progress", after)
        PROVE  IInv'
    <3>1. Fits(h, "progress", after, "walk")'
      BY <1>1, <1>3, <2>2, <2>5 DEF Fits
    <3> QED
      BY <1>1, <2>2, <2>3, <2>5, <3>1, HandlerTells DEF EventNames
  <2>6. CASE Notify(k, h, "complete", "clear")
    <3>1. Fits(h, "complete", "clear", "walk")'
      BY <1>1, <1>3, <2>2 DEF Fits
    <3> QED
      BY <1>1, <2>2, <2>3, <2>6, <3>1, HandlerTells DEF EventNames
  <2>7. (IF h \in Senders THEN "goOn" ELSE "nothing") \in {"goOn", "nothing"}
    OBVIOUS
  <2> QED
    BY <1>5, <2>4, <2>5, <2>6, <2>7
<1> QED
  BY <1>4, <1>5 DEF OnTransfer

(* The addresses that are tried are finite in number. *)
LEMMA TriedFinite ==
  ASSUME NEW h \in Sessions
  PROVE  /\ IsFiniteSet(Tried(h)) /\ Cardinality(Tried(h)) \in Nat
         /\ Cardinality(Tried(h)) = 0 <=> Tried(h) = {}
<1>1. MaxIp \in Nat
  BY ConstantsAssumption DEF ConstantsAssumption
<1>2. IsFiniteSet(1 .. MaxIp)
  BY <1>1, FS_Interval
<1>3. Tried(h) \subseteq 1 .. MaxIp
  BY DEF Tried
<1> QED
  BY <1>2, <1>3, FS_Subset, FS_CardinalityType, FS_EmptySet

(* liEvClose: an attempt was refused, or the connection is gone.            *)
LEMMA StepOnClose ==
  ASSUME IInv, NEW k \in Slots, NEW h \in Sessions, OnClose(k, h)
  PROVE  IInv'
<1> DEFINE s == [sess[h] EXCEPT !.conn = NoFd]
<1>1. PICK kind \in {"connecting", "stream"}, ready \in {"refused", "eof"} :
        Handles(k, h, kind, ready)
  BY DEF OnClose
<1>2. TypeOK /\ DescInv /\ SessOK(h) /\ slot[k].owner = h /\ slot[k].kind = kind
      /\ (sess[h].st = "CONNECTING" => sess[h].left = Cardinality(Tried(h)))
  BY <1>1, HandlerFacts
<1>3. sess \in [Sessions -> SessRec] /\ slot \in [Slots -> SlotRec] /\ sess[h] \in SessRec
  BY <1>2 DEF TypeOK
<1>4. /\ s \in SessRec /\ s.st = sess[h].st /\ s.left = sess[h].left /\ s.cnt = sess[h].cnt
      /\ s.fds = sess[h].fds /\ s.conn = NoFd /\ s.listen = sess[h].listen
      /\ s.life = sess[h].life
  BY <1>3 DEF SessRec
<1>5. slot' = Closed({k})
  BY DEF OnClose
<1>6. /\ slot' \in [Slots -> SlotRec] /\ slot'[k] = EmptySlot
      /\ \A j \in Slots : j # k => slot'[j] = slot[j]
  BY <1>3, <1>5, NewIsSession DEF Closed
<1>7. CASE sess[h].st = "CONNECTING"
  <2> DEFINE g0 == [i \in 1 .. MaxIp |->
                      IF i <= sess[h].cnt /\ sess[h].fds[i] = k THEN NoFd ELSE sess[h].fds[i]]
  <2>1. /\ s.left > 0
        /\ sess' = [sess EXCEPT ![h] = [s EXCEPT !.left = s.left - 1,
                           !.fds = [i \in 1 .. MaxIp |->
                              IF i <= s.cnt /\ s.fds[i] = k THEN NoFd ELSE s.fds[i]]]]
        /\ IF s.left = 1 THEN Notify(k, h, "failed", "setNone") ELSE Continue(k)
    BY <1>4, <1>7 DEF OnClose
  <2>2. [i \in 1 .. MaxIp |-> IF i <= s.cnt /\ s.fds[i] = k THEN NoFd ELSE s.fds[i]] = g0
    BY <1>4
  <2> HIDE DEF s
  <2>3. sess' = [sess EXCEPT ![h] = [s EXCEPT !.left = s.left - 1, !.fds = g0]]
    BY <2>1, <2>2
  <2>4. /\ \A i \in 1 .. MaxIp : sess[h].fds[i] \in Slots \cup {NoFd}
        /\ k # NoFd /\ sess[h].left \in 0 .. MaxIp /\ MaxIp \in Nat
    BY <1>2, Fields, NoFdIsNoSlot, ConstantsAssumption DEF ConstantsAssumption
  <2>5. \A i \in 1 .. MaxIp : sess[h].fds[i] # NoFd => i <= sess[h].cnt
    BY <1>2 DEF SessOK
  <2>6. \A i \in 1 .. MaxIp : g0[i] = IF sess[h].fds[i] = k THEN NoFd ELSE sess[h].fds[i]
    BY <2>4, <2>5
  <2>7. g0 \in [1 .. MaxIp -> Slots \cup {NoFd}]
    BY <2>4
  <2> HIDE DEF g0
  <2>8. /\ sess' \in [Sessions -> SessRec]
        /\ \A g \in Sessions : g # h => sess'[g] = sess[g]
    <3>1. s.left - 1 \in 0 .. MaxIp
      BY <1>4, <2>1, <2>4
    <3>2. sess'[h] \in SessRec
      BY <1>3, <1>4, <2>3, <2>7, <3>1, ZenonT(60) DEF SessRec
    <3> QED
      BY <1>3, <2>3, <3>2
  <2>9. /\ sess'[h].st = "CONNECTING" /\ sess'[h].conn = NoFd /\ sess'[h].fds = g0
        /\ sess'[h].left = sess[h].left - 1 /\ sess'[h].listen = sess[h].listen
        /\ sess'[h].cnt = sess[h].cnt /\ sess'[h].life = sess[h].life
    BY <1>3, <1>4, <1>7, <2>3 DEF SessRec
  <2>10. Changes(h)
    BY <1>2, <1>6, <2>8 DEF Changes, EmptySlot
  <2>11. sess[h].listen = NoFd /\ sess[h].life = "live"
    BY <1>2, <1>7 DEF SessOK
  <2>12. SessOK(h)'
    <3>1. ASSUME NEW i \in 1 .. MaxIp, g0[i] # NoFd
          PROVE  /\ i <= sess[h].cnt
                 /\ slot'[g0[i]].owner = h /\ slot'[g0[i]].kind = "connecting"
      <4>1. g0[i] = sess[h].fds[i] /\ g0[i] # k /\ g0[i] \in Slots
        BY <2>4, <2>6, <3>1
      <4>2. Holds(h, g0[i], "connecting") /\ i <= sess[h].cnt
        BY <1>2, <3>1, <4>1 DEF SessOK
      <4> QED
        BY <1>6, <4>1, <4>2 DEF Holds
    <3>2. \A i, j \in 1 .. MaxIp : g0[i] # NoFd /\ g0[i] = g0[j] => i = j
      BY <1>2, <2>6 DEF SessOK
    <3> QED
      BY <2>9, <2>11, <3>1, <3>2 DEF SessOK, Holds
  <2>13. ASSUME NEW j \in Slots, slot'[j].kind # "free", slot'[j].owner = h
         PROVE  SlotOK(j)'
    <3>1. j # k /\ slot'[j] = slot[j]
      BY <1>6, <2>13 DEF EmptySlot
    <3>2. SlotOK(j) /\ slot[j].kind = "connecting"
          /\ \E i \in 1 .. MaxIp : sess[h].fds[i] = j
      BY <1>2, <1>7, <2>13, <3>1, OwnSlots DEF DescInv, Transferring
    <3>3. \E i \in 1 .. MaxIp : g0[i] = j
      BY <2>6, <3>1, <3>2
    <3> QED
      BY <2>9, <2>13, <3>1, <3>2, <3>3 DEF SlotOK
  <2>14. DescInv'
    BY <1>2, <2>10, <2>12, <2>13, OnlyHere
  <2>15. sess'[h].left = Cardinality(Tried(h))'
    <3>1. PICK i0 \in 1 .. MaxIp : sess[h].fds[i0] = k
      BY <1>2, <1>7, OwnSlots DEF Transferring
    <3>2. Tried(h)' = Tried(h) \ {i0} /\ i0 \in Tried(h)
      BY <1>2, <2>4, <2>6, <2>9, <3>1 DEF Tried, SessOK
    <3>3. Cardinality(Tried(h) \ {i0}) = Cardinality(Tried(h)) - 1
      BY <3>2, TriedFinite, FS_RemoveElement
    <3> QED
      BY <1>2, <1>7, <2>9, <3>2, <3>3
  <2>16. CASE s.left # 1
    <3>1. Continue(k)
      BY <2>1, <2>16
    <3> QED
      BY <1>1, <1>7, <2>9, <2>10, <2>14, <2>15, <3>1, HandlerGoes
  <2>17. CASE s.left = 1
    <3>1. Notify(k, h, "failed", "setNone")
      BY <2>1, <2>17
    <3>2. sess'[h].left = 0
      BY <1>4, <2>9, <2>17
    <3>3. \A i \in 1 .. MaxIp : g0[i] = NoFd
      <4>1. Tried(h) = Tried(h) \cap 1 .. MaxIp /\ Cardinality(Tried(h)) = 1
        BY <1>2, <1>4, <1>7, <2>17 DEF Tried
      <4>2. PICK i0 \in 1 .. MaxIp : sess[h].fds[i0] = k
        BY <1>2, <1>7, OwnSlots DEF Transferring
      <4>3. i0 \in Tried(h)
        BY <2>4, <4>2 DEF Tried
      <4>4. Cardinality(Tried(h) \ {i0}) = 0 /\ IsFiniteSet(Tried(h) \ {i0})
        BY <4>1, <4>3, TriedFinite, FS_RemoveElement, FS_Subset
      <4>5. Tried(h) \ {i0} = {}
        BY <4>4, FS_EmptySet
      <4> QED
        BY <2>6, <4>2, <4>5 DEF Tried
    <3>4. Recorded(h)' = {}
      BY <2>9, <2>11, <3>3 DEF Recorded
    <3>5. Fits(h, "failed", "setNone", "walk")'
      BY <2>9, <2>11, <3>2, <3>4 DEF Fits
    <3> QED
      BY <1>1, <1>7, <2>9, <2>10, <2>14, <2>15, <3>1, <3>5, HandlerTells DEF EventNames
  <2> QED
    BY <2>16, <2>17
<1>8. CASE sess[h].st # "CONNECTING"
  <2>1. /\ sess' = [sess EXCEPT ![h] = s] /\ Notify(k, h, "closed", "setNone")
    BY <1>4, <1>8 DEF OnClose
  <2> HIDE DEF s
  <2>2. /\ sess' \in [Sessions -> SessRec] /\ sess'[h] = s
        /\ \A g \in Sessions : g # h => sess'[g] = sess[g]
    BY <1>3, <1>4, <2>1
  <2>3. sess[h].st \in Transferring /\ sess[h].conn = k /\ sess[h].st \notin {"NONE", "LISTEN"}
    BY <1>1, <1>2, <1>8, OwnSlots DEF Transferring
  <2>4. /\ sess[h].listen = NoFd /\ \A i \in 1 .. MaxIp : sess[h].fds[i] = NoFd
        /\ sess[h].left = 0 /\ sess[h].life = "live"
    BY <1>2, <1>8, <2>3 DEF SessOK
  <2>5. Changes(h)
    BY <1>2, <1>6, <2>2 DEF Changes, EmptySlot
  <2>6. SessOK(h)'
    BY <1>4, <2>2, <2>3, <2>4 DEF SessOK
  <2>7. ASSUME NEW j \in Slots, slot'[j].kind # "free", slot'[j].owner = h
        PROVE  SlotOK(j)'
    <3>1. j # k /\ slot'[j] = slot[j]
      BY <1>6, <2>7 DEF EmptySlot
    <3> QED
      BY <1>2, <1>8, <2>3, <2>7, <3>1, OwnSlots
  <2>8. DescInv'
    BY <1>2, <2>5, <2>6, <2>7, OnlyHere
  <2>9. Recorded(h)' = {}
    BY <1>4, <2>2, <2>4 DEF Recorded
  <2>10. Fits(h, "closed", "setNone", "walk")'
    BY <1>4, <2>2, <2>3, <2>4, <2>9 DEF Fits
  <2> QED
    BY <1>1, <1>4, <1>8, <2>1, <2>2, <2>3, <2>5, <2>8, <2>10, HandlerTells DEF EventNames
<1> QED
  BY <1>7, <1>8

-----------------------------------------------------------------------------
(* The rest of the worker thread. *)

(* A step that touches neither the table nor a session. *)
LEMMA Untouched ==
  ASSUME TypeOK, DescInv, NEW h \in Sessions, UNCHANGED <<sess, slot>>
  PROVE  Changes(h) /\ DescInv'
<1>1. Changes(h)
  BY DEF Changes, TypeOK
<1>2. SessOK(h)'
  BY DEF DescInv, SessOK, Holds
<1>3. \A k \in Slots : SlotOK(k)'
  BY DEF DescInv, SlotOK
<1> QED
  BY <1>1, <1>2, <1>3, OnlyHere

(* The worker moves, and nothing else does. *)
LEMMA WorkerOnly ==
  ASSUME IInv, UNCHANGED <<WorkerVars, sess, slot, events>>,
         worker.pc \in {"idle", "walk", "check", "timeouts"},
         worker' \in WorkerRec, lock' \in {"free", "worker"} \cup Apps,
         worker'.pc \in {"idle", "walk", "check", "timeouts", "ended"},
         LockInv',
         \A g \in worker'.due : /\ worker'.pc = "timeouts" /\ sess[g].life = "live"
                                /\ sess[g].st \in Transferring
  PROVE  IInv'
<1>0. /\ TypeOK /\ LockInv /\ QuietInv /\ TellInv /\ DueInv /\ DescInv
      /\ \A a \in Apps : CallOK(a)
      /\ \A g \in Sessions : LeftOK(g) /\ HistoryOK(g)
  BY DEF IInv
<1>1. /\ call' = call /\ inited' = inited /\ thrdFlag' = thrdFlag
      /\ sess' = sess /\ slot' = slot /\ events' = events
      /\ ~Telling /\ ~Telling'
  BY DEF WorkerVars, Telling
<1>2. TypeOK'
  BY <1>0, <1>1 DEF TypeOK
<1>3. QuietInv'
  BY <1>0, <1>1 DEF QuietInv
<1>4. TellInv'
  BY <1>1 DEF TellInv
<1>5. DueInv'
  BY <1>1 DEF DueInv, InTimeouts
<1>6. DescInv'
  BY <1>0, <1>1 DEF DescInv, SessOK, SlotOK, Holds
<1>7. \A a \in Apps : CallOK(a)'
  BY <1>0, <1>1 DEF CallOK
<1>8. \A g \in Sessions : LeftOK(g)'
  BY <1>0, <1>1 DEF LeftOK, Tried
<1>9. \A g \in Sessions : HistoryOK(g)'
  BY <1>0, <1>1 DEF HistoryOK, Ending
<1> QED
  BY <1>2, <1>3, <1>4, <1>5, <1>6, <1>7, <1>8, <1>9 DEF IInv

(* selixSelect begins and ends, and so does CheckTimeout_. *)
LEMMA StepSelect ==
  ASSUME IInv, Select \/ WalkEnd \/ CheckTimeoutBegin \/ CheckTimeoutEnd
  PROVE  IInv'
<1>0. TypeOK /\ LockInv /\ DueInv /\ worker \in WorkerRec
  BY DEF IInv, TypeOK
<1>1. CASE Select
  <2>1. /\ UNCHANGED <<WorkerVars, sess, slot, events>> /\ lock' = lock
        /\ worker.pc = "idle" /\ worker' \in WorkerRec
        /\ worker'.pc \in {"walk", "ended"} /\ worker'.due = worker.due
    <3>1. UNCHANGED <<WorkerVars, sess, slot, events>> /\ lock' = lock /\ worker.pc = "idle"
      BY <1>1 DEF Select
    <3>2. CASE thrdFlag
      <4>1. worker' = [worker EXCEPT !.pc = "walk",
                         !.todo = {k \in Slots : slot[k].ready # "no"}]
        BY <1>1, <3>2 DEF Select
      <4> QED
        BY <1>0, <3>1, <4>1 DEF WorkerRec
    <3>3. CASE ~thrdFlag
      <4>1. worker' = [worker EXCEPT !.pc = "ended"]
        BY <1>1, <3>3 DEF Select
      <4> QED
        BY <1>0, <3>1, <4>1 DEF WorkerRec
    <3> QED
      BY <3>2, <3>3
  <2>2. worker.due = {}
    BY <1>0, <2>1 DEF DueInv, InTimeouts, Telling
  <2>3. LockInv' /\ lock' \in {"free", "worker"} \cup Apps
    BY <1>0, <2>1 DEF LockInv, WorkerVars, TypeOK
  <2> QED
    BY <2>1, <2>2, <2>3, WorkerOnly
<1>2. CASE WalkEnd
  <2>1. /\ UNCHANGED <<WorkerVars, sess, slot, events>> /\ lock' = lock
        /\ worker.pc = "walk" /\ worker' \in WorkerRec
        /\ worker'.pc = "check" /\ worker'.due = worker.due
    BY <1>0, <1>2 DEF WalkEnd, WorkerRec
  <2>2. worker.due = {}
    BY <1>0, <2>1 DEF DueInv, InTimeouts, Telling
  <2>3. LockInv' /\ lock' \in {"free", "worker"} \cup Apps
    BY <1>0, <2>1 DEF LockInv, WorkerVars, TypeOK
  <2> QED
    BY <2>1, <2>2, <2>3, WorkerOnly
<1>3. CASE CheckTimeoutBegin
  <2>1. /\ UNCHANGED <<WorkerVars, sess, slot, events>> /\ lock' = "worker"
        /\ worker.pc = "check" /\ worker' \in WorkerRec /\ lock = "free"
        /\ worker'.pc = "timeouts"
        /\ \A g \in worker'.due : sess[g].life = "live" /\ sess[g].st \in Transferring
    BY <1>0, <1>3 DEF CheckTimeoutBegin, WorkerRec, Transferring
  <2>2. LockInv'
    <3>1. \A a \in Apps : lock' # a /\ lock # a
      BY <2>1, ConstantsAssumption DEF ConstantsAssumption
    <3> QED
      BY <1>0, <2>1, <3>1 DEF LockInv, WorkerVars
  <2> QED
    BY <2>1, <2>2, WorkerOnly
<1>4. CASE CheckTimeoutEnd
  <2>1. /\ UNCHANGED <<WorkerVars, sess, slot, events>> /\ lock' = "free"
        /\ worker.pc = "timeouts" /\ worker' \in WorkerRec
        /\ worker'.pc = "idle" /\ worker'.due = {}
    BY <1>0, <1>4 DEF CheckTimeoutEnd, WorkerRec
  <2>2. LockInv'
    <3>1. \A a \in Apps : lock' # a /\ lock # a
      BY <1>0, <2>1, ConstantsAssumption DEF ConstantsAssumption, LockInv
    <3> QED
      BY <1>0, <2>1, <3>1 DEF LockInv, WorkerVars
  <2> QED
    BY <2>1, <2>2, WorkerOnly
<1> QED
  BY <1>1, <1>2, <1>3, <1>4

(* CheckTimeout_ tells a session that it has timed out. *)
LEMMA StepCheckTimeout ==
  ASSUME IInv, NEW h \in Sessions, CheckTimeout(h)
  PROVE  IInv'
<1>0. TypeOK /\ LockInv /\ DueInv /\ DescInv
  BY DEF IInv
<1>1. /\ worker.pc = "timeouts" /\ h \in worker.due /\ UNCHANGED <<sess, slot>>
      /\ Tell(h, "closed", "clear", {}, "timeouts")
  BY DEF CheckTimeout
<1>2. lock = "worker" /\ ~Telling /\ ~Ending(h)
  BY <1>0, <1>1 DEF LockInv, Telling, Ending
<1>3. sess[h].life = "live" /\ sess[h].st \in Transferring
  BY <1>0, <1>1 DEF DueInv
<1>4. sess'[h].st \notin {"NONE", "CONNECTING"} /\ sess'[h].life = "live" /\ sess' = sess
  BY <1>1, <1>3 DEF Transferring
<1>5. Changes(h) /\ DescInv'
  BY <1>0, <1>1, Untouched
<1>6. Fits(h, "closed", "clear", "timeouts")'
  BY <1>4 DEF Fits
<1>7. {} \in SUBSET Slots /\ "closed" \in EventNames
  BY DEF EventNames
<1> QED
  BY <1>1, <1>2, <1>4, <1>5, <1>6, <1>7, Tells

(* What is true of a session the worker tells of. *)
LEMMA TellingFacts ==
  ASSUME IInv, Telling
  PROVE  /\ worker.who \in Sessions /\ lock = "worker" /\ worker \in WorkerRec
         /\ Fits(worker.who, worker.event, worker.after, worker.back)
         /\ worker.due # {} => worker.back = "timeouts"
         /\ TypeOK /\ DescInv
<1>1. TypeOK /\ LockInv /\ DueInv /\ DescInv /\ TellInv
  BY DEF IInv
<1>2. worker.pc # "timeouts" /\ lock = "worker"
  BY <1>1 DEF Telling, LockInv
<1> QED
  BY <1>1, <1>2 DEF TellInv, DueInv, InTimeouts, TypeOK

(* The application's callback. *)
LEMMA StepCallback ==
  ASSUME IInv, Disciplined, Callback
  PROVE  IInv'
<1> DEFINE h == worker.who
<1>0. /\ TypeOK /\ LockInv /\ QuietInv /\ TellInv /\ DueInv /\ DescInv
      /\ \A a \in Apps : CallOK(a)
      /\ \A g \in Sessions : LeftOK(g) /\ HistoryOK(g)
  BY DEF IInv
<1>1. worker.pc = "callback" /\ Telling
  BY DEF Callback, Telling
<1>2. h \in Sessions /\ lock = "worker" /\ worker \in WorkerRec
      /\ Fits(h, worker.event, worker.after, worker.back)
  BY <1>1, TellingFacts
<1>3. /\ lock' = lock /\ call' = call /\ inited' = inited /\ thrdFlag' = thrdFlag
      /\ worker' \in WorkerRec /\ worker'.pc = "return" /\ worker'.who = worker.who
      /\ worker'.due = worker.due /\ worker'.event = worker.event
      /\ worker'.after = worker.after /\ worker'.back = worker.back
  BY <1>2 DEF Callback, WorkerRec, WorkerVars
<1>4. /\ events' = events
      /\ UNCHANGED <<sess, slot>> \/ (worker.event \in CbDestroys /\ Delete(h))
  <2>1. CASE worker.event \in CbListens /\ sess[h].st = "NONE"
    BY <1>2, <2>1 DEF Disciplined, Fits
  <2> QED
    BY <2>1 DEF Callback
<1>5. /\ Changes(h) /\ DescInv' /\ (sess[h].st = "NONE" => sess'[h].st = "NONE")
      /\ Fits(h, worker.event, worker.after, worker.back)'
      /\ \/ sess'[h] = sess[h]
         \/ sess'[h].st = "NONE" /\ worker.after = "nothing"
  <2>1. CASE UNCHANGED <<sess, slot>>
    <3>1. Changes(h) /\ DescInv'
      BY <1>0, <1>2, <2>1, Untouched
    <3>2. Fits(h, worker.event, worker.after, worker.back)'
      BY <1>2, <1>3, <2>1 DEF Fits, Recorded
    <3> QED
      BY <2>1, <3>1, <3>2
  <2>2. CASE worker.event \in CbDestroys /\ Delete(h)
    <3>1. worker.event \in {"limit", "error"} /\ worker.after = "nothing"
      BY <1>2, <2>2 DEF Disciplined, Fits
    <3>2. Changes(h) /\ DescInv' /\ sess'[h].st = "NONE"
      BY <1>0, <1>2, <2>2, Cleared DEF Delete
    <3>3. Fits(h, worker.event, worker.after, worker.back)'
      BY <1>3, <3>1, <3>2 DEF Fits
    <3> QED
      BY <3>1, <3>2, <3>3
  <2> QED
    BY <1>4, <2>1, <2>2
<1>6. /\ sess' \in [Sessions -> SessRec] /\ slot' \in [Slots -> SlotRec]
      /\ \A g \in Sessions : g # h => sess'[g] = sess[g]
  BY <1>5 DEF Changes
<1> HIDE DEF h
<1>7. TypeOK'
  BY <1>0, <1>3, <1>4, <1>6 DEF TypeOK
<1>8. LockInv'
  BY <1>0, <1>1, <1>3 DEF LockInv
<1>9. QuietInv'
  BY <1>0, <1>1, <1>3 DEF QuietInv
<1>10. TellInv'
  BY <1>2, <1>3, <1>5 DEF TellInv, h
<1>11. DueInv'
  <2> SUFFICES ASSUME NEW g \in worker'.due
               PROVE  /\ InTimeouts'
                      /\ sess'[g].life = "live" /\ sess'[g].st \in Transferring
                      /\ g # worker'.who
    BY DEF DueInv
  <2>1. g \in worker.due /\ g \in Sessions
    BY <1>2, <1>3 DEF WorkerRec
  <2>2. InTimeouts /\ sess[g].life = "live" /\ sess[g].st \in Transferring /\ g # h
    BY <1>0, <1>1, <2>1 DEF DueInv, h
  <2> QED
    BY <1>1, <1>3, <1>6, <2>1, <2>2 DEF InTimeouts, Telling, h
<1>12. \A a \in Apps : CallOK(a)'
  BY <1>0, <1>2, <1>3, <1>5, <1>6, CallsWait
<1>13. ASSUME NEW g \in Sessions PROVE LeftOK(g)'
  <2>1. CASE sess'[g] = sess[g]
    BY <1>0, <1>3, <2>1 DEF LeftOK, Tried
  <2>2. CASE sess'[g].st = "NONE"
    BY <2>2 DEF LeftOK
  <2> QED
    BY <1>5, <1>6, <2>1, <2>2
<1>14. ASSUME NEW g \in Sessions PROVE HistoryOK(g)'
  <2>0. Ending(g)' <=> Ending(g)
    BY <1>1, <1>3 DEF Ending, Telling
  <2>1. CASE sess'[g] = sess[g]
    BY <1>0, <1>4, <2>0, <2>1 DEF HistoryOK
  <2>2. CASE sess'[g].st = "NONE"
    BY <1>0, <1>4, <2>2 DEF HistoryOK
  <2> QED
    BY <1>5, <1>6, <2>1, <2>2
<1> QED
  BY <1>5, <1>7, <1>8, <1>9, <1>10, <1>11, <1>12, <1>13, <1>14 DEF IInv

(* The worker resumes what it was doing when it told the application.       *)
LEMMA ResumedGoes ==
  ASSUME IInv, NEW h \in Sessions, worker.who = h, worker.pc = "return", Resumed,
         Changes(h), DescInv', sess[h].st = "NONE" => sess'[h].st = "NONE",
         \/ sess'[h].st = "NONE"
         \/ ~Ending(h) /\ sess'[h].st = "ESTABLISHED" /\ sess[h].st = "ESTABLISHED"
  PROVE  IInv'
<1>1. Telling
  BY DEF Telling
<1>2. /\ lock = "worker" /\ worker \in WorkerRec
      /\ worker.due # {} => worker.back = "timeouts"
  BY <1>1, TellingFacts
<1>3. /\ worker' \in WorkerRec /\ worker'.pc = worker.back /\ worker'.due = worker.due
      /\ lock' = (IF worker.back = "walk" THEN "free" ELSE "worker")
      /\ UNCHANGED <<WorkerVars, events>>
  BY <1>2 DEF Resumed, WorkerRec
<1>4. worker.back \in {"walk", "timeouts"}
  BY <1>2 DEF WorkerRec
<1>5. /\ worker'.pc \in {"walk", "timeouts"} /\ lock' \in {"free", "worker"}
      /\ worker'.pc = "timeouts" <=> lock' = "worker"
      /\ worker.due # {} => worker'.pc = "timeouts"
  BY <1>2, <1>3, <1>4
<1>6. sess'[h].st # "CONNECTING"
  OBVIOUS
<1> QED
  BY <1>2, <1>3, <1>5, <1>6, Goes

(* The callback has returned: the state is set, or the session is           *)
(* cleared, or nothing is left to do.                                       *)
LEMMA StepReturnFromCallback ==
  ASSUME IInv, ReturnFromCallback
  PROVE  IInv'
<1>0. PICK h \in Sessions : h = worker.who
  BY TellingFacts DEF ReturnFromCallback, Telling
<1>1. /\ worker.pc = "return" /\ Telling /\ worker.after # "goOn" /\ Resumed
      /\ CASE worker.after = "nothing" -> UNCHANGED <<sess, slot>>
           [] worker.after = "setNone" -> /\ sess' = [sess EXCEPT ![h].st = "NONE"]
                                          /\ slot' = slot
           [] worker.after = "clear"   -> Clear(h)
  BY <1>0 DEF ReturnFromCallback, Telling
<1>2. /\ worker \in WorkerRec
      /\ Fits(h, worker.event, worker.after, worker.back)
      /\ TypeOK /\ DescInv
  BY <1>0, <1>1, TellingFacts
<1>3. worker.after \in {"nothing", "setNone", "clear"}
  BY <1>1, <1>2 DEF WorkerRec
<1>4. CASE worker.after = "nothing"
  <2>1. sess' = sess /\ slot' = slot
    BY <1>1, <1>4
  <2>2. Changes(h) /\ DescInv'
    BY <1>2, <2>1, Untouched
  <2>3. ~Ending(h)
    BY <1>4 DEF Ending
  <2>4. sess[h].st \in {"NONE", "ESTABLISHED"}
    BY <1>2, <1>4 DEF Fits
  <2> QED
    BY <1>1, <2>1, <2>2, <2>3, <2>4, <1>0, ResumedGoes
<1>5. CASE worker.after = "setNone"
  <2>1. sess' = [sess EXCEPT ![h].st = "NONE"] /\ slot' = slot
    BY <1>1, <1>5
  <2>2. sess \in [Sessions -> SessRec] /\ slot \in [Slots -> SlotRec]
    BY <1>2 DEF TypeOK
  <2>3. /\ sess' \in [Sessions -> SessRec]
        /\ \A g \in Sessions : g # h => sess'[g] = sess[g]
    <3>1. sess'[h] \in SessRec
      BY <1>2, <2>1, <2>2, ZenonT(60) DEF SessRec, States
    <3> QED
      BY <1>2, <2>1, <2>2, <3>1
  <2>4. /\ sess'[h].st = "NONE" /\ sess'[h].listen = sess[h].listen
        /\ sess'[h].conn = sess[h].conn /\ sess'[h].fds = sess[h].fds
        /\ sess'[h].left = sess[h].left
    BY <1>2, <2>1, <2>2 DEF SessRec
  <2>5. Changes(h)
    BY <2>1, <2>2, <2>3 DEF Changes
  <2>6. Recorded(h) = {} /\ sess[h].left = 0
    BY <1>2, <1>5 DEF Fits
  <2>7. SessOK(h)'
    <3>1. /\ sess[h].listen = NoFd /\ sess[h].conn = NoFd
          /\ \A i \in 1 .. MaxIp : sess[h].fds[i] = NoFd
      BY <2>6 DEF Recorded
    <3> QED
      BY <2>4, <2>6, <3>1 DEF SessOK
  <2>8. \A j \in Slots : slot'[j].kind # "free" => slot'[j].owner # h
    BY <1>2, <2>1, <2>6, RecordedIsOwned
  <2>9. DescInv'
    BY <1>2, <2>5, <2>7, <2>8, OnlyHere
  <2> QED
    BY <1>1, <2>4, <2>5, <2>9, <1>0, ResumedGoes
<1>6. CASE worker.after = "clear"
  <2>1. Clear(h)
    BY <1>1, <1>6
  <2>2. sess' = [sess EXCEPT ![h] = [NewSession EXCEPT !.life = "live"]]
    BY <2>1 DEF Clear, NewSession
  <2>3. Changes(h) /\ DescInv' /\ sess'[h].st = "NONE"
    BY <1>2, <2>1, <2>2, Cleared DEF Clear
  <2> QED
    BY <1>1, <2>3, <1>0, ResumedGoes
<1> QED
  BY <1>3, <1>4, <1>5, <1>6

(* OnSocketEvent_ goes on with the bytes it has. *)
LEMMA StepGoOn ==
  ASSUME IInv, GoOn
  PROVE  IInv'
<1>0. PICK h \in Sessions : h = worker.who
  BY TellingFacts DEF GoOn, Telling
<1>1. worker.pc = "return" /\ Telling /\ worker.after = "goOn" /\ sess[h].life = "live"
  BY <1>0 DEF GoOn, Telling
<1>2. /\ worker \in WorkerRec /\ lock = "worker" /\ TypeOK /\ DescInv
      /\ Fits(h, worker.event, worker.after, worker.back)
      /\ worker.due # {} => worker.back = "timeouts"
  BY <1>0, <1>1, TellingFacts
<1>3. sess[h].st = "ESTABLISHED" /\ worker.back = "walk" /\ worker.due = {} /\ ~Ending(h)
  BY <1>1, <1>2 DEF Fits, Ending
<1>4. CASE /\ \E s \in SubStates : sess' = [sess EXCEPT ![h].sub = s]
           /\ slot' = slot /\ Resumed
  <2>1. Changes(h) /\ DescInv' /\ sess'[h].st = sess[h].st
    BY <1>2, <1>4, SubMoves
  <2> QED
    BY <1>1, <1>3, <1>4, <2>1, <1>0, ResumedGoes
<1>5. ASSUME NEW e \in {"error", "progress", "complete"},
             NEW after \in {"nothing", "goOn", "clear"}, NEW todo \in SUBSET Slots,
             Tell(h, e, after, todo, "walk"), Changes(h), DescInv',
             sess'[h].st # "CONNECTING", Fits(h, e, after, "walk")',
             \/ after = "clear"
             \/ sess'[h].st = "NONE"
             \/ sess'[h].st = "ESTABLISHED" /\ e = "progress"
      PROVE  IInv'
  <2>1. e \in EventNames
    BY DEF EventNames
  <2> QED
    BY <1>0, <1>1, <1>2, <1>3, <1>5, <2>1, Tells
<1>6. CASE /\ Clear(h)
           /\ Tell(h, "error", "nothing", {j \in worker.todo : slot'[j] = slot[j]}, "walk")
  <2>1. sess' = [sess EXCEPT ![h] = [NewSession EXCEPT !.life = "live"]]
    BY <1>6 DEF Clear, NewSession
  <2>2. Changes(h) /\ DescInv' /\ sess'[h].st = "NONE"
    BY <1>2, <1>6, <2>1, Cleared DEF Clear
  <2>3. Fits(h, "error", "nothing", "walk")'
    BY <2>2 DEF Fits
  <2>4. {j \in worker.todo : slot'[j] = slot[j]} \in SUBSET Slots
    BY <1>2 DEF WorkerRec
  <2> QED
    BY <1>5, <1>6, <2>2, <2>3, <2>4
<1>7. CASE /\ UNCHANGED <<sess, slot>>
           /\ \/ Tell(h, "progress", IF h \in Senders THEN "goOn" ELSE "nothing",
                      worker.todo, "walk")
              \/ Tell(h, "complete", "clear", worker.todo, "walk")
  <2>1. Changes(h) /\ DescInv' /\ sess' = sess
    BY <1>2, <1>7, Untouched
  <2>2. worker.todo \in SUBSET Slots
    BY <1>2 DEF WorkerRec
  <2>3. ASSUME NEW after \in {"goOn", "nothing"},
               Tell(h, "progress", after, worker.todo, "walk")
        PROVE  IInv'
    <3>1. Fits(h, "progress", after, "walk")'
      BY <1>1, <1>3, <2>1, <2>3 DEF Fits
    <3> QED
      BY <1>3, <1>5, <2>1, <2>2, <2>3, <3>1
  <2>4. CASE Tell(h, "complete", "clear", worker.todo, "walk")
    <3>1. Fits(h, "complete", "clear", "walk")'
      BY <1>1, <1>3, <2>1 DEF Fits
    <3> QED
      BY <1>3, <1>5, <2>1, <2>2, <2>4, <3>1
  <2>5. (IF h \in Senders THEN "goOn" ELSE "nothing") \in {"goOn", "nothing"}
    OBVIOUS
  <2> QED
    BY <1>7, <2>3, <2>4, <2>5
<1> QED
  BY <1>0, <1>1, <1>3, <1>4, <1>6, <1>7 DEF GoOn

-----------------------------------------------------------------------------
(* The application's calls. *)

(* What an application thread in a call knows. *)
LEMMA CallFacts ==
  ASSUME IInv, NEW a \in Apps
  PROVE  /\ TypeOK /\ DescInv /\ LockInv /\ CallOK(a)
         /\ sess \in [Sessions -> SessRec] /\ slot \in [Slots -> SlotRec]
         /\ call \in [Apps -> CallRec] /\ call[a] \in CallRec
         /\ call[a].pc = "locked" => lock = a
         /\ lock = "free" => call[a].pc = "tested"
         /\ call[a].op # "none" => inited
         /\ \A h \in Sessions : sess[h].life = "live" => inited
         /\ events \in [Sessions -> Seq(EventNames)]
         /\ a # "free" /\ a # "worker"
<1>1. TypeOK /\ DescInv /\ LockInv /\ QuietInv /\ CallOK(a)
  BY DEF IInv
<1>2. call \in [Apps -> CallRec] /\ call[a] \in CallRec
  BY <1>1 DEF TypeOK
<1>3. call[a].pc \in {"tested", "locked"} /\ a # "free" /\ a # "worker"
  BY <1>2, ConstantsAssumption DEF CallRec, ConstantsAssumption
<1> QED
  BY <1>1, <1>2, <1>3 DEF LockInv, QuietInv, TypeOK

(* A session no step touches keeps its history, while nobody is told.       *)
LEMMA QuietHistory ==
  ASSUME IInv, NEW a \in Apps, NEW h \in Sessions, lock \in {"free", a}
  PROVE  /\ GoodHistory(events[h])
         /\ sess[h].st \notin {"NONE", "ESTABLISHED"} => events[h] = <<>>
         /\ sess[h].st = "ESTABLISHED" => Running(events[h])
<1>1. LockInv /\ HistoryOK(h) /\ a # "worker"
  BY CallFacts DEF IInv
<1>2. ~Telling
  BY <1>1 DEF LockInv, Telling
<1>3. ~Ending(h)
  BY <1>2 DEF Ending
<1> QED
  BY <1>1, <1>3 DEF HistoryOK

(* What Returns leaves. *)
LEMMA Returned ==
  ASSUME IInv, NEW a \in Apps, Returns(a)
  PROVE  /\ call' \in [Apps -> CallRec] /\ call'[a] = NoCall /\ CallOK(a)'
         /\ call'[a].pc = "tested" /\ call'[a].op = "none"
<1>1. NoCall \in CallRec
  <2>1. 0 \in 0 .. MaxIp
    BY ConstantsAssumption DEF ConstantsAssumption
  <2> QED
    BY <2>1 DEF NoCall, CallRec
<1>2. call' = [call EXCEPT ![a] = NoCall] /\ call \in [Apps -> CallRec]
  BY CallFacts DEF Returns
<1>3. call'[a] = NoCall /\ NoCall.op = "none" /\ NoCall.pc = "tested"
  BY <1>2 DEF NoCall
<1>4. CallOK(a)'
  BY <1>3 DEF CallOK
<1> QED
  BY <1>1, <1>2, <1>3, <1>4

(* fssCreateSession. *)
LEMMA StepCreate ==
  ASSUME IInv, Disciplined, NEW a \in Apps, NEW h \in Sessions, fssCreateSession(a, h)
  PROVE  IInv'
<1>1. /\ call[a].op = "none" /\ inited /\ lock = "free" /\ sess[h].life = "none"
      /\ sess' = [sess EXCEPT ![h] = NewSession]
      /\ UNCHANGED <<AppVars, lock, slot, call, events>>
  BY DEF fssCreateSession
<1>2. /\ TypeOK /\ DescInv /\ CallOK(a) /\ call[a].pc = "tested" /\ a # "free"
      /\ call \in [Apps -> CallRec] /\ events \in [Sessions -> Seq(EventNames)]
  BY <1>1, CallFacts
<1>3. sess' = [sess EXCEPT ![h] = [NewSession EXCEPT !.life = "live"]]
  BY <1>1 DEF NewSession
<1>4. Recorded(h) = {}
  BY <1>1, <1>2, BusyIsLive DEF DescInv, SessOK, Recorded, Transferring
<1>5. slot' = Closed(Recorded(h))
  BY <1>1, <1>2, <1>4 DEF Closed, TypeOK
<1>6. Changes(h) /\ DescInv' /\ sess'[h].st = "NONE"
  BY <1>2, <1>3, <1>5, Cleared
<1>7. CallOK(a)'
  BY <1>1, <1>2 DEF CallOK
<1>8. LeftOK(h)' /\ GoodHistory(events'[h])
  BY <1>1, <1>6, QuietHistory DEF LeftOK
<1> QED
  BY <1>1, <1>2, <1>6, <1>7, <1>8, AppDoes

(* fssCloseListen finds no listening socket, or is not called. *)
LEMMA StepCloseListen ==
  ASSUME IInv, Disciplined, NEW a \in Apps, NEW h \in Sessions, fssCloseListen(a, h)
  PROVE  IInv'
<1>1. /\ call[a].op = "none" /\ inited /\ lock = "free" /\ sess[h].listen = NoFd
      /\ sess' = [sess EXCEPT ![h].listen = NoFd]
      /\ UNCHANGED <<AppVars, lock, slot, call, events>>
  BY DEF fssCloseListen, Disciplined
<1>2. /\ TypeOK /\ DescInv /\ CallOK(a) /\ call[a].pc = "tested" /\ a # "free"
      /\ call \in [Apps -> CallRec] /\ events \in [Sessions -> Seq(EventNames)]
      /\ sess \in [Sessions -> SessRec]
  BY <1>1, CallFacts
<1>3. sess' = sess
  BY <1>1, <1>2 DEF SessRec
<1>4. Changes(h) /\ DescInv'
  BY <1>1, <1>2, <1>3, Untouched
<1>5. CallOK(a)'
  BY <1>1, <1>2, <1>3 DEF CallOK
<1>6. LeftOK(h)'
  BY <1>1, <1>3 DEF IInv, LeftOK, Tried
<1> QED
  BY <1>1, <1>2, <1>3, <1>4, <1>5, <1>6, QuietHistory, AppDoes

(* The thread takes the lock, for fssListen or for fssDestroySession. *)
LEMMA StepAppLock ==
  ASSUME IInv, Disciplined, NEW a \in Apps, NEW h \in Sessions,
         fssListenLock(a) \/ fssDestroyLock(a, h)
  PROVE  IInv'
<1>0. /\ TypeOK /\ DescInv /\ CallOK(a) /\ a # "free"
      /\ call \in [Apps -> CallRec] /\ events \in [Sessions -> Seq(EventNames)]
      /\ call[a] \in CallRec /\ lock = "free" /\ call[a].pc = "tested" /\ inited
      /\ lock' = a /\ UNCHANGED <<AppVars, sess, slot, events>>
  BY CallFacts DEF fssListenLock, fssDestroyLock, In
<1>1. call' \in [Apps -> CallRec] /\ call'[a].pc = "locked" /\ CallOK(a)'
  <2>1. CASE fssListenLock(a)
    <3>1. call' = [call EXCEPT ![a].pc = "locked"] /\ call[a].op = "listen"
      BY <2>1 DEF fssListenLock, In
    <3>2. /\ call' \in [Apps -> CallRec] /\ call'[a].pc = "locked"
          /\ call'[a].op = "listen" /\ call'[a].h = call[a].h
      BY <1>0, <3>1 DEF CallRec
    <3> QED
      BY <1>0, <3>1, <3>2 DEF CallOK
  <2>2. CASE fssDestroyLock(a, h)
    <3>1. call' = [call EXCEPT ![a] = [op |-> "destroy", pc |-> "locked", h |-> h,
                                       n |-> 0, i |-> 0]]
      BY <2>2 DEF fssDestroyLock
    <3>2. 0 \in 0 .. MaxIp
      BY ConstantsAssumption DEF ConstantsAssumption
    <3>3. /\ call' \in [Apps -> CallRec] /\ call'[a].pc = "locked"
          /\ call'[a].op = "destroy" /\ call'[a].h = h
      BY <1>0, <3>1, <3>2 DEF CallRec
    <3> QED
      BY <3>3 DEF CallOK
  <2> QED
    BY <2>1, <2>2
<1>2. Changes(h) /\ DescInv'
  BY <1>0, Untouched
<1>3. LeftOK(h)'
  <2>1. sess[h].st = "CONNECTING" => sess[h].left = Cardinality(Tried(h))
    BY <1>0, NobodyLocked, CallFacts DEF IInv, LeftOK
  <2> QED
    BY <1>0, <2>1 DEF LeftOK, Tried
<1> QED
  BY <1>0, <1>1, <1>2, <1>3, QuietHistory, AppDoes

(* A session that is idle has nothing on record. *)
LEMMA IdleHasNothing ==
  ASSUME TypeOK, DescInv, NEW h \in Sessions, sess[h].st = "NONE"
  PROVE  /\ sess[h].listen = NoFd /\ sess[h].conn = NoFd /\ sess[h].left = 0
         /\ \A i \in 1 .. MaxIp : sess[h].fds[i] = NoFd
         /\ \A j \in Slots : slot[j].kind # "free" => slot[j].owner # h
BY OwnSlots DEF DescInv, SessOK, Transferring

(* fssListen takes a slot, or fails and leaves the session idle. *)
LEMMA StepListen ==
  ASSUME IInv, Disciplined, NEW a \in Apps, fssListen(a)
  PROVE  IInv'
<1>0. /\ call[a].op = "listen" /\ call[a].pc = "locked" /\ sess[call[a].h].life = "live"
      /\ lock' = "free" /\ Returns(a) /\ UNCHANGED AppVars
  BY DEF fssListen, In
<1>1. /\ TypeOK /\ DescInv /\ CallOK(a) /\ lock = a /\ inited
      /\ sess \in [Sessions -> SessRec] /\ slot \in [Slots -> SlotRec]
      /\ events \in [Sessions -> Seq(EventNames)] /\ a # "free"
  BY <1>0, CallFacts
<1>2. PICK h \in Sessions : h = call[a].h /\ sess[h].st = "NONE"
  BY <1>0, <1>1 DEF CallOK
<1>3. /\ call' \in [Apps -> CallRec] /\ CallOK(a)' /\ call'[a].pc = "tested"
  BY <1>0, Returned
<1>4. /\ sess[h].listen = NoFd /\ sess[h].conn = NoFd /\ sess[h].left = 0
      /\ \A i \in 1 .. MaxIp : sess[h].fds[i] = NoFd
      /\ \A j \in Slots : slot[j].kind # "free" => slot[j].owner # h
      /\ sess[h].life = "live"
  BY <1>0, <1>1, <1>2, IdleHasNothing
<1>5. CASE sess' = [sess EXCEPT ![h].listen = NoFd] /\ UNCHANGED <<slot, events>>
  <2>1. sess' = sess
    BY <1>1, <1>4, <1>5 DEF SessRec
  <2>2. Changes(h) /\ DescInv'
    BY <1>1, <1>5, <2>1, Untouched
  <2>3. LeftOK(h)'
    BY <1>2, <2>1 DEF LeftOK
  <2> QED
    BY <1>0, <1>1, <1>2, <1>3, <1>5, <2>1, <2>2, <2>3, QuietHistory, AppDoes
<1>6. CASE \E k \in Slots : Listening(h, k)
  <2>1. PICK k \in Slots :
          /\ Idle(k)
          /\ slot' = [slot EXCEPT ![k] = Open(h, k, "listening")]
          /\ sess' = [sess EXCEPT ![h].listen = k, ![h].st = "LISTEN"]
          /\ events' = [events EXCEPT ![h] = <<>>]
    BY <1>6 DEF Listening
  <2>2. slot[k].kind = "free"
    BY <2>1 DEF Idle
  <2>3. /\ slot' \in [Slots -> SlotRec]
        /\ slot'[k] = [owner |-> h, kind |-> "listening", ready |-> "no"]
        /\ \A j \in Slots : j # k => slot'[j] = slot[j]
    BY <1>1, <2>1 DEF Open, SlotRec
  <2>4. /\ sess' \in [Sessions -> SessRec]
        /\ \A g \in Sessions : g # h => sess'[g] = sess[g]
    <3>1. sess'[h] \in SessRec
      BY <1>1, <2>1, ZenonT(60) DEF SessRec, States
    <3> QED
      BY <1>1, <2>1, <3>1
  <2>5. /\ sess'[h].st = "LISTEN" /\ sess'[h].listen = k
        /\ sess'[h].conn = NoFd /\ sess'[h].left = 0 /\ sess'[h].life = "live"
        /\ sess'[h].fds = sess[h].fds
    BY <1>1, <1>4, <2>1 DEF SessRec
  <2>6. Changes(h)
    BY <2>2, <2>3, <2>4 DEF Changes
  <2>7. SessOK(h)'
    <3>1. Holds(h, k, "listening")'
      BY <2>3 DEF Holds
    <3> QED
      BY <1>4, <2>5, <3>1 DEF SessOK
  <2>8. ASSUME NEW j \in Slots, slot'[j].kind # "free", slot'[j].owner = h
        PROVE  SlotOK(j)'
    <3>1. j = k
      BY <1>4, <2>3, <2>8
    <3> QED
      BY <2>3, <2>5, <3>1 DEF SlotOK
  <2>9. DescInv'
    BY <1>1, <2>6, <2>7, <2>8, OnlyHere
  <2>10. /\ events' \in [Sessions -> Seq(EventNames)] /\ events'[h] = <<>>
         /\ \A g \in Sessions : g # h => events'[g] = events[g]
         /\ GoodHistory(events'[h])
    <3>1. GoodHistory(<<>>) /\ <<>> \in Seq(EventNames)
      BY DEF GoodHistory
    <3> QED
      BY <1>1, <2>1, <3>1
  <2>11. LeftOK(h)'
    BY <2>5 DEF LeftOK
  <2> QED
    BY <1>0, <1>1, <1>2, <1>3, <2>5, <2>6, <2>9, <2>10, <2>11, AppDoes
<1> QED
  BY <1>2, <1>5, <1>6 DEF fssListen

(* fssConnect marks the session and begins with the addresses. *)
LEMMA StepConnectLock ==
  ASSUME IInv, Disciplined, NEW a \in Apps, fssConnectLock(a)
  PROVE  IInv'
<1>0. /\ call[a].op = "connect" /\ call[a].pc = "tested" /\ sess[call[a].h].life = "live"
      /\ lock = "free" /\ lock' = a /\ call' = [call EXCEPT ![a].pc = "locked"]
      /\ UNCHANGED AppVars /\ slot' = slot
  BY DEF fssConnectLock, In
<1>1. /\ TypeOK /\ DescInv /\ CallOK(a) /\ inited
      /\ sess \in [Sessions -> SessRec] /\ slot \in [Slots -> SlotRec]
      /\ call \in [Apps -> CallRec] /\ call[a] \in CallRec
      /\ events \in [Sessions -> Seq(EventNames)] /\ a # "free"
  BY <1>0, CallFacts
<1>2. PICK h \in Sessions : h = call[a].h /\ sess[h].st = "NONE"
  BY <1>0, <1>1 DEF CallOK
<1>3. /\ sess' = [sess EXCEPT ![h].st = "CONNECTING", ![h].cnt = call[a].n]
      /\ events' = [events EXCEPT ![h] = <<>>]
  BY <1>2 DEF fssConnectLock
<1>4. /\ sess[h].listen = NoFd /\ sess[h].conn = NoFd /\ sess[h].left = 0
      /\ \A i \in 1 .. MaxIp : sess[h].fds[i] = NoFd
      /\ \A j \in Slots : slot[j].kind # "free" => slot[j].owner # h
      /\ sess[h].life = "live"
  BY <1>0, <1>1, <1>2, IdleHasNothing
<1>5. call[a].n \in 0 .. MaxIp /\ call[a].i = 0 /\ MaxIp \in Nat
  BY <1>0, <1>1, ConstantsAssumption DEF CallRec, CallOK, ConstantsAssumption
<1>6. /\ sess' \in [Sessions -> SessRec]
      /\ \A g \in Sessions : g # h => sess'[g] = sess[g]
  <2>1. /\ sess \in [Sessions -> SessRec] /\ call[a].n \in 0 .. MaxIp
        /\ sess' = [sess EXCEPT ![h].st = "CONNECTING", ![h].cnt = call[a].n]
    BY <1>1, <1>3, <1>5
  <2>2. sess'[h] \in SessRec
    BY <2>1, ZenonT(60) DEF SessRec, States
  <2> QED
    BY <2>1, <2>2
<1>7. /\ sess'[h].st = "CONNECTING" /\ sess'[h].listen = NoFd
      /\ sess'[h].conn = NoFd /\ sess'[h].left = 0 /\ sess'[h].life = "live"
      /\ sess'[h].fds = sess[h].fds /\ sess'[h].cnt = call[a].n
  BY <1>1, <1>3, <1>4 DEF SessRec
<1>8. /\ call' \in [Apps -> CallRec] /\ call'[a].pc = "locked" /\ call'[a].h = h
      /\ call'[a].op = "connect" /\ call'[a].n = call[a].n /\ call'[a].i = 0
  BY <1>0, <1>1, <1>2, <1>5 DEF CallRec
<1>9. CallOK(a)'
  <2>1. \A j \in 1 .. MaxIp : sess'[h].fds[j] # NoFd <=> j <= 0
    BY <1>4, <1>5, <1>7
  <2>2. 0 <= call'[a].n
    BY <1>5, <1>8
  <2> QED
    BY <1>7, <1>8, <2>1, <2>2 DEF CallOK
<1>10. Changes(h)
  BY <1>0, <1>1, <1>6 DEF Changes
<1>11. SessOK(h)'
  BY <1>4, <1>7 DEF SessOK
<1>12. DescInv'
  BY <1>0, <1>1, <1>4, <1>10, <1>11, OnlyHere
<1>13. /\ events' \in [Sessions -> Seq(EventNames)] /\ events'[h] = <<>>
       /\ \A g \in Sessions : g # h => events'[g] = events[g]
       /\ GoodHistory(events'[h])
  <2>1. GoodHistory(<<>>) /\ <<>> \in Seq(EventNames)
    BY DEF GoodHistory
  <2> QED
    BY <1>1, <1>3, <2>1
<1>14. LeftOK(h)'
  BY <1>8 DEF LeftOK
<1> QED
  BY <1>0, <1>1, <1>2, <1>7, <1>8, <1>9, <1>10, <1>12, <1>13, <1>14, AppDoes

(* What fssConnect finds while it goes through the addresses. *)
LEMMA ConnectFacts ==
  ASSUME IInv, NEW a \in Apps, In(a, "connect", "locked")
  PROVE  \E h \in Sessions :
           /\ h = call[a].h /\ lock = a /\ inited
           /\ sess[h].st = "CONNECTING" /\ sess[h].life = "live"
           /\ call[a].i \in 0 .. MaxIp /\ call[a].n \in 0 .. MaxIp /\ MaxIp \in Nat
           /\ call[a].i <= call[a].n /\ sess[h].cnt = call[a].n /\ sess[h].left = 0
           /\ \A j \in 1 .. MaxIp : sess[h].fds[j] # NoFd <=> j <= call[a].i
           /\ \A j \in 1 .. MaxIp : sess[h].fds[j] \in Slots \cup {NoFd}
           /\ sess[h].listen = NoFd /\ sess[h].conn = NoFd /\ SessOK(h)
           /\ events[h] = <<>>
<1>1. /\ TypeOK /\ DescInv /\ CallOK(a) /\ lock = a /\ inited /\ call[a] \in CallRec
      /\ call[a].op = "connect" /\ call[a].pc = "locked"
  BY CallFacts DEF In
<1>2. PICK h \in Sessions : h = call[a].h /\ sess[h].st = "CONNECTING"
  BY <1>1 DEF CallOK
<1>3. /\ call[a].i <= call[a].n /\ sess[h].cnt = call[a].n /\ sess[h].left = 0
      /\ \A j \in 1 .. MaxIp : sess[h].fds[j] # NoFd <=> j <= call[a].i
  BY <1>1, <1>2 DEF CallOK
<1>4. call[a].i \in 0 .. MaxIp /\ call[a].n \in 0 .. MaxIp /\ MaxIp \in Nat
  BY <1>1, ConstantsAssumption DEF CallRec, ConstantsAssumption
<1>5. SessOK(h) /\ sess[h].life = "live" /\ sess[h].listen = NoFd /\ sess[h].conn = NoFd
  BY <1>1, <1>2, BusyIsLive DEF DescInv, SessOK, Transferring
<1>6. events[h] = <<>>
  BY <1>1, <1>2, QuietHistory
<1>7. \A j \in 1 .. MaxIp : sess[h].fds[j] \in Slots \cup {NoFd}
  BY <1>1, Fields
<1> QED
  BY <1>1, <1>2, <1>3, <1>4, <1>5, <1>6, <1>7

(* One address more is tried. *)
LEMMA StepConnectNext ==
  ASSUME IInv, Disciplined, NEW a \in Apps, fssConnectNext(a)
  PROVE  IInv'
<1> DEFINE i == call[a].i + 1
<1>0. /\ In(a, "connect", "locked") /\ call[a].op = "connect" /\ call[a].pc = "locked"
      /\ i <= call[a].n /\ call' = [call EXCEPT ![a].i = i]
      /\ UNCHANGED <<AppVars, lock, events>>
  BY DEF fssConnectNext, In
<1>1. /\ TypeOK /\ DescInv /\ a # "free"
      /\ sess \in [Sessions -> SessRec] /\ slot \in [Slots -> SlotRec]
      /\ call \in [Apps -> CallRec] /\ call[a] \in CallRec
      /\ events \in [Sessions -> Seq(EventNames)]
  BY CallFacts
<1>2. PICK h \in Sessions :
           /\ h = call[a].h /\ lock = a /\ inited
           /\ sess[h].st = "CONNECTING" /\ sess[h].life = "live"
           /\ call[a].i \in 0 .. MaxIp /\ call[a].n \in 0 .. MaxIp /\ MaxIp \in Nat
           /\ call[a].i <= call[a].n /\ sess[h].cnt = call[a].n /\ sess[h].left = 0
           /\ \A j \in 1 .. MaxIp : sess[h].fds[j] # NoFd <=> j <= call[a].i
           /\ \A j \in 1 .. MaxIp : sess[h].fds[j] \in Slots \cup {NoFd}
           /\ sess[h].listen = NoFd /\ sess[h].conn = NoFd /\ SessOK(h)
           /\ events[h] = <<>>
  BY <1>0, ConnectFacts
<1>3. PICK k \in Slots :
        /\ Idle(k)
        /\ slot' = [slot EXCEPT ![k] = Open(h, k, "connecting")]
        /\ sess' = [sess EXCEPT ![h].fds[i] = k]
  BY <1>2 DEF fssConnectNext
<1>4. i \in 1 .. MaxIp /\ i \in 0 .. MaxIp /\ call[a].i = i - 1 /\ i \in Nat
  BY <1>0, <1>2
<1> HIDE DEF i
<1>5. slot[k].kind = "free" /\ k # NoFd
  BY <1>3, NoFdIsNoSlot DEF Idle
<1>6. /\ slot' \in [Slots -> SlotRec]
      /\ slot'[k] = [owner |-> h, kind |-> "connecting", ready |-> "no"]
      /\ \A j \in Slots : j # k => slot'[j] = slot[j]
  BY <1>1, <1>3 DEF Open, SlotRec
<1>7. sess[h].fds \in [1 .. MaxIp -> Slots \cup {NoFd}]
  BY <1>1, Fields
<1>8. /\ sess' \in [Sessions -> SessRec]
      /\ \A g \in Sessions : g # h => sess'[g] = sess[g]
  <2>1. sess'[h] \in SessRec
    BY <1>1, <1>3, <1>7, ZenonT(60) DEF SessRec
  <2> QED
    BY <1>1, <1>3, <2>1
<1>9. /\ sess'[h].st = "CONNECTING" /\ sess'[h].listen = NoFd
      /\ sess'[h].conn = NoFd /\ sess'[h].left = 0 /\ sess'[h].life = "live"
      /\ sess'[h].fds = [sess[h].fds EXCEPT ![i] = k] /\ sess'[h].cnt = call[a].n
  BY <1>1, <1>2, <1>3 DEF SessRec
<1>10. /\ sess'[h].fds[i] = k
       /\ \A j \in 1 .. MaxIp : j # i => sess'[h].fds[j] = sess[h].fds[j]
  BY <1>4, <1>7, <1>9
<1>11. /\ call' \in [Apps -> CallRec] /\ call'[a].pc = "locked" /\ call'[a].h = h
       /\ call'[a].op = "connect" /\ call'[a].n = call[a].n /\ call'[a].i = i
  BY <1>0, <1>1, <1>2, <1>4 DEF CallRec
<1>12. CallOK(a)'
  <2>1. \A j \in 1 .. MaxIp : sess'[h].fds[j] # NoFd <=> j <= i
    BY <1>2, <1>4, <1>5, <1>10
  <2> QED
    BY <1>0, <1>9, <1>11, <2>1, ZenonT(60) DEF CallOK
<1>13. Changes(h)
  BY <1>5, <1>6, <1>8 DEF Changes
<1>14. \A j \in 1 .. MaxIp : j # i /\ sess[h].fds[j] # NoFd =>
         /\ j <= call[a].n /\ sess[h].fds[j] # k
         /\ slot'[sess[h].fds[j]].owner = h /\ slot'[sess[h].fds[j]].kind = "connecting"
  <2> SUFFICES ASSUME NEW j \in 1 .. MaxIp, sess[h].fds[j] # NoFd
               PROVE  /\ j <= call[a].n /\ sess[h].fds[j] # k
                      /\ slot'[sess[h].fds[j]].owner = h
                      /\ slot'[sess[h].fds[j]].kind = "connecting"
    OBVIOUS
  <2>1. Holds(h, sess[h].fds[j], "connecting") /\ j <= call[a].n /\ sess[h].fds[j] \in Slots
    BY <1>2 DEF SessOK
  <2>2. sess[h].fds[j] # k
    BY <1>5, <2>1 DEF Holds
  <2> QED
    BY <1>6, <2>1, <2>2 DEF Holds
<1>15. SessOK(h)'
  <2>1. ASSUME NEW j \in 1 .. MaxIp, sess'[h].fds[j] # NoFd
        PROVE  j <= sess'[h].cnt /\ Holds(h, sess[h].fds[j], "connecting")'
    <3>1. CASE j = i
      BY <1>0, <1>4, <1>6, <1>9, <1>10, <3>1 DEF Holds
    <3>2. CASE j # i
      BY <1>9, <1>10, <1>14, <2>1, <3>2 DEF Holds
    <3> QED
      BY <3>1, <3>2
  <2>2. ASSUME NEW j \in 1 .. MaxIp, NEW m \in 1 .. MaxIp,
               sess'[h].fds[j] # NoFd, sess'[h].fds[j] = sess'[h].fds[m]
        PROVE  j = m
    <3>1. \A p, q \in 1 .. MaxIp :
            sess[h].fds[p] # NoFd /\ sess[h].fds[p] = sess[h].fds[q] => p = q
      BY <1>2 DEF SessOK
    <3>2. CASE j # i /\ m # i
      BY <1>10, <2>2, <3>1, <3>2
    <3>3. CASE j = i /\ m # i
      BY <1>10, <1>14, <2>2, <3>3
    <3>4. CASE j # i /\ m = i
      BY <1>10, <1>14, <2>2, <3>4
    <3> QED
      BY <3>2, <3>3, <3>4
  <2> QED
    BY <1>9, <2>1, <2>2 DEF SessOK, Holds
<1>16. ASSUME NEW j \in Slots, slot'[j].kind # "free", slot'[j].owner = h
       PROVE  SlotOK(j)'
  <2>1. CASE j = k
    BY <1>4, <1>6, <1>10, <2>1 DEF SlotOK
  <2>2. CASE j # k
    <3>1. slot'[j] = slot[j] /\ SlotOK(j)
      BY <1>1, <1>6, <2>2 DEF DescInv
    <3>2. slot[j].kind = "connecting" /\ \E m \in 1 .. MaxIp : sess[h].fds[m] = j
      <4>1. slot[j].kind # "free" /\ slot[j].owner = h
        BY <1>16, <3>1
      <4>2. sess[h].st = "CONNECTING" /\ sess[h].st \notin Transferring
        BY <1>2 DEF Transferring
      <4> QED
        BY <1>1, <4>1, <4>2, OwnSlots
    <3>3. \E m \in 1 .. MaxIp : sess'[h].fds[m] = j
      <4>1. PICK m \in 1 .. MaxIp : sess[h].fds[m] = j
        BY <3>2
      <4>2. m # i
        BY <1>2, <1>4, <4>1, NoFdIsNoSlot
      <4> QED
        BY <1>10, <4>1, <4>2
    <3> QED
      BY <1>16, <3>1, <3>2, <3>3 DEF SlotOK
  <2> QED
    BY <2>1, <2>2
<1>17. DescInv'
  BY <1>1, <1>13, <1>15, <1>16, OnlyHere
<1>18. LeftOK(h)'
  BY <1>11 DEF LeftOK
<1>19. GoodHistory(events'[h]) /\ events' = events /\ lock' = lock
  BY <1>0, <1>2 DEF GoodHistory
<1> QED
  BY <1>0, <1>1, <1>2, <1>9, <1>11, <1>12, <1>13, <1>17, <1>18, <1>19, AppDoes

(* An address cannot be tried: the attempts so far are closed. *)
LEMMA StepConnectFail ==
  ASSUME IInv, Disciplined, NEW a \in Apps, fssConnectFail(a)
  PROVE  IInv'
<1>0. /\ In(a, "connect", "locked") /\ call[a].op = "connect" /\ call[a].pc = "locked"
      /\ lock' = "free" /\ Returns(a) /\ UNCHANGED <<AppVars, events>>
  BY DEF fssConnectFail, In
<1>1. /\ TypeOK /\ DescInv /\ a # "free"
      /\ sess \in [Sessions -> SessRec] /\ slot \in [Slots -> SlotRec]
      /\ events \in [Sessions -> Seq(EventNames)]
  BY CallFacts
<1>2. PICK h \in Sessions :
           /\ h = call[a].h /\ lock = a /\ inited
           /\ sess[h].st = "CONNECTING" /\ sess[h].life = "live"
           /\ call[a].i \in 0 .. MaxIp /\ call[a].n \in 0 .. MaxIp /\ MaxIp \in Nat
           /\ call[a].i <= call[a].n /\ sess[h].cnt = call[a].n /\ sess[h].left = 0
           /\ \A j \in 1 .. MaxIp : sess[h].fds[j] # NoFd <=> j <= call[a].i
           /\ \A j \in 1 .. MaxIp : sess[h].fds[j] \in Slots \cup {NoFd}
           /\ sess[h].listen = NoFd /\ sess[h].conn = NoFd /\ SessOK(h)
           /\ events[h] = <<>>
  BY <1>0, ConnectFacts
<1> DEFINE B == 1 .. call[a].i
           F == {sess[h].fds[j] : j \in B}
           g0 == [j \in 1 .. MaxIp |-> IF j \in B THEN NoFd ELSE sess[h].fds[j]]
<1>3. /\ sess' = [sess EXCEPT ![h].cnt = 0, ![h].fds = g0]
      /\ slot' = [j \in Slots |-> IF j \in F THEN EmptySlot ELSE slot[j]]
  BY <1>2 DEF fssConnectFail, Closed
<1>4. \A j \in 1 .. MaxIp : g0[j] = NoFd
  BY <1>2
<1>5. g0 \in [1 .. MaxIp -> Slots \cup {NoFd}]
  BY <1>4
<1>6. \A j \in Slots : j \in F <=> slot[j].kind # "free" /\ slot[j].owner = h
  <2>1. ASSUME NEW j \in Slots, j \in F
        PROVE  slot[j].kind # "free" /\ slot[j].owner = h
    BY <1>2, <2>1, NoFdIsNoSlot DEF SessOK, Holds
  <2>2. ASSUME NEW j \in Slots, slot[j].kind # "free", slot[j].owner = h
        PROVE  j \in F
    <3>1. PICK m \in 1 .. MaxIp : sess[h].fds[m] = j
      BY <1>1, <1>2, <2>2, OwnSlots DEF Transferring
    <3>2. m \in B
      BY <1>2, <3>1, NoFdIsNoSlot
    <3> QED
      BY <3>1, <3>2
  <2> QED
    BY <2>1, <2>2
<1> HIDE DEF B, F, g0
<1>7. /\ sess' \in [Sessions -> SessRec]
      /\ \A g \in Sessions : g # h => sess'[g] = sess[g]
  <2>1. 0 \in 0 .. MaxIp
    BY <1>2
  <2>2. sess'[h] \in SessRec
    BY <1>1, <1>3, <1>5, <2>1, ZenonT(60) DEF SessRec
  <2> QED
    BY <1>1, <1>3, <2>2
<1>8. /\ sess'[h].st = "CONNECTING" /\ sess'[h].listen = NoFd
      /\ sess'[h].conn = NoFd /\ sess'[h].left = 0 /\ sess'[h].life = "live"
      /\ sess'[h].fds = g0
  <2>1. sess'[h] = [sess[h] EXCEPT !.cnt = 0, !.fds = g0] /\ sess[h] \in SessRec
    BY <1>1, <1>3
  <2>2. /\ sess'[h].st = sess[h].st /\ sess'[h].listen = sess[h].listen
        /\ sess'[h].conn = sess[h].conn /\ sess'[h].left = sess[h].left
        /\ sess'[h].life = sess[h].life /\ sess'[h].fds = g0
    BY <2>1 DEF SessRec
  <2> QED
    BY <1>2, <2>2
<1>9. slot' \in [Slots -> SlotRec]
  BY <1>1, <1>3, NewIsSession
<1>10. Changes(h)
  BY <1>3, <1>6, <1>7, <1>9 DEF Changes, EmptySlot
<1>11. SessOK(h)'
  BY <1>4, <1>8 DEF SessOK
<1>12. \A j \in Slots : slot'[j].kind # "free" => slot'[j].owner # h
  BY <1>3, <1>6 DEF EmptySlot
<1>13. DescInv'
  BY <1>1, <1>10, <1>11, <1>12, OnlyHere
<1>14. LeftOK(h)'
  <2>1. Tried(h)' = {}
    BY <1>4, <1>8 DEF Tried
  <2> QED
    BY <1>8, <2>1, FS_EmptySet DEF LeftOK
<1>15. GoodHistory(events'[h]) /\ events' = events
  BY <1>0, <1>2 DEF GoodHistory
<1> QED
  BY <1>0, <1>1, <1>2, <1>8, <1>10, <1>13, <1>14, <1>15, Returned, AppDoes

(* The first n addresses are n. *)
LEMMA FirstOnes ==
  ASSUME NEW n \in Nat
  PROVE  Cardinality(1 .. n) = n
<1>1. Cardinality(1 .. n) = IF 1 > n THEN 0 ELSE n - 1 + 1
  BY FS_Interval
<1> QED
  BY <1>1

(* Every address is being tried. *)
LEMMA StepConnect ==
  ASSUME IInv, Disciplined, NEW a \in Apps, fssConnect(a)
  PROVE  IInv'
<1>0. /\ In(a, "connect", "locked") /\ call[a].op = "connect" /\ call[a].pc = "locked"
      /\ call[a].i = call[a].n
      /\ lock' = "free" /\ Returns(a) /\ UNCHANGED <<AppVars, slot, events>>
  BY DEF fssConnect, In
<1>1. /\ TypeOK /\ DescInv /\ a # "free"
      /\ sess \in [Sessions -> SessRec] /\ slot \in [Slots -> SlotRec]
      /\ events \in [Sessions -> Seq(EventNames)]
  BY CallFacts
<1>2. PICK h \in Sessions :
           /\ h = call[a].h /\ lock = a /\ inited
           /\ sess[h].st = "CONNECTING" /\ sess[h].life = "live"
           /\ call[a].i \in 0 .. MaxIp /\ call[a].n \in 0 .. MaxIp /\ MaxIp \in Nat
           /\ call[a].i <= call[a].n /\ sess[h].cnt = call[a].n /\ sess[h].left = 0
           /\ \A j \in 1 .. MaxIp : sess[h].fds[j] # NoFd <=> j <= call[a].i
           /\ \A j \in 1 .. MaxIp : sess[h].fds[j] \in Slots \cup {NoFd}
           /\ sess[h].listen = NoFd /\ sess[h].conn = NoFd /\ SessOK(h)
           /\ events[h] = <<>>
  BY <1>0, ConnectFacts
<1>3. sess' = [sess EXCEPT ![h].left = sess[h].cnt]
  BY <1>2 DEF fssConnect
<1>4. /\ sess' \in [Sessions -> SessRec]
      /\ \A g \in Sessions : g # h => sess'[g] = sess[g]
  <2>1. sess[h].cnt \in 0 .. MaxIp
    BY <1>2
  <2>2. sess'[h] \in SessRec
    BY <1>1, <1>3, <2>1, ZenonT(60) DEF SessRec
  <2> QED
    BY <1>1, <1>3, <2>2
<1>5. /\ sess'[h].st = "CONNECTING" /\ sess'[h].listen = NoFd
      /\ sess'[h].conn = NoFd /\ sess'[h].left = call[a].n /\ sess'[h].life = "live"
      /\ sess'[h].fds = sess[h].fds /\ sess'[h].cnt = sess[h].cnt
  BY <1>1, <1>2, <1>3 DEF SessRec
<1>6. Changes(h)
  BY <1>0, <1>1, <1>4 DEF Changes
<1>7. SessOK(h)'
  <2>1. SessOK(h) /\ slot' = slot
    BY <1>0, <1>2
  <2>2. \A j \in 1 .. MaxIp : sess[h].fds[j] # NoFd =>
          /\ j <= sess[h].cnt
          /\ slot'[sess[h].fds[j]].owner = h /\ slot'[sess[h].fds[j]].kind = "connecting"
    BY <2>1 DEF SessOK, Holds
  <2>3. \A i, j \in 1 .. MaxIp :
          sess[h].fds[i] # NoFd /\ sess[h].fds[i] = sess[h].fds[j] => i = j
    BY <2>1 DEF SessOK
  <2> QED
    BY <1>5, <2>2, <2>3 DEF SessOK, Holds
<1>8. \A j \in Slots : slot'[j].owner = h => SlotOK(j)'
  <2> SUFFICES ASSUME NEW j \in Slots, slot'[j].owner = h
               PROVE  SlotOK(j)'
    OBVIOUS
  <2>1. SlotOK(j) /\ slot'[j] = slot[j]
    BY <1>0, <1>1, <1>2 DEF DescInv
  <2>2. /\ sess'[h].listen = sess[h].listen /\ sess'[h].conn = sess[h].conn
        /\ sess'[h].fds = sess[h].fds
    BY <1>2, <1>5
  <2> QED
    BY <2>1, <2>2 DEF SlotOK
<1>9. DescInv'
  BY <1>1, <1>6, <1>7, <1>8, OnlyHere
<1>10. LeftOK(h)'
  <2>1. Tried(h)' = 1 .. call[a].n
    <3>1. \A j \in 1 .. MaxIp : sess'[h].fds[j] # NoFd <=> j <= call[a].n
      BY <1>0, <1>2, <1>5
    <3>2. Tried(h)' = {j \in 1 .. MaxIp : j <= call[a].n}
      BY <3>1 DEF Tried
    <3>3. call[a].n \in 0 .. MaxIp /\ MaxIp \in Nat
      BY <1>2
    <3>4. {j \in 1 .. MaxIp : j <= call[a].n} = 1 .. call[a].n
      BY <3>3
    <3> QED
      BY <3>2, <3>4
  <2>2. Cardinality(1 .. call[a].n) = call[a].n
    <3>1. call[a].n \in Nat
      BY <1>2
    <3> QED
      BY <3>1, FirstOnes
  <2>3. sess'[h].left = Cardinality(Tried(h)')
    BY <1>5, <2>1, <2>2, Zenon
  <2> QED
    BY <2>3 DEF LeftOK
<1>11. GoodHistory(events'[h]) /\ events' = events
  BY <1>0, <1>2 DEF GoodHistory
<1> QED
  BY <1>0, <1>1, <1>2, <1>5, <1>6, <1>9, <1>10, <1>11, Returned, AppDoes

(* fssDestroySession closes what the session has, or finds that it has      *)
(* gone.                                                                    *)
LEMMA StepDestroySession ==
  ASSUME IInv, Disciplined, NEW a \in Apps, fssDestroySession(a)
  PROVE  IInv'
<1>0. /\ call[a].op = "destroy" /\ call[a].pc = "locked"
      /\ lock' = "free" /\ Returns(a) /\ UNCHANGED <<AppVars, events>>
  BY DEF fssDestroySession, In
<1>1. /\ TypeOK /\ DescInv /\ a # "free" /\ inited /\ lock = a /\ CallOK(a)
      /\ events \in [Sessions -> Seq(EventNames)]
  BY <1>0, CallFacts
<1>2. PICK h \in Sessions : h = call[a].h
  BY <1>0, <1>1 DEF CallOK
<1>3. CASE Delete(h)
  <2>1. Changes(h) /\ DescInv' /\ sess'[h].st = "NONE"
    BY <1>1, <1>3, Cleared DEF Delete
  <2>2. LeftOK(h)'
    BY <2>1 DEF LeftOK
  <2> QED
    BY <1>0, <1>1, <1>2, <2>1, <2>2, QuietHistory, Returned, AppDoes
<1>4. CASE UNCHANGED <<sess, slot>>
  <2>1. Changes(h) /\ DescInv'
    BY <1>1, <1>4, Untouched
  <2>2. sess[h].st = "CONNECTING" => sess[h].left = Cardinality(Tried(h))
    BY <1>0 DEF IInv, LeftOK, Disciplined
  <2>3. LeftOK(h)'
    BY <1>4, <2>2 DEF LeftOK, Tried
  <2> QED
    BY <1>0, <1>1, <1>2, <1>4, <2>1, <2>3, QuietHistory, Returned, AppDoes
<1> QED
  BY <1>2, <1>3, <1>4 DEF fssDestroySession

-----------------------------------------------------------------------------
(* The calls that need no lock, the world, and the end. *)

(* A step of the application that touches no session and no slot, while the *)
(* thread holds no lock.                                                    *)
LEMMA AppOnly ==
  ASSUME IInv, Disciplined, NEW a \in Apps, call[a].pc = "tested",
         UNCHANGED <<lock, sess, slot, events>>,
         inited' = TRUE, thrdFlag' \in BOOLEAN, worker' \in WorkerRec,
         call' \in [Apps -> CallRec], call'[a].pc = "tested", CallOK(a)',
         \/ worker' = worker
         \/ /\ worker.pc \in {"none", "ended"}
            /\ worker'.pc = "idle" /\ worker'.due = {}
  PROVE  IInv'
<1>0. /\ TypeOK /\ LockInv /\ QuietInv /\ TellInv /\ DueInv /\ DescInv
      /\ \A b \in Apps : CallOK(b)
      /\ \A g \in Sessions : LeftOK(g) /\ HistoryOK(g)
  BY DEF IInv
<1>1. /\ lock' = lock /\ sess' = sess /\ slot' = slot /\ events' = events
      /\ \A b \in Apps : b = a
  BY DEF Disciplined
<1>2. TypeOK'
  BY <1>0, <1>1 DEF TypeOK
<1>3. LockInv'
  BY <1>0, <1>1 DEF LockInv
<1>4. QuietInv'
  BY DEF QuietInv
<1>5. (Telling' <=> Telling) /\ (Telling => worker' = worker)
  BY DEF Telling
<1>6. TellInv'
  BY <1>0, <1>1, <1>5 DEF TellInv, Fits, Recorded
<1>7. DueInv'
  <2>1. CASE worker' = worker
    BY <1>0, <1>1, <2>1 DEF DueInv, InTimeouts, Telling
  <2>2. CASE worker'.due = {}
    BY <2>2 DEF DueInv
  <2> QED
    BY <2>1, <2>2
<1>8. DescInv'
  BY <1>0, <1>1 DEF DescInv, SessOK, SlotOK, Holds
<1>9. \A b \in Apps : CallOK(b)'
  BY <1>1
<1>10. \A g \in Sessions : LeftOK(g)'
  <2>1. \A g \in Sessions : sess[g].st = "CONNECTING" =>
           sess[g].left = Cardinality(Tried(g))
    BY <1>0, <1>1 DEF LeftOK
  <2> QED
    BY <1>1, <2>1 DEF LeftOK, Tried
<1>11. \A g \in Sessions : HistoryOK(g)'
  BY <1>0, <1>1, <1>5 DEF HistoryOK, Ending
<1> QED
  BY <1>2, <1>3, <1>4, <1>6, <1>7, <1>8, <1>9, <1>10, <1>11 DEF IInv

(* fssInit, the first half of fssDeinit, and the test of eState. *)
LEMMA StepAppOnly ==
  ASSUME IInv, Disciplined, NEW a \in Apps,
         \/ fssInit(a) \/ fssDeinitFlag(a)
         \/ \E h \in Sessions : \/ fssTest(a, "listen", h, 0)
                                \/ \E n \in 1 .. MaxIp : fssTest(a, "connect", h, n)
  PROVE  IInv'
<1>1. /\ TypeOK /\ CallOK(a) /\ call \in [Apps -> CallRec] /\ call[a] \in CallRec
      /\ worker \in WorkerRec /\ inited \in BOOLEAN /\ thrdFlag \in BOOLEAN
      /\ MaxIp \in Nat /\ QuietInv /\ LockInv /\ DueInv
  BY CallFacts, ConstantsAssumption DEF TypeOK, ConstantsAssumption, IInv
<1>2. CASE fssInit(a)
  <2>1. /\ ~inited /\ inited' = TRUE /\ thrdFlag' = TRUE
        /\ worker' = [NoWorker EXCEPT !.pc = "idle"] /\ call[a].op = "none"
        /\ UNCHANGED <<lock, sess, slot, call, events>>
    BY <1>2 DEF fssInit
  <2>2. worker.pc \in {"none", "ended"}
    BY <1>1, <2>1 DEF QuietInv
  <2>3. worker' \in WorkerRec /\ worker'.pc = "idle" /\ worker'.due = {}
    BY <2>1 DEF NoWorker, WorkerRec
  <2>4. call[a].pc = "tested" /\ CallOK(a)'
    BY <1>1, <2>1 DEF CallOK
  <2> QED
    BY <1>1, <2>1, <2>2, <2>3, <2>4, AppOnly
<1>3. ASSUME NEW op \in {"listen", "connect", "deinit"}, NEW n \in 0 .. MaxIp,
             NEW h \in Sessions \cup {"nobody"},
             Calling(a, op, h, n), call[a].op = "none", inited,
             op # "deinit" => h \in Sessions /\ sess[h].st = "NONE",
             UNCHANGED <<inited, worker, lock, sess, slot, events>>, thrdFlag' \in BOOLEAN
      PROVE  IInv'
  <2>1. call' = [call EXCEPT ![a] = [op |-> op, pc |-> "tested", h |-> h, n |-> n, i |-> 0]]
    BY <1>3 DEF Calling
  <2>2. 0 \in 0 .. MaxIp
    BY <1>1
  <2>3. /\ call' \in [Apps -> CallRec] /\ call'[a].op = op /\ call'[a].pc = "tested"
        /\ call'[a].h = h /\ call'[a].i = 0
    BY <1>1, <2>1, <2>2 DEF CallRec
  <2>4. CallOK(a)'
    BY <1>3, <2>3 DEF CallOK
  <2>5. call[a].pc = "tested"
    BY <1>1, <1>3 DEF CallOK
  <2> QED
    BY <1>1, <1>3, <2>3, <2>4, <2>5, AppOnly
<1>4. CASE fssDeinitFlag(a)
  <2>1. /\ call[a].op = "none" /\ inited /\ thrdFlag' \in BOOLEAN
        /\ Calling(a, "deinit", "nobody", 0)
        /\ UNCHANGED <<inited, worker, lock, sess, slot, events>>
    BY <1>4 DEF fssDeinitFlag
  <2>2. 0 \in 0 .. MaxIp
    BY <1>1
  <2> QED
    BY <1>3, <2>1, <2>2
<1>5. ASSUME NEW h \in Sessions, NEW op \in {"listen", "connect"}, NEW n \in 0 .. MaxIp,
             fssTest(a, op, h, n)
      PROVE  IInv'
  BY <1>1, <1>3, <1>5 DEF fssTest, AppVars
<1>6. 0 \in 0 .. MaxIp /\ \A n \in 1 .. MaxIp : n \in 0 .. MaxIp
  BY <1>1
<1> QED
  BY <1>2, <1>4, <1>5, <1>6

(* fssDeinit leaves nothing. *)
LEMMA StepDeinit ==
  ASSUME IInv, Disciplined, NEW a \in Apps, fssDeinit(a)
  PROVE  IInv'
<1>0. /\ TypeOK /\ LockInv /\ QuietInv /\ TellInv /\ DueInv /\ DescInv
      /\ \A b \in Apps : CallOK(b)
      /\ \A g \in Sessions : LeftOK(g) /\ HistoryOK(g)
  BY DEF IInv
<1>1. /\ call[a].op = "deinit" /\ worker.pc = "ended"
      /\ sess' = [h \in Sessions |-> IF sess[h].life = "live"
                                 THEN [NewSession EXCEPT !.life = "gone"] ELSE sess[h]]
      /\ slot' = [k \in Slots |-> EmptySlot]
      /\ inited' = FALSE /\ Returns(a) /\ UNCHANGED <<thrdFlag, lock, worker, events>>
  BY DEF fssDeinit
<1>2. /\ call' \in [Apps -> CallRec] /\ CallOK(a)' /\ call'[a].pc = "tested"
      /\ call'[a].op = "none" /\ call[a].pc = "tested"
  BY <1>0, <1>1, Returned DEF CallOK
<1>3. (\A b \in Apps : b = a) /\ ~Telling /\ ~Telling'
  BY <1>1 DEF Disciplined, Telling
<1>4. ASSUME NEW h \in Sessions
      PROVE  /\ sess'[h] \in SessRec /\ sess'[h].life # "live" /\ sess'[h].st = "NONE"
             /\ SessOK(h)'
  <2>1. CASE sess[h].life = "live"
    <3> DEFINE r == [NewSession EXCEPT !.life = "gone"]
    <3>1. /\ r \in SessRec /\ r.life = "gone" /\ r.st = "NONE" /\ r.listen = NoFd
          /\ r.conn = NoFd /\ r.left = 0 /\ \A i \in 1 .. MaxIp : r.fds[i] = NoFd
      BY NewIsSession, NewFields, Zenon
    <3>2. sess'[h] = r
      BY <1>1, <2>1
    <3> HIDE DEF r
    <3> QED
      BY <3>1, <3>2 DEF SessOK
  <2>2. CASE sess[h].life # "live"
    <3>1. sess'[h] = sess[h] /\ SessOK(h) /\ sess[h] \in SessRec
      BY <1>0, <1>1, <2>2 DEF DescInv, TypeOK
    <3>2. sess[h].st = "NONE"
      BY <2>2, <3>1 DEF SessOK
    <3>3. /\ sess[h].listen = NoFd /\ sess[h].conn = NoFd /\ sess[h].left = 0
          /\ \A i \in 1 .. MaxIp : sess[h].fds[i] = NoFd
      BY <3>1, <3>2 DEF SessOK, Transferring
    <3> QED
      BY <2>2, <3>1, <3>2, <3>3 DEF SessOK
  <2> QED
    BY <2>1, <2>2
<1>5. slot' \in [Slots -> SlotRec] /\ \A k \in Slots : slot'[k] = EmptySlot
  BY <1>1, NewIsSession
<1>6. TypeOK'
  BY <1>0, <1>1, <1>2, <1>4, <1>5 DEF TypeOK
<1>7. LockInv'
  BY <1>0, <1>1, <1>2, <1>3 DEF LockInv
<1>8. QuietInv'
  BY <1>1, <1>2, <1>3, <1>4, <1>5 DEF QuietInv
<1>9. TellInv'
  BY <1>3 DEF TellInv
<1>10. DueInv'
  BY <1>0, <1>1 DEF DueInv, InTimeouts, Telling
<1>11. DescInv'
  BY <1>4, <1>5 DEF DescInv, SlotOK, EmptySlot
<1>12. \A b \in Apps : CallOK(b)'
  BY <1>2, <1>3
<1>13. \A g \in Sessions : LeftOK(g)'
  BY <1>4 DEF LeftOK
<1>14. \A g \in Sessions : HistoryOK(g)'
  BY <1>0, <1>1, <1>4 DEF HistoryOK
<1> QED
  BY <1>6, <1>7, <1>8, <1>9, <1>10, <1>11, <1>12, <1>13, <1>14 DEF IInv

(* The world gives slots news, and lets time pass. *)
LEMMA StepWorld ==
  ASSUME IInv, World,
         sess' \in [Sessions -> SessRec], slot' \in [Slots -> SlotRec],
         \A h \in Sessions :
           /\ sess'[h].st = sess[h].st /\ sess'[h].life = sess[h].life
           /\ sess'[h].listen = sess[h].listen /\ sess'[h].conn = sess[h].conn
           /\ sess'[h].fds = sess[h].fds /\ sess'[h].cnt = sess[h].cnt
           /\ sess'[h].left = sess[h].left,
         \A k \in Slots :
           /\ slot'[k].owner = slot[k].owner /\ slot'[k].kind = slot[k].kind
           /\ \/ slot'[k] = slot[k]
              \/ slot[k].kind = "listening" /\ slot'[k].ready = "accept"
              \/ slot[k].kind = "connecting" /\ slot'[k].ready \in {"connect", "refused"}
              \/ slot[k].kind = "stream" /\ slot'[k].ready \in {"data", "eof"}
  PROVE  IInv'
<1>0. /\ TypeOK /\ LockInv /\ QuietInv /\ TellInv /\ DueInv /\ DescInv
      /\ \A b \in Apps : CallOK(b)
      /\ \A g \in Sessions : LeftOK(g) /\ HistoryOK(g)
  BY DEF IInv
<1>1. /\ inited' = inited /\ thrdFlag' = thrdFlag /\ lock' = lock /\ worker' = worker
      /\ call' = call /\ events' = events
  BY DEF World
<1>2. TypeOK'
  BY <1>0, <1>1 DEF TypeOK
<1>3. LockInv'
  BY <1>0, <1>1 DEF LockInv
<1>4. QuietInv'
  BY <1>0, <1>1 DEF QuietInv, EmptySlot
<1>5. TellInv'
  <2>1. \A h \in Sessions : Recorded(h)' = Recorded(h)
    BY DEF Recorded
  <2> QED
    BY <1>0, <1>1, <2>1 DEF TellInv, Fits, Telling
<1>6. DueInv'
  BY <1>0, <1>1, SMTT(30) DEF DueInv, InTimeouts, Telling, TypeOK, WorkerRec
<1>7. ASSUME NEW h \in Sessions PROVE SessOK(h)'
  <2>1. \A k \in Slots, kind \in {"listening", "stream", "connecting"} :
           Holds(h, k, kind) => Holds(h, k, kind)'
    BY DEF Holds
  <2>2. SessOK(h)
    BY <1>0 DEF DescInv
  <2>3. /\ sess[h].listen # NoFd => sess[h].listen \in Slots
        /\ sess[h].conn # NoFd => sess[h].conn \in Slots
        /\ \A i \in 1 .. MaxIp : sess[h].fds[i] # NoFd => sess[h].fds[i] \in Slots
    BY <1>0, Fields
  <2> QED
    BY <2>1, <2>2, <2>3 DEF SessOK, Holds
<1>8. ASSUME NEW k \in Slots PROVE SlotOK(k)'
  <2>1. SlotOK(k)
    BY <1>0 DEF DescInv
  <2> QED
    BY <2>1 DEF SlotOK
<1>9. DescInv'
  BY <1>7, <1>8 DEF DescInv
<1>10. \A b \in Apps : CallOK(b)'
  <2> SUFFICES ASSUME NEW b \in Apps PROVE CallOK(b)'
    OBVIOUS
  <2>1. CallOK(b) /\ call[b].op \in {"none", "listen", "connect", "destroy", "deinit"}
    BY <1>0 DEF TypeOK, CallRec
  <2> QED
    BY <1>1, <2>1 DEF CallOK
<1>11. \A g \in Sessions : LeftOK(g)'
  <2>1. \A g \in Sessions : Tried(g)' = Tried(g)
    BY DEF Tried
  <2> QED
    BY <1>0, <1>1, <2>1 DEF LeftOK
<1>12. \A g \in Sessions : HistoryOK(g)'
  BY <1>0, <1>1 DEF HistoryOK, Ending, Telling
<1> QED
  BY <1>2, <1>3, <1>4, <1>5, <1>6, <1>9, <1>10, <1>11, <1>12 DEF IInv

(* A descriptor has news. *)
LEMMA StepHappens ==
  ASSUME IInv, NEW k \in Slots, Happens(k)
  PROVE  IInv'
<1>1. sess \in [Sessions -> SessRec] /\ slot \in [Slots -> SlotRec] /\ slot[k] \in SlotRec
  BY DEF IInv, TypeOK
<1>2. PICK r : /\ \/ slot[k].kind = "listening" /\ r = "accept"
                  \/ slot[k].kind = "connecting" /\ r \in {"connect", "refused"}
                  \/ slot[k].kind = "stream" /\ r \in {"data", "eof"}
               /\ slot' = [slot EXCEPT ![k].ready = r]
               /\ sess' = sess /\ World
  <2>1. slot[k].kind \in {"free", "listening", "connecting", "stream"}
    BY <1>1 DEF SlotRec
  <2> QED
    BY <2>1 DEF Happens
<1>3. /\ slot' \in [Slots -> SlotRec] /\ slot'[k].ready = r
      /\ slot'[k].owner = slot[k].owner /\ slot'[k].kind = slot[k].kind
      /\ \A j \in Slots : j # k => slot'[j] = slot[j]
  BY <1>1, <1>2 DEF SlotRec
<1> QED
  BY <1>1, <1>2, <1>3, StepWorld

(* Time passes for a session. *)
LEMMA StepTimePasses ==
  ASSUME IInv, NEW h \in Sessions, TimePasses(h)
  PROVE  IInv'
<1>1. sess \in [Sessions -> SessRec] /\ slot \in [Slots -> SlotRec]
  BY DEF IInv, TypeOK
<1>2. sess' = [sess EXCEPT ![h].late = TRUE] /\ slot' = slot /\ World
  BY DEF TimePasses
<1>3. sess'[h] \in SessRec
  BY <1>1, <1>2, ZenonT(60) DEF SessRec
<1>4. /\ sess' \in [Sessions -> SessRec]
      /\ \A g \in Sessions :
           /\ sess'[g].st = sess[g].st /\ sess'[g].life = sess[g].life
           /\ sess'[g].listen = sess[g].listen /\ sess'[g].conn = sess[g].conn
           /\ sess'[g].fds = sess[g].fds /\ sess'[g].cnt = sess[g].cnt
           /\ sess'[g].left = sess[g].left
  BY <1>1, <1>2, <1>3 DEF SessRec
<1> QED
  BY <1>1, <1>2, <1>4, StepWorld

(* A step that changes nothing changes nothing of the invariant. *)
LEMMA Unmoved ==
  ASSUME IInv, UNCHANGED vars
  PROVE  IInv'
<1>1. World /\ UNCHANGED <<sess, slot>>
  BY DEF vars, World
<1>2. sess' \in [Sessions -> SessRec] /\ slot' \in [Slots -> SlotRec]
  BY <1>1 DEF IInv, TypeOK
<1> QED
  BY <1>1, <1>2, StepWorld

-----------------------------------------------------------------------------
(* The invariant. *)

(* Before fssInit there is no worker, no session and no open descriptor.    *)
LEMMA InitIInv ==
  ASSUME Init
  PROVE  IInv
<1>1. /\ inited = FALSE /\ thrdFlag = FALSE /\ lock = "free" /\ worker = NoWorker
      /\ call = [a \in Apps |-> NoCall] /\ events = [h \in Sessions |-> <<>>]
      /\ slot = [k \in Slots |-> EmptySlot]
      /\ sess = [h \in Sessions |-> [NewSession EXCEPT !.life = "none"]]
  BY DEF Init
<1>2. \A h \in Sessions :
        /\ sess[h] \in SessRec /\ sess[h].life = "none" /\ sess[h].st = "NONE"
        /\ sess[h].listen = NoFd /\ sess[h].conn = NoFd /\ sess[h].left = 0
        /\ \A i \in 1 .. MaxIp : sess[h].fds[i] = NoFd
  <2> SUFFICES ASSUME NEW h \in Sessions
               PROVE  /\ sess[h] \in SessRec /\ sess[h].life = "none" /\ sess[h].st = "NONE"
                      /\ sess[h].listen = NoFd /\ sess[h].conn = NoFd /\ sess[h].left = 0
                      /\ \A i \in 1 .. MaxIp : sess[h].fds[i] = NoFd
    OBVIOUS
  <2> DEFINE r == [NewSession EXCEPT !.life = "none"]
  <2>1. /\ r \in SessRec /\ r.life = "none" /\ r.st = "NONE" /\ r.listen = NoFd
        /\ r.conn = NoFd /\ r.left = 0 /\ \A i \in 1 .. MaxIp : r.fds[i] = NoFd
    BY NewIsSession, NewFields, Zenon
  <2>2. sess[h] = r
    BY <1>1
  <2> HIDE DEF r
  <2> QED
    BY <2>1, <2>2
<1>3. TypeOK
  <2>1. sess \in [Sessions -> SessRec]
    BY <1>1, <1>2
  <2>2. slot \in [Slots -> SlotRec]
    BY <1>1, NewIsSession
  <2>3. worker \in WorkerRec
    BY <1>1 DEF NoWorker, WorkerRec
  <2>4. call \in [Apps -> CallRec]
    <3>1. 0 \in 0 .. MaxIp
      BY ConstantsAssumption DEF ConstantsAssumption
    <3>2. NoCall \in CallRec
      BY <3>1 DEF NoCall, CallRec
    <3> QED
      BY <1>1, <3>2
  <2>5. events \in [Sessions -> Seq(EventNames)]
    BY <1>1
  <2> QED
    BY <1>1, <2>1, <2>2, <2>3, <2>4, <2>5 DEF TypeOK
<1>4. \A a \in Apps : call[a].pc = "tested" /\ call[a].op = "none"
  BY <1>1 DEF NoCall
<1>5. worker.pc = "none" /\ worker.due = {}
  BY <1>1 DEF NoWorker
<1>6. LockInv
  BY <1>1, <1>4, <1>5, ConstantsAssumption DEF LockInv, ConstantsAssumption
<1>7. QuietInv
  BY <1>1, <1>2, <1>4, <1>5 DEF QuietInv
<1>8. TellInv /\ DueInv
  BY <1>5 DEF TellInv, DueInv, Telling
<1>9. DescInv
  <2>1. \A k \in Slots : slot[k] = EmptySlot
    BY <1>1
  <2>2. \A k \in Slots : SlotOK(k)
    BY <2>1 DEF SlotOK, EmptySlot
  <2>3. \A h \in Sessions : SessOK(h)
    BY <1>2 DEF SessOK
  <2> QED
    BY <2>2, <2>3 DEF DescInv
<1>10. \A a \in Apps : CallOK(a)
  BY <1>4 DEF CallOK
<1>11. \A h \in Sessions : LeftOK(h) /\ HistoryOK(h)
  <2>1. GoodHistory(<<>>)
    BY DEF GoodHistory
  <2>2. \A h \in Sessions : events[h] = <<>>
    BY <1>1
  <2> QED
    BY <1>2, <2>1, <2>2 DEF LeftOK, HistoryOK
<1> QED
  BY <1>3, <1>6, <1>7, <1>8, <1>9, <1>10, <1>11 DEF IInv

(* Every step of every thread keeps the invariant. *)
LEMMA NextIInv ==
  ASSUME IInv, Disciplined, [Next]_vars
  PROVE  IInv'
<1>1. CASE WorkerStep
  <2>1. CASE Select \/ WalkEnd \/ CheckTimeoutBegin \/ CheckTimeoutEnd
    BY <2>1, StepSelect
  <2>2. CASE OnSocketEvent_
    <3>1. PICK k \in Slots, h \in Sessions :
            \/ OnAccept(k, h) \/ OnConnect(k, h) \/ OnHandshake(k, h)
            \/ OnTransfer(k, h) \/ OnClose(k, h)
      BY <2>2 DEF OnSocketEvent_
    <3> QED
      BY <3>1, StepOnAccept, StepOnConnect, StepOnHandshake, StepOnTransfer, StepOnClose
  <2>3. CASE \E h \in Sessions : CheckTimeout(h)
    BY <2>3, StepCheckTimeout
  <2>4. CASE Callback
    BY <2>4, StepCallback
  <2>5. CASE ReturnFromCallback
    BY <2>5, StepReturnFromCallback
  <2>6. CASE GoOn
    BY <2>6, StepGoOn
  <2> QED
    BY <1>1, <2>1, <2>2, <2>3, <2>4, <2>5, <2>6 DEF WorkerStep
<1>2. ASSUME NEW a \in Apps, AppStep(a) PROVE IInv'
  <2>1. CASE fssListenLock(a)
    <3>1. PICK h \in Sessions : h = call[a].h
      <4>1. CallOK(a) /\ call[a].op = "listen"
        BY <2>1, CallFacts DEF fssListenLock, In
      <4> QED
        BY <4>1 DEF CallOK
    <3> QED
      BY <2>1, <3>1, StepAppLock
  <2>2. CASE fssListen(a)
    BY <2>2, StepListen
  <2>3. CASE fssConnectLock(a)
    BY <2>3, StepConnectLock
  <2>4. CASE fssConnectNext(a)
    BY <2>4, StepConnectNext
  <2>5. CASE fssConnectFail(a)
    BY <2>5, StepConnectFail
  <2>6. CASE fssConnect(a)
    BY <2>6, StepConnect
  <2>7. CASE fssDestroySession(a)
    BY <2>7, StepDestroySession
  <2>8. CASE fssDeinit(a)
    BY <2>8, StepDeinit
  <2> QED
    BY <1>2, <2>1, <2>2, <2>3, <2>4, <2>5, <2>6, <2>7, <2>8 DEF AppStep
<1>3. ASSUME NEW a \in Apps, NewCall(a) PROVE IInv'
  <2>1. CASE \/ fssInit(a) \/ fssDeinitFlag(a)
             \/ \E h \in Sessions : \/ fssTest(a, "listen", h, 0)
                                    \/ \E n \in 1 .. MaxIp : fssTest(a, "connect", h, n)
    BY <2>1, StepAppOnly
  <2>2. CASE \E h \in Sessions : fssCreateSession(a, h)
    BY <2>2, StepCreate
  <2>3. CASE \E h \in Sessions : fssDestroyLock(a, h)
    BY <2>3, StepAppLock
  <2>4. CASE \E h \in Sessions : fssCloseListen(a, h)
    BY <2>4, StepCloseListen
  <2> QED
    BY <1>3, <2>1, <2>2, <2>3, <2>4 DEF NewCall
<1>4. CASE \E k \in Slots : Happens(k)
  BY <1>4, StepHappens
<1>5. CASE \E h \in Sessions : TimePasses(h)
  BY <1>5, StepTimePasses
<1>6. CASE UNCHANGED vars
  BY <1>6, Unmoved
<1> QED
  BY <1>1, <1>2, <1>3, <1>4, <1>5, <1>6 DEF Next

-----------------------------------------------------------------------------
(* What the invariant says of the properties. *)

(* The records and the table agree: no leak, and nothing dangles. *)
LEMMA FdsAre ==
  ASSUME IInv
  PROVE  FdsAccurate
<1>1. TypeOK /\ DescInv
  BY DEF IInv
<1>2. ASSUME NEW k \in Slots, slot[k].kind # "free"
      PROVE  sess[slot[k].owner].life = "live" /\ k \in Recorded(slot[k].owner)
  <2>1. PICK h \in Sessions : h = slot[k].owner
    BY <1>1, <1>2 DEF DescInv, SlotOK
  <2>2. k \in Recorded(h)
    BY <1>1, <1>2, <2>1, RecordedIsOwned
  <2>3. sess[h].st # "NONE"
    BY <1>1, <1>2, <2>1, OwnSlots DEF Transferring
  <2>4. sess[h].life = "live"
    BY <1>1, <2>3, BusyIsLive
  <2> QED
    BY <2>1, <2>2, <2>4
<1>3. ASSUME NEW h \in Sessions, NEW k \in Recorded(h)
      PROVE  slot[k].owner = h
  BY <1>1, RecordedIsOwned
<1> QED
  BY <1>2, <1>3 DEF FdsAccurate

(* A session that is told of its failure owns no slot. *)
LEMMA NoneLeft ==
  ASSUME IInv
  PROVE  FailedMeansAll
<1> SUFFICES ASSUME worker.pc = "callback", worker.event = "failed", NEW k \in Slots,
                    slot[k].owner = worker.who
             PROVE  FALSE
  BY DEF FailedMeansAll
<1>1. Telling
  BY DEF Telling
<1>2. PICK h \in Sessions : h = worker.who
  BY <1>1, TellingFacts
<1>3. TypeOK /\ DescInv /\ Recorded(h) = {}
  BY <1>1, <1>2, TellingFacts DEF Fits
<1>4. slot[k].kind = "free"
  BY <1>2, <1>3, RecordedIsOwned
<1>5. slot[k].owner = "nobody"
  BY <1>3, <1>4 DEF DescInv, SlotOK, EmptySlot
<1> QED
  BY <1>2, <1>5, ConstantsAssumption DEF ConstantsAssumption

(* What a handler finds is what its asserts ask for. *)
LEMMA AssertsAre ==
  ASSUME IInv
  PROVE  EventAssertsHold
<1> SUFFICES ASSUME NEW k \in Slots, NEW h \in Sessions,
                    NEW r \in {"connect", "refused", "data", "eof"},
                    Handles(k, h, slot[k].kind, r)
             PROVE  /\ r = "connect" => sess[h].st = "CONNECTING"
                    /\ r \in {"refused", "eof"} => sess[h].st \notin {"NONE", "LISTEN"}
                    /\ r = "refused" => sess[h].st = "CONNECTING" /\ sess[h].left > 0
                    /\ r \in {"data", "eof"} => sess[h].conn = k
  BY DEF EventAssertsHold
<1>1. slot[k].ready = r /\ slot[k].owner = h
  BY DEF Handles
<1>2. TypeOK /\ DescInv /\ SlotOK(k)
  BY DEF IInv, DescInv
<1>3. slot[k].kind # "free"
  BY <1>1, <1>2 DEF SlotOK, EmptySlot
<1>4. sess[h].st = "CONNECTING" => sess[h].left = Cardinality(Tried(h))
  BY <1>3, HandlerFacts
<1>5. \/ /\ slot[k].kind = "stream" /\ sess[h].st \in Transferring /\ sess[h].conn = k
         /\ r \in {"data", "eof"}
      \/ /\ slot[k].kind = "connecting" /\ sess[h].st = "CONNECTING"
         /\ r \in {"connect", "refused"} /\ \E i \in 1 .. MaxIp : sess[h].fds[i] = k
  BY <1>1, <1>2, <1>3, OwnSlots DEF SlotOK
<1>6. CASE slot[k].kind = "stream" /\ sess[h].st \in Transferring /\ sess[h].conn = k
           /\ r \in {"data", "eof"}
  BY <1>6 DEF Transferring
<1>7. CASE /\ slot[k].kind = "connecting" /\ sess[h].st = "CONNECTING"
           /\ r \in {"connect", "refused"} /\ \E i \in 1 .. MaxIp : sess[h].fds[i] = k
  <2>1. PICK i \in 1 .. MaxIp : sess[h].fds[i] = k
    BY <1>7
  <2>2. i \in Tried(h)
    BY <2>1, NoFdIsNoSlot DEF Tried
  <2>3. Cardinality(Tried(h)) \in Nat /\ Cardinality(Tried(h)) # 0
    BY <2>2, TriedFinite
  <2>4. sess[h].left > 0
    BY <1>4, <1>7, <2>3
  <2> QED
    BY <1>7, <2>4
<1> QED
  BY <1>5, <1>6, <1>7

(* A good history has one outcome. *)
LEMMA OneOutcomeIs ==
  ASSUME IInv
  PROVE  OneOutcome
BY DEF IInv, HistoryOK, GoodHistory, OneOutcome

(* With no worker and no call there is nobody to hold s_fss_lock. *)
LEMMA NothingIsLeft ==
  ASSUME IInv
  PROVE  DeinitReleases
<1> SUFFICES ASSUME ~inited
             PROVE  /\ worker.pc \in {"none", "ended"} /\ lock = "free"
                    /\ \A h \in Sessions : sess[h].life # "live"
                    /\ \A k \in Slots : slot[k] = EmptySlot
  BY DEF DeinitReleases
<1>1. TypeOK /\ LockInv /\ QuietInv
  BY DEF IInv
<1>2. /\ worker.pc \in {"none", "ended"}
      /\ \A a \in Apps : call[a].op = "none"
      /\ \A h \in Sessions : sess[h].life # "live"
      /\ \A k \in Slots : slot[k] = EmptySlot
  BY <1>1 DEF QuietInv
<1>3. lock # "worker"
  BY <1>1, <1>2 DEF LockInv
<1>4. ASSUME NEW a \in Apps PROVE lock # a
  <2>1. CallOK(a)
    BY DEF IInv
  <2>2. call[a].pc = "tested"
    BY <1>2, <2>1 DEF CallOK
  <2> QED
    BY <1>1, <2>2 DEF LockInv
<1>5. lock = "free"
  BY <1>1, <1>3, <1>4 DEF TypeOK
<1> QED
  BY <1>2, <1>5

-----------------------------------------------------------------------------
(* The theorems. *)

(* The sessions, their descriptors, the lock and the calls agree in every   *)
(* state that fssThread_ and a disciplined application can reach, with any  *)
(* number of sessions, slots and addresses.                                 *)
THEOREM SessionInvariant ==
  ASSUME Disciplined
  PROVE  Spec => []IInv
<1>1. Init => IInv
  BY InitIInv
<1>2. IInv /\ [Next]_vars => IInv'
  BY NextIInv
<1> QED
  BY <1>1, <1>2, PTL DEF Spec

(* The handlers of OnSocketEvent_, CheckTimeout_ and the fss functions keep *)
(* every variable in its type: dwConnectingLeftCnt never falls below 0, and *)
(* no descriptor on record is outside the node.                             *)
THEOREM SessionTypeCorrect ==
  ASSUME Disciplined
  PROVE  Spec => []TypeOK
<1>1. IInv => TypeOK
  BY DEF IInv
<1> QED
  BY <1>1, SessionInvariant, PTL

(* Between the sessions and the selix node nothing leaks and nothing        *)
(* dangles: accept, the race of the addresses, a failed fssConnect, a       *)
(* time-out, a destroy in the callback and fssDeinit keep the table and the *)
(* records of TFileShareSesion in agreement.                                *)
THEOREM SessionFdsAccurate ==
  ASSUME Disciplined
  PROVE  Spec => []FdsAccurate
<1>1. IInv => FdsAccurate
  BY FdsAre
<1> QED
  BY <1>1, SessionInvariant, PTL

(* FSS_ON_FAILED_TO_ESTABLISH_CONNECTION with 0 is told when every address  *)
(* has failed, and not before, in whatever order the kernel answers.        *)
THEOREM SessionFailedMeansAll ==
  ASSUME Disciplined
  PROVE  Spec => []FailedMeansAll
<1>1. IInv => FailedMeansAll
  BY NoneLeft
<1> QED
  BY <1>1, SessionInvariant, PTL

(* The asserts of OnSocketEvent_ about the event it is given (728, 1206,    *)
(* 1207, 1214 and those on fdConnected) hold: what selixSelect reports of a *)
(* descriptor goes with the eState of the session that owns it.  The assert *)
(* on eSubState (923) is not among them: it fails.                          *)
THEOREM SessionEventAssertsHold ==
  ASSUME Disciplined
  PROVE  Spec => []EventAssertsHold
<1>1. IInv => EventAssertsHold
  BY AssertsAre
<1> QED
  BY <1>1, SessionInvariant, PTL

(* Of one attempt pfnOnEvent hears one end at most, and nothing after it.   *)
THEOREM SessionOneOutcome ==
  ASSUME Disciplined
  PROVE  Spec => []OneOutcome
<1>1. IInv => OneOutcome
  BY OneOutcomeIs
<1> QED
  BY <1>1, SessionInvariant, PTL

(* Once fssDeinit has returned there is no worker, no session and no open   *)
(* socket left, and s_fss_lock is free.                                     *)
THEOREM SessionDeinitReleases ==
  ASSUME Disciplined
  PROVE  Spec => []DeinitReleases
<1>1. IInv => DeinitReleases
  BY NothingIsLeft
<1> QED
  BY <1>1, SessionInvariant, PTL

-----------------------------------------------------------------------------
(* Destroying a session in its callback, for any application. *)

(* When a limit or an error has been told, nothing remains to be done.      *)
DoneWith ==
  /\ worker \in WorkerRec
  /\ Telling /\ worker.event \in {"limit", "error"} => worker.after = "nothing"

(* One call of pfnOnEvent: what is told of a session that was cleared is    *)
(* told last.                                                               *)
LEMMA TellLast ==
  ASSUME DoneWith, NEW h \in Sessions \cup {"nobody"}, NEW e \in EventNames,
         NEW after \in {"nothing", "goOn", "setNone", "clear"},
         NEW todo \in SUBSET Slots, NEW back \in {"walk", "timeouts"},
         e \in {"limit", "error"} => after = "nothing",
         Tell(h, e, after, todo, back)
  PROVE  DoneWith'
<1>1. worker' = [worker EXCEPT !.pc = "callback", !.back = back, !.todo = todo,
                               !.who = h, !.event = e, !.after = after,
                               !.due = @ \ {h}]
  BY DEF Tell
<1>2. worker' \in WorkerRec /\ worker'.event = e /\ worker'.after = after
  BY <1>1 DEF DoneWith, WorkerRec
<1> QED
  BY <1>2 DEF DoneWith

(* The same from a handler. *)
LEMMA NotifyLast ==
  ASSUME DoneWith, NEW k \in Slots, NEW h \in Sessions, NEW e \in EventNames,
         NEW after \in {"nothing", "goOn", "setNone", "clear"},
         e \in {"limit", "error"} => after = "nothing",
         Notify(k, h, e, after)
  PROVE  DoneWith'
<1>1. {j \in worker.todo \ {k} : slot'[j] = slot[j]} \in SUBSET Slots
  BY DEF DoneWith, WorkerRec
<1> QED
  BY <1>1, TellLast DEF Notify

(* A step after which the worker is in no callback. *)
LEMMA NotTelling ==
  ASSUME DoneWith, worker' \in WorkerRec, worker'.pc \notin {"callback", "return"}
  PROVE  DoneWith'
BY DEF DoneWith, Telling

(* A handler that returns with no word to the application. *)
LEMMA ContinueLast ==
  ASSUME DoneWith, worker.pc = "walk", NEW k \in Slots, Continue(k)
  PROVE  DoneWith'
<1>1. worker' = [worker EXCEPT !.todo = {j \in worker.todo \ {k} : slot'[j] = slot[j]}]
  BY DEF Continue, DoneWith, WorkerRec
<1>2. worker' \in WorkerRec /\ worker'.pc = "walk"
  BY <1>1 DEF DoneWith, WorkerRec
<1> QED
  BY <1>2, NotTelling

(* The handlers of OnSocketEvent_: an error is told when the session has    *)
(* been cleared, the end of a connection before.                            *)
LEMMA HandlersLast ==
  ASSUME DoneWith, OnSocketEvent_
  PROVE  DoneWith'
<1>0. PICK k \in Slots, h \in Sessions :
        \/ OnAccept(k, h) \/ OnConnect(k, h) \/ OnHandshake(k, h)
        \/ OnTransfer(k, h) \/ OnClose(k, h)
  BY DEF OnSocketEvent_
<1>1. worker.pc = "walk"
  BY <1>0 DEF OnAccept, OnConnect, OnHandshake, OnTransfer, OnClose, Handles
<1>2. ASSUME Continue(k) PROVE DoneWith'
  BY <1>1, <1>2, ContinueLast
<1>3. ASSUME NEW e \in EventNames, NEW after \in {"nothing", "goOn", "setNone", "clear"},
             e \in {"limit", "error"} => after = "nothing", Notify(k, h, e, after)
      PROVE  DoneWith'
  BY <1>3, NotifyLast
<1>4. {"limit", "error", "start", "progress", "complete", "failed", "closed"}
        \subseteq EventNames
  BY DEF EventNames
<1>5. CASE OnAccept(k, h)
  <2>1. Continue(k) \/ Notify(k, h, "limit", "nothing")
    BY <1>5 DEF OnAccept
  <2> QED
    BY <1>2, <1>3, <1>4, <2>1
<1>6. CASE OnConnect(k, h)
  <2>1. Continue(k) \/ Notify(k, h, "error", "nothing")
    BY <1>6 DEF OnConnect
  <2> QED
    BY <1>2, <1>3, <1>4, <2>1
<1>7. CASE OnHandshake(k, h)
  <2>1. \/ Continue(k) \/ Notify(k, h, "error", "nothing")
        \/ Notify(k, h, "start", "goOn")
    BY <1>7 DEF OnHandshake
  <2> QED
    BY <1>2, <1>3, <1>4, <2>1
<1>8. CASE OnTransfer(k, h)
  <2>1. \/ Continue(k) \/ Notify(k, h, "error", "nothing")
        \/ Notify(k, h, "progress", IF h \in Senders THEN "goOn" ELSE "nothing")
        \/ Notify(k, h, "complete", "clear")
    BY <1>8 DEF OnTransfer
  <2>2. (IF h \in Senders THEN "goOn" ELSE "nothing") \in {"goOn", "nothing"}
    OBVIOUS
  <2> QED
    BY <1>2, <1>3, <1>4, <2>1, <2>2
<1>9. CASE OnClose(k, h)
  <2>1. \/ Continue(k) \/ Notify(k, h, "failed", "setNone")
        \/ Notify(k, h, "closed", "setNone")
    BY <1>9, Zenon DEF OnClose
  <2> QED
    BY <1>2, <1>3, <1>4, <2>1
<1> QED
  BY <1>0, <1>5, <1>6, <1>7, <1>8, <1>9

(* What follows a callback. *)
LEMMA AfterLast ==
  ASSUME DoneWith, ReturnFromCallback \/ GoOn
  PROVE  DoneWith'
<1>1. worker.pc = "return" /\ worker \in WorkerRec
  BY DEF ReturnFromCallback, GoOn, DoneWith
<1>2. CASE Resumed
  <2>1. worker' = [worker EXCEPT !.pc = worker.back, !.who = "nobody",
                     !.event = "none", !.after = "nothing",
                     !.todo = {k \in worker.todo : slot'[k] = slot[k]}]
    BY <1>1, <1>2 DEF Resumed, WorkerRec
  <2>2. worker' \in WorkerRec /\ worker'.pc \in {"walk", "timeouts"}
    BY <1>1, <2>1 DEF WorkerRec
  <2> QED
    BY <2>2, NotTelling
<1>3. CASE GoOn /\ ~Resumed
  <2>1. worker.after = "goOn" /\ worker.todo \in SUBSET Slots
    BY <1>1, <1>3 DEF GoOn, WorkerRec
  <2>2. worker.event \notin {"limit", "error"}
    BY <1>1, <2>1 DEF DoneWith, Telling
  <2>3. PICK h \in Sessions \cup {"nobody"} : h = worker.who
    BY <1>1 DEF WorkerRec
  <2>4. \/ Tell(h, "error", "nothing", {j \in worker.todo : slot'[j] = slot[j]}, "walk")
        \/ Tell(h, "progress", IF h \in Senders THEN "goOn" ELSE "nothing",
                worker.todo, "walk")
        \/ Tell(h, "complete", "clear", worker.todo, "walk")
    BY <1>3, <2>3 DEF GoOn
  <2>5. {j \in worker.todo : slot'[j] = slot[j]} \in SUBSET Slots
        /\ (IF h \in Senders THEN "goOn" ELSE "nothing") \in {"goOn", "nothing"}
    BY <2>1
  <2>6. {"error", "progress", "complete"} \subseteq EventNames
    BY DEF EventNames
  <2> QED
    BY <2>1, <2>4, <2>5, <2>6, TellLast
<1> QED
  BY <1>2, <1>3 DEF ReturnFromCallback

(* Every other step of the worker leaves no callback under way. *)
LEMMA WorkerLast ==
  ASSUME DoneWith, WorkerStep
  PROVE  DoneWith'
<1>0. worker \in WorkerRec
  BY DEF DoneWith
<1>1. CASE Select
  <2>1. worker' \in WorkerRec /\ worker'.pc \in {"walk", "ended"}
    BY <1>0, <1>1 DEF Select, WorkerRec
  <2> QED
    BY <2>1, NotTelling
<1>2. CASE WalkEnd \/ CheckTimeoutEnd
  <2>1. worker' \in WorkerRec /\ worker'.pc \in {"check", "idle"}
    BY <1>0, <1>2 DEF WalkEnd, CheckTimeoutEnd, WorkerRec
  <2> QED
    BY <2>1, NotTelling
<1>3. CASE CheckTimeoutBegin
  <2>1. worker' \in WorkerRec /\ worker'.pc = "timeouts"
    BY <1>0, <1>3 DEF CheckTimeoutBegin, WorkerRec
  <2> QED
    BY <2>1, NotTelling
<1>4. CASE OnSocketEvent_
  BY <1>4, HandlersLast
<1>5. ASSUME NEW h \in Sessions, CheckTimeout(h) PROVE DoneWith'
  <2>1. Tell(h, "closed", "clear", {}, "timeouts")
    BY <1>5 DEF CheckTimeout
  <2>2. "closed" \in EventNames /\ {} \in SUBSET Slots
    BY DEF EventNames
  <2> QED
    BY <2>1, <2>2, TellLast
<1>6. CASE Callback
  <2>1. worker' = [worker EXCEPT !.pc = "return",
                     !.todo = {k \in worker.todo : slot'[k] = slot[k]}]
    BY <1>0, <1>6 DEF Callback, WorkerRec
  <2>2. /\ worker' \in WorkerRec
        /\ worker'.event = worker.event /\ worker'.after = worker.after
    BY <1>0, <2>1 DEF WorkerRec
  <2>3. Telling
    BY <1>6 DEF Callback, Telling
  <2> QED
    BY <2>2, <2>3 DEF DoneWith
<1>7. CASE ReturnFromCallback \/ GoOn
  BY <1>7, AfterLast
<1> QED
  BY <1>1, <1>2, <1>3, <1>4, <1>5, <1>6, <1>7 DEF WorkerStep

(* Only the worker works, but for fssInit, which starts it.                 *)
LEMMA NextLast ==
  ASSUME DoneWith, [Next]_vars
  PROVE  DoneWith'
<1>1. CASE WorkerStep
  BY <1>1, WorkerLast
<1>2. ASSUME NEW a \in Apps, fssInit(a) PROVE DoneWith'
  <2>1. worker' = [NoWorker EXCEPT !.pc = "idle"]
    BY <1>2 DEF fssInit
  <2>2. worker' \in WorkerRec /\ worker'.pc = "idle"
    BY <2>1 DEF NoWorker, WorkerRec
  <2> QED
    BY <2>2, NotTelling
<1>3. CASE UNCHANGED worker
  BY <1>3 DEF DoneWith, Telling
<1>4. ASSUME NEW a \in Apps, AppStep(a) PROVE UNCHANGED worker
  BY <1>4 DEF AppStep, AppVars, fssListenLock, fssListen, fssConnectLock,
              fssConnectNext, fssConnectFail, fssConnect, fssDestroySession, fssDeinit
<1>5. ASSUME NEW a \in Apps, NewCall(a), ~fssInit(a) PROVE UNCHANGED worker
  BY <1>5 DEF NewCall, AppVars, fssDeinitFlag, fssCreateSession, fssDestroyLock,
              fssCloseListen, fssTest
<1>6. ASSUME \/ \E k \in Slots : Happens(k)
             \/ \E h \in Sessions : TimePasses(h)
             \/ UNCHANGED vars
      PROVE  UNCHANGED worker
  BY <1>6 DEF Happens, TimePasses, World, vars
<1> QED
  BY <1>1, <1>2, <1>3, <1>4, <1>5, <1>6 DEF Next

(* Whatever the callbacks of the application do, and with any number of     *)
(* threads, OnSocketEvent_ does nothing more with a session once it was     *)
(* told of FSS_ERROR_SOCKET_LIMIT or of an error other than                 *)
(* FSS_ERROR_CONNECTION_CLOSED: a callback may destroy it there.            *)
THEOREM SessionClearedBeforeTold == Spec => []ClearedBeforeTold
<1>1. Init => DoneWith
  BY DEF Init, NoWorker, WorkerRec, DoneWith, Telling
<1>2. DoneWith /\ [Next]_vars => DoneWith'
  BY NextLast
<1>3. DoneWith => ClearedBeforeTold
  BY DEF DoneWith, ClearedBeforeTold, Telling
<1> QED
  BY <1>1, <1>2, <1>3, PTL DEF Spec

=============================================================================
