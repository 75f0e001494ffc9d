---------------------------- MODULE FileTransfer ----------------------------
(***************************************************************************)
(* One transfer of src/Common/FileShare/fileshare.cpp, between two         *)
(* sessions joined by a TCP connection: the callback OnSocketEvent_ of     *)
(* each side from the validation of the peer to FSS_ON_COMPLETE, with      *)
(* SendData_ and RecvData_, which keep a partly sent or partly received    *)
(* block between two events.                                               *)
(*                                                                         *)
(* One step is one call of lixTcpSend or lixTcpRecv in the handler, so     *)
(* bytes arrive between any two of them.  A handler runs only when there   *)
(* is something to read: nothing calls SendData_ when the socket becomes   *)
(* writable.                                                               *)
(*                                                                         *)
(* Abstractions, by name: a unit of a channel is a byte of the stream or a *)
(* whole message of a few bytes (the code keeps their pieces in pDataBuf   *)
(* until they are complete); the validation strings of the two sides       *)
(* match; SureSend_, which sleeps and tries again, is a step that waits    *)
(* for room.  A stream is a sequence of kinds: WriteFileStream counts the  *)
(* content of files as written and the structure of folders not.           *)
(***************************************************************************)
EXTENDS Integers, Sequences, FiniteSets

CONSTANTS
  Stream,    (* the sender's stream: a sequence of "content" and "folder"   *)
  MaxBlock,  (* the most that one ReadFileStream of SendData_ returns       *)
  BufSize,   (* the size of buf in RecvData_                                *)
  Cap,       (* how many units a connection holds, each way                 *)
  Faults     (* subset of {"break", "timeout", "stream"}                    *)

ASSUME TransferAssumption ==
  /\ Stream \in Seq({"content", "folder"})
  /\ MaxBlock \in Nat \ {0} /\ BufSize \in Nat \ {0}
  /\ Cap \in Nat /\ Cap > 2
  /\ Faults \subseteq {"break", "timeout", "stream"}

Ends == {"snd", "rcv"}
Peer(e) == IF e = "snd" THEN "rcv" ELSE "snd"

VARIABLES
  st,       (* eState: connected, connect, established, none                *)
  pc,       (* where a side's handler is; idle                              *)
  wire,     (* wire[e]: what e sent and has not arrived                     *)
  inbox,    (* inbox[e]: what has arrived at e and was not read             *)
  up,       (* is the connection unbroken?                                  *)
  rpos,     (* the sender: the position of its stream                       *)
  gotPos,   (* bReceivedPos                                                 *)
  sendBuf,  (* pSendBuf                                                     *)
  sendDone, (* bSendComplete                                                *)
  expect,   (* the receiver: dwExpectSize; 0 in SUB_STATE_NONE              *)
  chunks,   (* RecvData_: what is left of dwCnt, and dwResidue              *)
  cnt,      (* dwWriteCnt                                                   *)
  written,  (* the receiver's stream                                        *)
  base,     (* history: how much of it the receiver had at the start *)
  progress, (* dwProgress of both sides                                     *)
  told,     (* the last event of both sides, progress left out              *)
  why       (* the error code told with FSS_ON_ERROR                        *)

snd == <<rpos, gotPos, sendBuf, sendDone>>
rcv == <<expect, chunks, cnt, written, base>>
net == <<wire, inbox, up>>
user == <<told, why>>
vars == <<st, pc, net, snd, rcv, progress, user>>

Msg(t, v) == [t |-> t, v |-> v]
Byte(i) == Msg("byte", i)
Smaller(a, b) == IF a <= b THEN a ELSE b
Room(e) == Cap - Len(wire[e]) - Len(inbox[Peer(e)])

(* e sends s: what is sent on a broken connection is lost. *)
Send(e, s) == wire' = IF up THEN [wire EXCEPT ![e] = @ \o s] ELSE wire

Read(e, n) == inbox' = [inbox EXCEPT ![e] = SubSeq(@, n + 1, Len(@))]

Tell(e, what) == told' = [told EXCEPT ![e] = what]
Goto(e, l) == pc' = [pc EXCEPT ![e] = l]

(* The receiver may have a part of the stream from an earlier session.  The *)
(* side whose liEvConnect comes has sent its validation string.             *)
Init ==
  /\ \E c \in Ends :
       /\ st = [e \in Ends |-> IF e = c THEN "connect" ELSE "connected"]
       /\ wire = [e \in Ends |-> IF e = c THEN <<Msg("validation", 0)>> ELSE <<>>]
  /\ pc = [e \in Ends |-> "idle"] /\ inbox = [e \in Ends |-> <<>>] /\ up = TRUE
  /\ rpos = 0 /\ gotPos = FALSE /\ sendBuf = <<>> /\ sendDone = FALSE
  /\ expect = 0 /\ chunks = <<0, 0>> /\ cnt = 0
  /\ \E n \in 0 .. Len(Stream) : written = [i \in 1 .. n |-> i] /\ base = n
  /\ progress = [e \in Ends |-> 0]
  /\ told = [e \in Ends |-> "nothing"] /\ why = [e \in Ends |-> "none"]

-----------------------------------------------------------------------------
(* Clear closes the descriptor.  A connection closed with an error is       *)
(* reset: what is on its way may be lost.                                   *)
Fail(e, code) ==
  /\ st' = [st EXCEPT ![e] = "none"] /\ Goto(e, "idle")
  /\ Tell(e, "error") /\ why' = [why EXCEPT ![e] = code]
  /\ up' = FALSE /\ wire' = [f \in Ends |-> <<>>]
  /\ inbox' \in {[inbox EXCEPT ![e] = <<>>], [f \in Ends |-> <<>>]}
  /\ UNCHANGED <<snd, rcv, progress>>

(* Mutant of OnRead: dwTmp, which counts what one event wrote, is not cleared. *)
OnRead_KeepCount(e) ==
  /\ st[e] # "none" /\ pc[e] = "idle" /\ inbox[e] # <<>>
  /\ Goto(e, IF st[e] = "connected" THEN "validate"
             ELSE IF st[e] = "connect" THEN "ack"
             ELSE IF e = "snd" THEN "read"
             ELSE IF expect = 0 THEN "type" ELSE "block")
  /\ UNCHANGED <<st, net, snd, rcv, progress, user>>

(* liEvRead: there is something to read. *)
OnRead(e) ==
  /\ st[e] # "none" /\ pc[e] = "idle" /\ inbox[e] # <<>>
  /\ Goto(e, IF st[e] = "connected" THEN "validate"
             ELSE IF st[e] = "connect" THEN "ack"
             ELSE IF e = "snd" THEN "read"
             ELSE IF expect = 0 THEN "type" ELSE "block")
  /\ cnt' = IF e = "rcv" THEN 0 ELSE cnt
  /\ UNCHANGED <<st, net, snd, expect, chunks, written, base, progress, user>>

(* The session is established.  The same event goes on: the receiver sends  *)
(* the position of its stream, the sender tries to read that position.      *)
Established(e, s) ==
  /\ inbox[e] # <<>> /\ pc[e] = (IF st[e] = "connected" THEN "validate" ELSE "ack")
  /\ Head(inbox[e]).t = (IF st[e] = "connected" THEN "validation" ELSE "ack")
  /\ st' = [st EXCEPT ![e] = "established"] /\ Tell(e, "start")
  /\ Read(e, 1) /\ UNCHANGED <<up, snd, rcv, progress, why>>
  /\ Send(e, IF e = "rcv" THEN Append(s, Msg("pos", Len(written))) ELSE s)
  /\ Goto(e, IF e = "rcv" THEN "idle" ELSE "read")

(* The connection was reset under the handler: there is nothing to read.    *)
HandshakeNothing(e) ==
  /\ pc[e] \in {"validate", "ack"} /\ inbox[e] = <<>> /\ Goto(e, "idle")
  /\ UNCHANGED <<st, net, snd, rcv, progress, user>>

Validate(e) == st[e] = "connected" /\ Established(e, <<Msg("ack", 0)>>)
Acknowledged(e) == st[e] = "connect" /\ Established(e, <<>>)

-----------------------------------------------------------------------------
(* The sender's part of liEvRead *)

SndPosMissing ==
  /\ pc["snd"] = "read" /\ ~gotPos /\ inbox["snd"] = <<>> /\ Goto("snd", "idle")
  /\ UNCHANGED <<st, net, snd, rcv, progress, user>>

(* Mutant of SndPos: the sender begins at the start of its stream. *)
SndPos_FromStart ==
  /\ pc["snd"] = "read" /\ ~gotPos /\ inbox["snd"] # <<>>
  /\ Head(inbox["snd"]).t = "pos" /\ Read("snd", 1)
  /\ gotPos' = TRUE /\ Goto("snd", "flush")
  /\ UNCHANGED <<st, wire, up, rpos, sendBuf, sendDone, rcv, progress, user>>

SndPos ==
  /\ pc["snd"] = "read" /\ ~gotPos /\ inbox["snd"] # <<>>
  /\ Head(inbox["snd"]).t = "pos" /\ Read("snd", 1)
  /\ rpos' = Head(inbox["snd"]).v /\ gotPos' = TRUE /\ Goto("snd", "flush")
  /\ UNCHANGED <<st, wire, up, sendBuf, sendDone, rcv, progress, user>>

(* All the progress that has arrived is added up. *)
SndProgress ==
  /\ pc["snd"] = "read" /\ gotPos /\ inbox["snd"] # <<>>
  /\ Head(inbox["snd"]).t = "progress" /\ Read("snd", 1)
  /\ progress' = [progress EXCEPT !["snd"] = @ + Head(inbox["snd"]).v]
  /\ UNCHANGED <<st, pc, wire, up, snd, rcv, user>>

(* Mutant of SndReadAll: the break leaves the event, not only the loop. *)
SndReadAll_Break ==
  /\ pc["snd"] = "read" /\ gotPos /\ inbox["snd"] = <<>> /\ Goto("snd", "idle")
  /\ UNCHANGED <<st, net, snd, rcv, progress, user>>

SndReadAll ==
  /\ pc["snd"] = "read" /\ gotPos /\ inbox["snd"] = <<>> /\ Goto("snd", "flush")
  /\ UNCHANGED <<st, net, snd, rcv, progress, user>>

SndComplete ==
  /\ pc["snd"] = "read" /\ gotPos /\ inbox["snd"] # <<>>
  /\ Head(inbox["snd"]).t = "completeAck" /\ Read("snd", 1)
  /\ Tell("snd", "complete") /\ Goto("snd", "idle") /\ st' = [st EXCEPT !["snd"] = "none"]
  /\ UNCHANGED <<wire, up, snd, rcv, progress, why>>

(* SendData_: first what an earlier call could not send. *)
SndFlush ==
  LET n == Smaller(Len(sendBuf), Room("snd"))
      rest == SubSeq(sendBuf, n + 1, Len(sendBuf)) IN
  /\ pc["snd"] = "flush" /\ Send("snd", SubSeq(sendBuf, 1, n)) /\ sendBuf' = rest
  /\ Goto("snd", IF rest # <<>> \/ sendDone THEN "idle" ELSE "fill")
  /\ UNCHANGED <<st, inbox, up, rpos, gotPos, sendDone, rcv, progress, user>>

(* Mutant of SndFill: a short block is taken for the end of the stream.     *)
SndFill_ShortIsLast ==
  LET last == Smaller(rpos + MaxBlock, Len(Stream))
      block == IF last - rpos < MaxBlock THEN <<Msg("complete", 0)>>
               ELSE <<Msg("data", last - rpos)>> \o [i \in 1 .. last - rpos |-> Byte(rpos + i)]
      n == Smaller(Len(block), Room("snd")) IN
  /\ pc["snd"] = "fill" /\ Send("snd", SubSeq(block, 1, n))
  /\ sendBuf' = SubSeq(block, n + 1, Len(block)) /\ rpos' = last
  /\ sendDone' = (last - rpos < MaxBlock)
  /\ Goto("snd", IF sendBuf' # <<>> \/ sendDone' THEN "idle" ELSE "fill")
  /\ UNCHANGED <<st, inbox, up, gotPos, rcv, progress, user>>

(* Then block after block, until the connection takes no more; after the    *)
(* last one the byte that says so.                                          *)
SndFill ==
  LET last == Smaller(rpos + MaxBlock, Len(Stream))
      block == IF last = rpos THEN <<Msg("complete", 0)>>
               ELSE <<Msg("data", last - rpos)>> \o [i \in 1 .. last - rpos |-> Byte(rpos + i)]
      n == Smaller(Len(block), Room("snd")) IN
  /\ pc["snd"] = "fill" /\ Send("snd", SubSeq(block, 1, n))
  /\ sendBuf' = SubSeq(block, n + 1, Len(block)) /\ rpos' = last
  /\ sendDone' = (last = rpos)
  /\ Goto("snd", IF sendBuf' # <<>> \/ sendDone' THEN "idle" ELSE "fill")
  /\ UNCHANGED <<st, inbox, up, gotPos, rcv, progress, user>>

-----------------------------------------------------------------------------
(* The receiver's part of liEvRead: RecvData_ *)

(* Blocks of BufSize, and the rest of the division for the last one. *)
Plan(size) == <<(size - 1) \div BufSize + 1, size % BufSize>>

RcvType ==
  /\ pc["rcv"] = "type" /\ inbox["rcv"] # <<>> /\ Read("rcv", 1)
  /\ LET m == Head(inbox["rcv"]) IN
     \/ /\ m.t = "complete" /\ Goto("rcv", "complete") /\ UNCHANGED <<expect, chunks>>
     \/ /\ m.t = "data" /\ expect' = m.v /\ chunks' = Plan(m.v) /\ Goto("rcv", "chunk")
  /\ UNCHANGED <<st, wire, up, snd, cnt, written, base, progress, user>>

(* A block that an earlier event left unfinished. *)
RcvBlock ==
  /\ pc["rcv"] = "block" /\ chunks' = Plan(expect) /\ Goto("rcv", "chunk")
  /\ UNCHANGED <<st, net, snd, expect, cnt, written, base, progress, user>>

Want == IF chunks[1] > 1 THEN BufSize ELSE chunks[2]

Content(s) == Cardinality({i \in DOMAIN s : Stream[s[i].v] = "content"})

RcvChunk ==
  LET n == Smaller(Want, Len(inbox["rcv"]))
      part == SubSeq(inbox["rcv"], 1, n) IN
  /\ pc["rcv"] = "chunk" /\ Want > 0 /\ n > 0 /\ Read("rcv", n)
  /\ expect' = expect - n /\ chunks' = [chunks EXCEPT ![1] = @ - 1]
  /\ written' = written \o [i \in 1 .. n |-> part[i].v] /\ cnt' = cnt + Content(part)
  /\ Goto("rcv", IF n < Want THEN "end" ELSE IF chunks[1] > 1 THEN "chunk" ELSE "type")
  /\ UNCHANGED <<st, wire, up, snd, base, progress, user>>

RcvNothing ==
  /\ pc["rcv"] \in {"type", "chunk"} /\ inbox["rcv"] = <<>>
  /\ pc["rcv"] = "chunk" => Want > 0
  /\ Goto("rcv", "end") /\ UNCHANGED <<st, net, snd, rcv, progress, user>>

(* lixTcpRecv refuses to receive 0 bytes. *)
RcvRefused == pc["rcv"] = "chunk" /\ Want = 0 /\ Fail("rcv", "FAILED_TO_RECV")

(* The sender hears of what was written, if anything was. *)
Report == IF cnt > 0 THEN <<Msg("progress", cnt)>> ELSE <<>>

RcvEnd ==
  /\ pc["rcv"] = "end" /\ Len(Report) <= Room("rcv") /\ Send("rcv", Report)
  /\ progress' = [progress EXCEPT !["rcv"] = @ + cnt] /\ Goto("rcv", "idle")
  /\ UNCHANGED <<st, inbox, up, snd, rcv, user>>

RcvComplete ==
  /\ pc["rcv"] = "complete" /\ Len(Report) < Room("rcv")
  /\ Send("rcv", Append(Report, Msg("completeAck", 0)))
  /\ Tell("rcv", "complete") /\ Goto("rcv", "idle") /\ st' = [st EXCEPT !["rcv"] = "none"]
  /\ UNCHANGED <<inbox, up, snd, rcv, progress, why>>

-----------------------------------------------------------------------------
(* Faults, and what the code does about them *)

(* A send on a broken connection may fail; the code looks at the result of  *)
(* every one but that of the acknowledgement of completion.  Where the same *)
(* event tells FSS_ON_START first, only the error is kept in told.          *)
SendFails ==
  /\ ~up
  /\ \/ pc["snd"] = "flush" /\ sendBuf # <<>> /\ Fail("snd", "FAILED_TO_SEND")
     \/ pc["snd"] = "fill" /\ Fail("snd", "FAILED_TO_SEND")
     \/ pc["rcv"] \in {"end", "complete"} /\ cnt > 0 /\ Fail("rcv", "FAILED_TO_SEND")
     \/ \E e \in Ends :
          /\ pc[e] = "validate" \/ (e = "rcv" /\ pc[e] = "ack")
          /\ inbox[e] # <<>> /\ Fail(e, "FAILED_TO_SEND")

(* SetFileStreamPos, GetFileStreamPos, ReadFileStream or WriteFileStream fails. *)
StreamFails ==
  /\ "stream" \in Faults
  /\ \/ pc["snd"] = "read" /\ ~gotPos /\ inbox["snd"] # <<>> /\ Fail("snd", "SET_FILE_POS")
     \/ pc["snd"] = "fill" /\ Fail("snd", "READ_FILE")
     \/ pc["rcv"] \in {"validate", "ack"} /\ inbox["rcv"] # <<>>
        /\ Fail("rcv", "GET_FILE_POS")
     \/ pc["rcv"] = "chunk" /\ Want > 0 /\ inbox["rcv"] # <<>> /\ Fail("rcv", "WRITE_FILE")

(* liEvClose: the peer has closed, or the connection broke, and everything  *)
(* that arrived was read.  The code does not Clear here, which only a       *)
(* second transfer of the same session could notice.                        *)
OnClose(e) ==
  /\ st[e] # "none" /\ pc[e] = "idle" /\ inbox[e] = <<>> /\ wire[Peer(e)] = <<>>
  /\ ~up \/ st[Peer(e)] = "none"
  /\ Fail(e, "CONNECTION_CLOSED")

(* CheckTimeout_: nothing was read for FSS_TRANSFER_TIMEOUT. *)
OnTimeout(e) ==
  /\ "timeout" \in Faults /\ st[e] # "none" /\ pc[e] = "idle"
  /\ Fail(e, "CONNECTION_CLOSED")

Break ==
  /\ "break" \in Faults /\ up /\ up' = FALSE /\ wire' = [e \in Ends |-> <<>>]
  /\ UNCHANGED <<st, pc, inbox, snd, rcv, progress, user>>

(* Some of what e sent arrives. *)
Arrive(e) ==
  /\ wire[e] # <<>> /\ \E n \in 1 .. Len(wire[e]) :
       /\ wire' = [wire EXCEPT ![e] = SubSeq(@, n + 1, Len(@))]
       /\ inbox' = [inbox EXCEPT ![Peer(e)] = @ \o SubSeq(wire[e], 1, n)]
  /\ UNCHANGED <<st, pc, up, snd, rcv, progress, user>>

-----------------------------------------------------------------------------
Sender == SndPosMissing \/ SndPos \/ SndProgress \/ SndReadAll \/ SndComplete
          \/ SndFlush \/ SndFill

Receiver == RcvType \/ RcvBlock \/ RcvChunk \/ RcvNothing \/ RcvRefused
            \/ RcvEnd \/ RcvComplete

Handler(e) == OnRead(e) \/ Validate(e) \/ Acknowledged(e) \/ HandshakeNothing(e)
              \/ OnClose(e)

Next ==
  \/ Sender \/ Receiver \/ SendFails \/ StreamFails \/ Break
  \/ \E e \in Ends : Handler(e) \/ Arrive(e) \/ OnTimeout(e)

Spec == Init /\ [][Next]_vars

(* Both worker threads run and what was sent arrives; faults need not be.   *)
FairSpec ==
  /\ Spec /\ WF_vars(Sender) /\ WF_vars(Receiver)
  /\ \A e \in Ends : WF_vars(Handler(e)) /\ WF_vars(Arrive(e))

-----------------------------------------------------------------------------
Kinds == {"validation", "ack", "pos", "data", "byte", "complete", "progress", "completeAck"}
Messages == [t: Kinds, v: 0 .. Len(Stream)]

(* The type of every variable; no connection holds more than Cap. *)
TypeOK ==
  /\ st \in [Ends -> {"connected", "connect", "established", "none"}]
  /\ pc["snd"] \in {"idle", "validate", "ack", "read", "flush", "fill"}
  /\ pc["rcv"] \in {"idle", "validate", "ack", "type", "block", "chunk", "end", "complete"}
  /\ wire \in [Ends -> Seq(Messages)] /\ inbox \in [Ends -> Seq(Messages)]
  /\ \A e \in Ends : Room(e) >= 0
  /\ rpos \in 0 .. Len(Stream) /\ gotPos \in BOOLEAN /\ sendDone \in BOOLEAN
  /\ sendBuf \in Seq(Messages) /\ expect \in 0 .. MaxBlock
  /\ chunks \in Nat \X Nat /\ cnt \in Nat /\ written \in Seq(1 .. Len(Stream))
  /\ base \in 0 .. Len(written)
  /\ progress \in [Ends -> Nat] /\ up \in BOOLEAN
  /\ told \in [Ends -> {"nothing", "start", "complete", "error"}]
  /\ why \in [Ends -> {"none", "FAILED_TO_SEND", "FAILED_TO_RECV", "SET_FILE_POS",
                       "READ_FILE", "GET_FILE_POS", "WRITE_FILE", "CONNECTION_CLOSED"}]

(* The receiver's stream is a beginning of the sender's, each unit once and *)
(* in its place, however blocks were cut by partial sends and receives and  *)
(* wherever the transfer was taken up again.                                *)
PrefixWritten == written = [i \in 1 .. Len(written) |-> i]

(* The units of content that the reports in s tell of. *)
OnItsWay(s) ==
  Cardinality({p \in (1 .. Len(s)) \X (1 .. Len(Stream)) :
                 s[p[1]].t = "progress" /\ p[2] <= s[p[1]].v})

(* Both sides count what was written in this session, each unit of content *)
(* once: the receiver what it has reported, the sender what it has heard of; *)
(* a report is neither repeated nor lost on an unbroken connection.         *)
NotReported ==
  IF pc["rcv"] \in {"type", "block", "chunk", "end", "complete"} THEN cnt ELSE 0

ProgressAgrees ==
  up /\ st["snd"] # "none" /\ st["rcv"] # "none" =>
    /\ progress["rcv"] = progress["snd"] + OnItsWay(inbox["snd"] \o wire["rcv"])
    /\ progress["rcv"] + NotReported
         = Cardinality({i \in base + 1 .. Len(written) : Stream[i] = "content"})

(* What the users see is TransferService. *)
Service == INSTANCE TransferService WITH Size <- Len(Stream), got <- Len(written)
ImplementsService == Service!Spec

(* Comment of RecvData_: -1, which is told as FSS_ERROR_FAILED_TO_RECV, is  *)
(* "error to recv".  No receive fails in this model.                        *)
NeverFailsToReceive == \A e \in Ends : why[e] # "FAILED_TO_RECV"

(* When nothing fails both sides are told FSS_ON_COMPLETE: a sender that   *)
(* stopped because the connection was full is woken by a progress report.   *)
NothingFails == up /\ \A e \in Ends : why[e] = "none"

TransferCompletes == []NothingFails => <>(\A e \in Ends : told[e] = "complete")

=============================================================================
