------------------------------ MODULE LmxThread ------------------------------
(***************************************************************************)
(* The thread with a message queue of src/Common/LmnMisc.cpp               *)
(* (LmxCreateThread, LmxPostMessage, LmxPostDelayMessage,                  *)
(* LmxDestroyThread and its loop _LmxThread).                              *)
(*                                                                         *)
(* What is done under the thread's lock is one step: a post, the insertion *)
(* of a delayed message, the collecting of messages.  The loop reads bRun  *)
(* and the tick, and a delayed post takes its tick, before the lock, in a  *)
(* step of its own.  Callbacks run without the lock.                       *)
(*                                                                         *)
(* A tick is a DWORD of milliseconds; delays are compared with subtraction *)
(* modulo TickMod: 2^32, or 2^64 where unsigned long has 64 bits.  The     *)
(* POSIX LmnGetTickCount counts in clock ticks of 1000 / _CLK_TCK ms, which*)
(* it multiplies by 1000 and divides by _CLK_TCK: the product is Clk times *)
(* the milliseconds.  Clk is 1 for the GetTickCount of the other build.    *)
(*                                                                         *)
(* Abstractions, by name: an allocation that fails is the post that is not *)
(* made; nobody posts to, or destroys, a thread that has freed itself; the *)
(* loop looks at its lists at least once in MaxCheck ticks, which the      *)
(* comment on MAX_CHECK_DELAY_TIME asks for, and a delayed post inserts    *)
(* its message at most one tick after it took its time (Tick).             *)
(***************************************************************************)
EXTENDS Integers, Sequences, SequencesExt

CONSTANTS
  Normal,     (* the messages posted with LmxPostMessage                    *)
  Delayed,    (* the messages posted with LmxPostDelayMessage               *)
  Delays,     (* values of dwDelayedMs                                      *)
  MaxCheck,   (* MAX_CHECK_DELAY_TIME                                       *)
  MaxPost,    (* MAX_POST_DELAY_TIME                                        *)
  TickMod,    (* the number of values of a DWORD                            *)
  Clk,        (* _CLK_TCK                                                   *)
  Start,      (* the tick count at the start                                *)
  MayStop,    (* may a callback return FALSE?                               *)
  Horizon     (* bound on the time that passes                              *)

Msgs == Normal \cup Delayed

ASSUME ThreadAssumption ==
  /\ Normal \cap Delayed = {}
  /\ Delays \subseteq Nat /\ MaxCheck \in Nat /\ MaxCheck > 1 /\ MaxPost \in Nat
  /\ MaxCheck <= MaxPost
  /\ TickMod \in Nat /\ TickMod > 2 * (MaxPost + MaxCheck)
  /\ Clk \in Nat \ {0} /\ Start \in Nat /\ Horizon \in Nat
  /\ MayStop \in BOOLEAN

VARIABLES
  bRun,
  q,         (* pLstMsg of the thread                                       *)
  dq,        (* pLstDelayedMsg                                              *)
  batch,     (* pLstMsg of the loop: the messages to hand out now           *)
  pc,        (* top, collect, deliver, free, gone                           *)
  bQuit,
  curTick,   (* dwCurTick                                                   *)
  fate,      (* history: what became of every message                       *)
  due,       (* history: when each delayed message is to be delivered       *)
  now,       (* the time that has passed                                    *)
  posting,   (* delayed posts that have their tick, not yet the lock        *)
  asked,     (* history: the time at which curTick was read                 *)
  polled,    (* history: that time for the last look at the lists           *)
  log        (* history: what was delivered, in order                       *)

vars == <<bRun, q, dq, batch, pc, bQuit, curTick, fate, due, now, posting, asked, polled, log>>

(* Both factors are DWORDs: the product wraps before it is divided. *)
LmnGetTickCount == (((Start + now) * Clk) % TickMod) \div Clk

Init ==
  /\ bRun = TRUE /\ q = <<>> /\ dq = <<>> /\ batch = <<>>
  /\ pc = "top" /\ bQuit = FALSE /\ curTick = 0
  /\ fate = [m \in Msgs |-> "unposted"] /\ due = [m \in Delayed |-> 0]
  /\ now = 0 /\ posting = {} /\ asked = 0 /\ polled = 0 /\ log = <<>>

-----------------------------------------------------------------------------
LmxPostMessage(m) ==
  /\ pc # "gone" /\ bRun /\ fate[m] = "unposted"
  /\ q' = Append(q, m) /\ fate' = [fate EXCEPT ![m] = "posted"]
  /\ UNCHANGED <<bRun, dq, batch, pc, bQuit, curTick, due, now, posting, asked, polled, log>>

LmxPostRefused(m) ==
  /\ pc # "gone" /\ ~bRun /\ fate[m] = "unposted"
  /\ fate' = [fate EXCEPT ![m] = "refused"]
  /\ UNCHANGED <<bRun, q, dq, batch, pc, bQuit, curTick, due, now, posting, asked, polled, log>>

(* Subtraction of DWORDs. *)
Minus(a, b) == (a - b) % TickMod

(* Does a message of trigger a go behind one of trigger b? *)
NotBefore(a, b) == Minus(a, b) <= MaxPost + MaxCheck

(* From the tail, the first message that trigger goes behind, 0 if none. *)
InsertAfter(trigger) ==
  LET behind == {i \in 1 .. Len(dq) : NotBefore(trigger, dq[i].trigger)}
  IN IF behind = {} THEN 0 ELSE CHOOSE i \in behind : \A j \in behind : j <= i

(* A delayed post takes its trigger before the lock.  It does not look at   *)
(* bRun: a thread that quits still accepts.                                 *)
LmxPostDelayMessage(m, d) ==
  /\ pc # "gone" /\ fate[m] = "unposted" /\ d <= MaxPost
  /\ fate' = [fate EXCEPT ![m] = "posting"] /\ due' = [due EXCEPT ![m] = now + d]
  /\ posting' = posting \cup
       {[msg |-> m, trigger |-> (LmnGetTickCount + d) % TickMod, at |-> now]}
  /\ UNCHANGED <<bRun, q, dq, batch, pc, bQuit, curTick, now, asked, polled, log>>

(* Under the lock it inserts its message in the order of the triggers. *)
InsertDelayed(p) ==
  /\ pc # "gone" /\ p \in posting /\ posting' = posting \ {p}
  /\ dq' = InsertAt(dq, InsertAfter(p.trigger) + 1, [msg |-> p.msg, trigger |-> p.trigger])
  /\ fate' = [fate EXCEPT ![p.msg] = "posted"]
  /\ UNCHANGED <<bRun, q, batch, pc, bQuit, curTick, due, now, asked, polled, log>>

LmxDestroyThread ==
  /\ pc # "gone" /\ bRun /\ bRun' = FALSE
  /\ UNCHANGED <<q, dq, batch, pc, bQuit, curTick, fate, due, now, posting, asked, polled, log>>

-----------------------------------------------------------------------------
(* _LmxThread *)

(* Mutant of LoopTop: bQuit is not read again. *)
LoopTop_NoQuit ==
  /\ pc = "top" /\ pc' = "collect" /\ curTick' = LmnGetTickCount /\ asked' = now
  /\ UNCHANGED <<bRun, q, dq, batch, bQuit, fate, due, now, posting, polled, log>>

(* The head of the loop, before the lock. *)
LoopTop ==
  /\ pc = "top" /\ pc' = "collect"
  /\ bQuit' = ~bRun /\ curTick' = LmnGetTickCount /\ asked' = now
  /\ UNCHANGED <<bRun, q, dq, batch, fate, due, now, posting, polled, log>>

(* Mutant of Expired: a message is due only at its tick. *)
Expired_Exact(e) == curTick = e.trigger

Expired(e) == Minus(curTick, e.trigger) <= MaxCheck

(* Mutant of ExpiredCount: one message that is not due is taken along. *)
ExpiredCount_OneMore ==
  LET waiting == {i \in 1 .. Len(dq) : ~Expired(dq[i])}
  IN IF waiting = {} THEN Len(dq) ELSE CHOOSE i \in waiting : \A j \in waiting : i <= j

(* How many messages at the head of the delayed list are due: the loop      *)
(* stops at the first that is not.                                          *)
ExpiredCount ==
  LET waiting == {i \in 1 .. Len(dq) : ~Expired(dq[i])}
  IN IF waiting = {} THEN Len(dq)
     ELSE (CHOOSE i \in waiting : \A j \in waiting : i <= j) - 1

(* Under the lock: every delayed message that is due or, if there is none,  *)
(* one normal message.  With nothing to hand out the loop sleeps, or ends.  *)
Collect ==
  LET n == ExpiredCount
      expired == [i \in 1 .. n |-> dq[i].msg] IN
  /\ pc = "collect"
  /\ dq' = SubSeq(dq, n + 1, Len(dq))
  /\ \/ n > 0 /\ batch' = expired /\ UNCHANGED q
     \/ n = 0 /\ q # <<>> /\ batch' = <<Head(q)>> /\ q' = Tail(q)
     \/ n = 0 /\ q = <<>> /\ UNCHANGED <<q, batch>>
  /\ pc' = IF batch' # <<>> THEN "deliver" ELSE IF bQuit THEN "free" ELSE "top"
  /\ polled' = asked
  /\ UNCHANGED <<bRun, bQuit, curTick, fate, due, now, posting, asked, log>>

(* Mutant of Deliver: the list is not cleared. *)
Deliver_NotErased ==
  LET m == Head(batch) IN
  /\ pc = "deliver" /\ log' = Append(log, m)
  /\ fate' = [fate EXCEPT ![m] = "delivered"] /\ UNCHANGED batch
  /\ pc' = IF Len(batch) > 1 THEN "deliver" ELSE IF bQuit THEN "free" ELSE "top"
  /\ UNCHANGED <<bRun, q, dq, bQuit, curTick, due, now, posting, asked, polled>>

(* The callback gets one message and returns TRUE. *)
Deliver ==
  LET m == Head(batch) IN
  /\ pc = "deliver" /\ log' = Append(log, m) /\ batch' = Tail(batch)
  /\ fate' = [fate EXCEPT ![m] = "delivered"]
  /\ pc' = IF batch' # <<>> THEN "deliver" ELSE IF bQuit THEN "free" ELSE "top"
  /\ UNCHANGED <<bRun, q, dq, bQuit, curTick, due, now, posting, asked, polled>>

(* It returns FALSE: the rest of the batch is freed and the loop ends. *)
DeliverLast ==
  LET m == Head(batch) IN
  /\ pc = "deliver" /\ MayStop /\ log' = Append(log, m) /\ batch' = <<>>
  /\ fate' = [n \in Msgs |-> IF n = m THEN "delivered"
                             ELSE IF n \in ToSet(batch) THEN "dropped" ELSE fate[n]]
  /\ pc' = "free"
  /\ UNCHANGED <<bRun, q, dq, bQuit, curTick, due, now, posting, asked, polled>>

(* Both lists, the lock and the thread itself are freed. *)
FreeThread ==
  /\ pc = "free" /\ pc' = "gone" /\ q' = <<>> /\ dq' = <<>>
  /\ fate' = [m \in Msgs |-> IF fate[m] = "posted" THEN "dropped" ELSE fate[m]]
  /\ UNCHANGED <<bRun, batch, bQuit, curTick, due, now, posting, asked, polled, log>>

(* Time passes; a post gets the lock within one tick, and the loop looks    *)
(* again soon enough for what such a post adds to be seen within MaxCheck.  *)
Tick ==
  /\ now < Horizon
  /\ pc # "gone" => now + 1 < polled + MaxCheck /\ \A p \in posting : p.at = now
  /\ now' = now + 1
  /\ UNCHANGED <<bRun, q, dq, batch, pc, bQuit, curTick, fate, due, posting, asked, polled, log>>

-----------------------------------------------------------------------------
Loop == LoopTop \/ Collect \/ Deliver \/ DeliverLast \/ FreeThread

Posts == \/ \E m \in Normal : LmxPostMessage(m) \/ LmxPostRefused(m)
         \/ \E m \in Delayed, d \in Delays : LmxPostDelayMessage(m, d)
         \/ \E p \in posting : InsertDelayed(p)

Next == Posts \/ LmxDestroyThread \/ Loop \/ Tick

Spec == Init /\ [][Next]_vars

(* The loop runs, time passes, and a post that was begun gets the lock;     *)
(* nothing makes anybody post or destroy.                                   *)
FairSpec ==
  Spec /\ WF_vars(Loop) /\ WF_vars(Tick) /\ WF_vars(\E p \in posting : InsertDelayed(p))

-----------------------------------------------------------------------------
Entries == [msg: Delayed, trigger: 0 .. TickMod - 1]

(* The type of every variable. *)
TypeOK ==
  /\ bRun \in BOOLEAN /\ bQuit \in BOOLEAN
  /\ q \in Seq(Normal) /\ dq \in Seq(Entries) /\ batch \in Seq(Msgs)
  /\ pc \in {"top", "collect", "deliver", "free", "gone"}
  /\ pc = "deliver" => batch # <<>>
  /\ curTick \in 0 .. TickMod - 1
  /\ fate \in [Msgs -> {"unposted", "posting", "posted", "refused", "delivered", "dropped"}]
  /\ due \in [Delayed -> Nat] /\ now \in Nat /\ asked \in 0 .. now /\ polled \in 0 .. asked
  /\ posting \subseteq [msg: Delayed, trigger: 0 .. TickMod - 1, at: 0 .. now]
  /\ log \in Seq(Msgs)

(* Every message that was accepted and not yet delivered or dropped is in   *)
(* exactly one list, exactly once, and the others are in none: nothing is   *)
(* lost, freed twice or delivered twice between the lists.                  *)
Everywhere == q \o [i \in 1 .. Len(dq) |-> dq[i].msg] \o batch

PostedOnce ==
  /\ IsInjective(Everywhere) /\ IsInjective(log)
  /\ ToSet(Everywhere) = {m \in Msgs : fate[m] = "posted"}
  /\ ToSet(log) = {m \in Msgs : fate[m] = "delivered"}

(* What posters see is LmxMailbox: normal messages in order, delayed ones   *)
(* in the order of their times and never early.  The batch is one normal    *)
(* message, which is the next of the mailbox, or delayed ones.              *)
Mailbox == INSTANCE LmxMailbox WITH
  state <- IF pc = "gone" THEN "closed" ELSE IF pc = "free" THEN "stopped"
           ELSE IF bRun THEN "open" ELSE "closing",
  mail  <- IF batch # <<>> /\ Head(batch) \in Normal THEN batch \o q ELSE q,
  later <- {m \in Delayed : fate[m] = "posted"},
  clock <- now,
  Lag   <- 1
ImplementsMailbox == Mailbox!Spec

(* LmxDestroyThread waits for the thread: it ends, whatever is posted.      *)
DestroyReturns == ~bRun ~> pc = "gone"

(* A message that was accepted is delivered, a delayed one within the time  *)
(* of the model, unless the thread is destroyed or a callback stops it.     *)
MessageDelivered ==
  \A m \in Msgs :
    fate[m] = "posted" /\ (m \in Delayed => due[m] < Horizon)
      ~> fate[m] = "delivered" \/ ~bRun \/ pc = "gone"

=============================================================================
