----------------------------- MODULE LmxMailbox -----------------------------
(***************************************************************************)
(* What a thread with a message queue (LmxCreateThread) promises those who *)
(* post to it: a normal message is delivered once, in the order of posting *)
(* among the normal ones; a delayed one once, not before its time, and not *)
(* before another that waits and whose time came more than Lag earlier:    *)
(* Lag is how long a delayed post may take to reach the mailbox.  A        *)
(* callback may stop the thread; once it is closing, or stopped, what is   *)
(* still in the mailbox may be lost.                                       *)
(***************************************************************************)
EXTENDS Integers, Sequences

CONSTANTS
  Normal,   (* the messages of LmxPostMessage                               *)
  Delayed,  (* the messages of LmxPostDelayMessage                          *)
  MaxPost,  (* the longest delay                                            *)
  Lag

VARIABLES
  state,  (* open, closing, stopped, closed                                 *)
  mail,   (* the normal messages that wait, in order                        *)
  later,  (* the delayed messages that wait                                 *)
  due,    (* the time of every delayed message that was posted              *)
  clock,
  log     (* what was delivered, in order                                   *)

vars == <<state, mail, later, due, clock, log>>

Init ==
  /\ state = "open" /\ mail = <<>> /\ later = {} /\ log = <<>>
  /\ due = [m \in Delayed |-> 0] /\ clock = 0

Post(m) ==
  /\ state \in {"open", "stopped"}
  /\ mail' = Append(mail, m) /\ UNCHANGED <<state, later, due, clock, log>>

Ask(m) ==
  /\ state # "closed" /\ \E d \in 0 .. MaxPost : due' = [due EXCEPT ![m] = clock + d]
  /\ UNCHANGED <<state, mail, later, clock, log>>

PostDelay(m) ==
  /\ state # "closed" /\ later' = later \cup {m}
  /\ UNCHANGED <<state, mail, due, clock, log>>

(* The message a delivery may take, and the mailbox without it. *)
TakeMail(m) == mail # <<>> /\ m = Head(mail) /\ mail' = Tail(mail) /\ UNCHANGED later

IsNext(m) == m \in later /\ due[m] <= clock /\ \A n \in later : due[m] <= due[n] + Lag

TakeLater(m) == IsNext(m) /\ later' = later \ {m} /\ UNCHANGED mail

Deliver(m) ==
  /\ state \in {"open", "closing"}
  /\ TakeMail(m) \/ TakeLater(m)
  /\ log' = Append(log, m) /\ UNCHANGED <<state, due, clock>>

(* The last message, by the callback or because the thread is closing. *)
Last(m) ==
  /\ state \in {"open", "closing"} /\ state' = "stopped"
  /\ \/ TakeMail(m)
     \/ IsNext(m) /\ later' \in SUBSET (later \ {m}) /\ UNCHANGED mail
  /\ log' = Append(log, m) /\ UNCHANGED <<due, clock>>

(* It closes when LmxDestroyThread asks, and may then find nothing to do. *)
Closing == state = "open" /\ state' = "closing" /\ UNCHANGED <<mail, later, due, clock, log>>

Stopping == state = "closing" /\ state' = "stopped" /\ UNCHANGED <<mail, later, due, clock, log>>

Closed ==
  /\ state = "stopped" /\ state' = "closed"
  /\ mail' = <<>> /\ later' = {} /\ UNCHANGED <<due, clock, log>>

Tick == clock' = clock + 1 /\ UNCHANGED <<state, mail, later, due, log>>

Next ==
  \/ \E m \in Normal : Post(m)
  \/ \E m \in Delayed : Ask(m) \/ PostDelay(m)
  \/ \E m \in Normal \cup Delayed : Deliver(m) \/ Last(m)
  \/ Closing \/ Stopping \/ Closed \/ Tick

Spec == Init /\ [][Next]_vars

=============================================================================
