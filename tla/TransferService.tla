-------------------------- MODULE TransferService --------------------------
(***************************************************************************)
(* What a file-share session promises its two users through the callback   *)
(* pfnOnEvent: the receiver's stream grows, in order, after it was told    *)
(* FSS_ON_START; FSS_ON_COMPLETE is told to the receiver only when it has  *)
(* the whole stream, and to the sender only after the receiver; an error   *)
(* may be told to either side at any time before it was told completion,   *)
(* and nothing is told after completion or an error.                       *)
(***************************************************************************)
EXTENDS Integers

CONSTANT Size  (* the length of the sender's stream *)

VARIABLES
  got,   (* how much of it the receiver has                                 *)
  told   (* the last event told to each side, progress left out             *)

vars == <<got, told>>

Ends == {"snd", "rcv"}

Init == got \in 0 .. Size /\ told = [e \in Ends |-> "nothing"]

Start(e) ==
  told[e] = "nothing" /\ told' = [told EXCEPT ![e] = "start"] /\ UNCHANGED got

Write ==
  told["rcv"] = "start" /\ got' \in got + 1 .. Size /\ UNCHANGED told

ReceiverCompletes ==
  /\ told["rcv"] = "start" /\ got = Size
  /\ told' = [told EXCEPT !["rcv"] = "complete"] /\ UNCHANGED got

SenderCompletes ==
  /\ told["snd"] = "start" /\ told["rcv"] = "complete"
  /\ told' = [told EXCEPT !["snd"] = "complete"] /\ UNCHANGED got

Fail(e) ==
  /\ told[e] \in {"nothing", "start"}
  /\ told' = [told EXCEPT ![e] = "error"] /\ UNCHANGED got

Next ==
  \/ Write \/ ReceiverCompletes \/ SenderCompletes
  \/ \E e \in Ends : Start(e) \/ Fail(e)

Spec == Init /\ [][Next]_vars

=============================================================================
