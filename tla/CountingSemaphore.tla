-------------------------- MODULE CountingSemaphore --------------------------
(***************************************************************************)
(* What LmnSemTake, LmnSemTakeByTime and LmnSemGive promise their callers: *)
(* a count between 0 and the maximum given to LmnSemCreate.  A take waits  *)
(* for the count to be positive and lowers it; a give raises it and is     *)
(* refused when, and only when, the count is at its maximum; a timed take  *)
(* may give up, and a signal may interrupt any take.  res is what each     *)
(* thread's last call returned.                                            *)
(***************************************************************************)
EXTENDS Integers

CONSTANTS
  Threads,
  InitCnt,  (* the count at the start, at most MaxCnt                       *)
  MaxCnt

VARIABLES count, res

Init == count = InitCnt /\ res = [t \in Threads |-> "none"]

(* A new call forgets the result of the one before. *)
Begin(t) == res' = [res EXCEPT ![t] = "none"] /\ UNCHANGED count

Take(t) ==
  /\ count > 0 /\ count' = count - 1
  /\ res' = [res EXCEPT ![t] = "taken"]

GiveUp(t) ==
  /\ \E r \in {"timeout", "interrupted"} : res' = [res EXCEPT ![t] = r]
  /\ UNCHANGED count

Give(t) ==
  /\ count < MaxCnt /\ count' = count + 1
  /\ res' = [res EXCEPT ![t] = "given"]

Refuse(t) ==
  /\ count = MaxCnt
  /\ res' = [res EXCEPT ![t] = "refused"] /\ UNCHANGED count

Next == \E t \in Threads : Begin(t) \/ Take(t) \/ GiveUp(t) \/ Give(t) \/ Refuse(t)

Spec == Init /\ [][Next]_<<count, res>>

=============================================================================
