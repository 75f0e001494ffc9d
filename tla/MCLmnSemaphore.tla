--------------------------- MODULE MCLmnSemaphore ---------------------------
(* Instances of LmnSemaphore for TLC. *)
EXTENDS LmnSemaphore, TLC

CONSTANTS t1, t2, t3

TwoThreads == {t1, t2}
ThreeThreads == {t1, t2, t3}

=============================================================================
