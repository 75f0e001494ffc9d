----------------------------- MODULE MCLmxThread -----------------------------
(* Instances of LmxThread for TLC. *)
EXTENDS LmxThread, TLC

CONSTANTS n1, n2, d1, d2, d3

OneNormal == {n1}
TwoNormal == {n1, n2}
NoNormal == {}
TwoDelayed == {d1, d2}
ThreeDelayed == {d1, d2, d3}

=============================================================================
