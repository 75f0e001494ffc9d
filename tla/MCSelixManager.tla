--------------------------- MODULE MCSelixManager ---------------------------
(* Instances of SelixManager for TLC. *)
EXTENDS SelixManager, TLC

CONSTANTS t1, t2, b1, b2, b3, b4

TwoThreads == {t1, t2}
FourBlocks == {b1, b2, b3, b4}
BlockSymmetry == Permutations(Blocks)

=============================================================================
