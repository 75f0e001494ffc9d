---------------------------- MODULE MCHashTable ----------------------------
(* Instances of HashTable for TLC; keys are their own hash (pfnHash = 0),   *)
(* but for one that shares the hash of another.                             *)
EXTENDS HashTable

MCKeys4 == {0, 1, 2, 3}
MCHash4 == [k \in MCKeys4 |-> IF k = 3 THEN 0 ELSE k]
MCKeys7 == 0 .. 6
MCHash7 == [k \in MCKeys7 |-> k]
MCData == {"a", "b"}
MCOne == {"a"}
MCSizes == {1, 3, 17}

=============================================================================
