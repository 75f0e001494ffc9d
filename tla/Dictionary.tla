----------------------------- MODULE Dictionary -----------------------------
(* What a hash table of src/Common/LmnContainer.cpp promises its caller: a   *)
(* map from keys to values.  A call that has to make a node may fail for     *)
(* lack of memory, and then the map is as it was; no other call fails but    *)
(* for the key it is given.                                                  *)
CONSTANTS Keys, Data

VARIABLES map, ret

Empty == [k \in {} |-> k]

Put(k, d) == [j \in DOMAIN map \cup {k} |-> IF j = k THEN d ELSE map[j]]

Init == map = Empty /\ ret = "none"

Has(k) == k \in DOMAIN map

Fail == map' = map /\ ret' = "fail"

Add(k, d) == IF Has(k) THEN Fail
             ELSE Fail \/ (map' = Put(k, d) /\ ret' = "done")

Set(k, d) == \/ Has(k) /\ map' = Put(k, d) /\ ret' = map[k]
             \/ ~Has(k) /\ map' = Put(k, d) /\ ret' = "done"
             \/ ~Has(k) /\ Fail

Get(k) == map' = map /\ ret' = IF Has(k) THEN map[k] ELSE "fail"

Erase(k) == /\ ret' = IF Has(k) THEN "done" ELSE "fail"
            /\ map' = [j \in DOMAIN map \ {k} |-> map[j]]

Clear == map' = Empty /\ ret' = "done"

Next == \/ Clear
        \/ \E k \in Keys : Erase(k) \/ Get(k) \/ \E d \in Data : Add(k, d) \/ Set(k, d)

Spec == Init /\ [][Next]_<<map, ret>>

=============================================================================
