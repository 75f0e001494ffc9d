----------------------------- MODULE HashTable -----------------------------
(***************************************************************************)
(* The hash table of src/Common/LmnContainer.cpp: an array of lists, each  *)
(* holding the nodes whose hash falls on its index, in the order in which  *)
(* they were added.  The table counts its nodes and its lists in use; when *)
(* the lists in use have reached three quarters of the array and a further *)
(* one is needed, everything moves to an array twice as large.             *)
(*                                                                         *)
(* The caller holds handles that are addresses of nodes.  The model has    *)
(* one, which walks over the table.                                        *)
(*                                                                         *)
(* Abstractions, by name: a list that was never made and a list without    *)
(* nodes are the same (the code treats them so everywhere); an assert      *)
(* that fails does not stop the program, as in a build with NDEBUG; the    *)
(* caller does not use a handle whose node is gone.                        *)
(***************************************************************************)
EXTENDS Naturals, Sequences, FiniteSets, FiniteSetsExt, SequencesExt

CONSTANTS
  Keys, NoKey,
  HashOf,     (* what pfnHash returns for each key                          *)
  Data,
  InitSizes,  (* what callers give InitHashtable                            *)
  MinSize,    (* MIN_HASH_SIZE                                              *)
  MaxSize,    (* MAX_HASH_SIZE                                              *)
  MayFail,    (* can an allocation fail?                                    *)
  MaxClears   (* bound on the calls of ClearHashtable                       *)

ASSUME HashAssumption ==
  /\ HashOf \in [Keys -> Nat] /\ NoKey \notin Keys /\ InitSizes \subseteq Nat
  /\ MinSize \in Nat \ {0} /\ MaxSize \in Nat /\ MinSize <= MaxSize
  /\ MayFail \in BOOLEAN /\ MaxClears \in Nat

VARIABLES
  ht,      (* the table: Hashtable_                                         *)
  ret,     (* what the last call returned                                   *)
  cursor,  (* the handle: on a node, past the last one, or to a node freed  *)
  walked,  (* the keys the handle has been on since it started              *)
  owed,    (* those that were there when it started and that it still owes  *)
  clears

vars == <<ht, ret, cursor, walked, owed, clears>>

Node == [key: Keys, data: Data]
At(k) == [at |-> "node", key |-> k]
Nowhere(why) == [at |-> why, key |-> NoKey]

-----------------------------------------------------------------------------
(* The table. *)

Limit(n) == (3 * n) \div 4                        (* dwListLimit *)

Table(n) == [size: {n}, used: Nat, count: Nat, list: [0 .. n - 1 -> Seq(Node)]]

NewTable(n) == [size |-> n, used |-> 0, count |-> 0, list |-> [i \in 0 .. n - 1 |-> <<>>]]
NoTable == NewTable(0)

Index(t, k) == HashOf[k] % t.size                 (* _GetHashIndex *)
ListOf(t, k) == t.list[Index(t, k)]
HasKey(t, k) == \E n \in ToSet(ListOf(t, k)) : n.key = k
Place(t, k) ==                                    (* of its node in the list *)
  CHOOSE p \in DOMAIN ListOf(t, k) : ListOf(t, k)[p].key = k

(* Mutant of Insert: the list counts as newly used when it has two nodes.   *)
Insert_UsedLate(t, k, d) ==
  [t EXCEPT !.list[Index(t, k)] = Append(@, [key |-> k, data |-> d]),
            !.used = IF Len(ListOf(t, k)) = 1 THEN @ + 1 ELSE @, !.count = @ + 1]

(* _Add2Hashtable, with memory for the node. *)
Insert(t, k, d) ==
  [t EXCEPT !.list[Index(t, k)] = Append(@, [key |-> k, data |-> d]),
            !.used = IF ListOf(t, k) = <<>> THEN @ + 1 ELSE @, !.count = @ + 1]

(* The nodes from _GetHashtableFirstNode on. *)
InOrder(t) ==
  LET upTo[i \in 0 .. t.size] == IF i = 0 THEN <<>> ELSE upTo[i - 1] \o t.list[i - 1]
  IN IF t.count = 0 THEN <<>> ELSE upTo[t.size]

(* Mutant of Rehashed: it steps to the next node before it copies one.      *)
Rehashed_FirstLost(t) ==
  LET old == InOrder(t)
      new[i \in 0 .. Len(old)] ==
        IF i <= 1 THEN NewTable(Min({2 * t.size, MaxSize}))
        ELSE Insert(new[i - 1], old[i].key, old[i].data)
  IN new[Len(old)]

(* Every node, in order, into an array twice as large. *)
Rehashed(t) ==
  LET old == InOrder(t)
      new[i \in 0 .. Len(old)] ==
        IF i = 0 THEN NewTable(Min({2 * t.size, MaxSize}))
        ELSE Insert(new[i - 1], old[i].key, old[i].data)
  IN new[Len(old)]

MustGrow(t, k) ==
  t.used = Limit(t.size) /\ ListOf(t, k) = <<>> /\ t.size < MaxSize
Grown(t, k) == IF MustGrow(t, k) THEN Rehashed(t) ELSE t

(* EraseHashtable on the node of k. *)
Without(t, k) ==
  LET rest == RemoveAt(ListOf(t, k), Place(t, k)) IN
  [t EXCEPT !.list[Index(t, k)] = rest, !.count = @ - 1,
            !.used = IF rest = <<>> THEN @ - 1 ELSE @]

(* A node's data replaced in place. *)
Updated(t, k, d) ==
  [t EXCEPT !.list[Index(t, k)] =
     [@ EXCEPT ![Place(t, k)] = [key |-> k, data |-> d]]]

Value(t, k) == ListOf(t, k)[Place(t, k)].data

(* _ClearHashtable: the lists are emptied, the counts are not.              *)
Emptied(t) == [t EXCEPT !.list = [i \in DOMAIN @ |-> <<>>]]

(* The first node of the first list in use from index i on. *)
HeadFrom(t, i) ==
  LET used == {j \in i .. t.size - 1 : t.list[j] # <<>>} IN
  IF used = {} THEN Nowhere("end") ELSE At(Head(t.list[Min(used)]).key)

FirstNode(t) == IF t.count = 0 THEN Nowhere("end") ELSE HeadFrom(t, 0)

(* Mutant of NextNode: the list after the next one.                         *)
NextNode_SkipList(t, k) ==
  LET l == ListOf(t, k)  p == Place(t, k) IN
  IF p < Len(l) THEN At(l[p + 1].key) ELSE HeadFrom(t, Index(t, k) + 2)

(* Mutant of NextNode: the head of the list again, once it is through.      *)
NextNode_HeadAgain(t, k) ==
  LET l == ListOf(t, k)  p == Place(t, k) IN
  IF p < Len(l) THEN At(l[p + 1].key) ELSE HeadFrom(t, IF p > 1 THEN Index(t, k) ELSE Index(t, k) + 1)

(* _GetNextHashtableNode *)
NextNode(t, k) ==
  LET l == ListOf(t, k)  p == Place(t, k) IN
  IF p < Len(l) THEN At(l[p + 1].key) ELSE HeadFrom(t, Index(t, k) + 1)

-----------------------------------------------------------------------------
(* The calls. *)

Init ==
  /\ ht = NoTable /\ ret = "none" /\ cursor = Nowhere("off")
  /\ walked = {} /\ owed = {} /\ clears = 0

IsInit == ht.size > 0
HandleUnchanged == UNCHANGED <<cursor, walked, owed, clears>>
HandleGone == cursor' = Nowhere("off") /\ walked' = {} /\ owed' = {}

(* The handle moves on, having been on the keys in was. *)
MoveTo(next, was) ==
  /\ cursor' = next
  /\ walked' = IF next.at = "node" THEN was \cup {next.key} ELSE {}

InitHashtable(n) ==
  /\ ~IsInit /\ n <= MaxSize
  /\ ht' = NewTable(Max({n, MinSize}))
  /\ UNCHANGED ret /\ HandleUnchanged

DeinitHashtable ==
  /\ IsInit /\ ht' = NoTable /\ ret' = "done" /\ HandleGone /\ UNCHANGED clears

(* A node for a key that has none.  It may be the moment to grow, and then  *)
(* every node is a new one and the handle's is gone; the table may have     *)
(* grown although the node cannot be made.                                  *)
NewNode(k, d) ==
  LET t == Grown(ht, k) IN
  /\ \/ ht' = Insert(t, k, d) /\ ret' = "done"
     \/ MayFail /\ ret' = "fail" /\ ht' \in {ht, t}
  /\ IF ht'.size # ht.size THEN HandleGone ELSE UNCHANGED <<cursor, walked, owed>>
  /\ UNCHANGED clears

Add2Hashtable(k, d) ==
  /\ IsInit
  /\ IF HasKey(ht, k) THEN ret' = "fail" /\ UNCHANGED ht /\ HandleUnchanged
     ELSE NewNode(k, d)

SetHashtable(k, d) ==
  /\ IsInit
  /\ IF HasKey(ht, k)
     THEN ht' = Updated(ht, k, d) /\ ret' = Value(ht, k) /\ HandleUnchanged
     ELSE NewNode(k, d)

GetHashtableValue(k) ==
  /\ IsInit /\ ret' = IF HasKey(ht, k) THEN Value(ht, k) ELSE "fail"
  /\ UNCHANGED ht /\ HandleUnchanged

EraseHashtableByKey(k) ==
  /\ IsInit /\ UNCHANGED clears
  /\ IF HasKey(ht, k)
     THEN /\ ht' = Without(ht, k) /\ ret' = "done"
          /\ IF cursor = At(k) THEN HandleGone
             ELSE UNCHANGED cursor /\ walked' = walked \ {k} /\ owed' = owed \ {k}
     ELSE ret' = "fail" /\ UNCHANGED <<ht, cursor, walked, owed>>

(* The handle's node goes, and the handle moves to the next one. *)
EraseHashtable ==
  LET next == NextNode(ht, cursor.key) IN
  /\ cursor.at = "node"
  /\ ht' = Without(ht, cursor.key) /\ ret' = "done"
  /\ MoveTo(next, walked \ {cursor.key})
  /\ owed' = owed \ {cursor.key, next.key} /\ UNCHANGED clears

ClearHashtable ==
  /\ IsInit /\ clears < MaxClears /\ clears' = clears + 1
  /\ ht' = Emptied(ht) /\ ret' = "done" /\ HandleGone

Stored(t) == UNION {{n.key : n \in ToSet(t.list[i])} : i \in DOMAIN t.list}

GetHashtableFirstNode ==
  /\ IsInit /\ MoveTo(FirstNode(ht), {})
  /\ owed' = Stored(ht) \ {FirstNode(ht).key}
  /\ UNCHANGED <<ht, ret, clears>>

GetNextHashtableNode ==
  LET next == NextNode(ht, cursor.key) IN
  /\ cursor.at = "node" /\ MoveTo(next, walked)
  /\ owed' = owed \ {next.key}
  /\ UNCHANGED <<ht, ret, clears>>

Next ==
  \/ \E n \in InitSizes : InitHashtable(n)
  \/ DeinitHashtable \/ EraseHashtable \/ ClearHashtable
  \/ GetHashtableFirstNode \/ GetNextHashtableNode
  \/ \E k \in Keys : \/ EraseHashtableByKey(k) \/ GetHashtableValue(k)
                     \/ \E d \in Data : Add2Hashtable(k, d) \/ SetHashtable(k, d)

Spec == Init /\ [][Next]_vars

-----------------------------------------------------------------------------
TypeOK ==
  /\ ht.size \in 0 .. MaxSize /\ ht \in Table(ht.size)
  /\ ret \in {"none", "done", "fail"} \cup Data
  /\ cursor \in {At(k) : k \in Keys} \cup {Nowhere(w) : w \in {"off", "end"}}
  /\ walked \subseteq Keys /\ owed \subseteq Keys /\ clears \in 0 .. MaxClears

UsedLists(t) == {i \in DOMAIN t.list : t.list[i] # <<>>}

(* Until ClearHashtable is called, the two counts of the table are true: as *)
(* many nodes as keys, as many lists in use as lists with a node, through   *)
(* additions, erasures by key and by handle, growth and failed calls.       *)
CountsTrue ==
  clears = 0 => /\ ht.count = Cardinality(Stored(ht))
                /\ ht.used = Cardinality(UsedLists(ht))

(* A walk that reached its end has been on every key that was there when it *)
(* started and has not been erased since, whatever was added, set or erased *)
(* during it, as long as the table did not grow.                            *)
WalkComplete == cursor.at = "end" => owed = {}

(* A walk is on no key twice, unless the key was erased and added again.    *)
WalkOnce ==
  [][cursor.at = "node" /\ cursor'.at = "node" /\ cursor' # cursor
       => cursor'.key \notin walked \/ walked' = {cursor'.key}]_vars

(* Whatever the arrangement of the lists, callers see a map: what was added *)
(* or set last is found, what was erased is not, a failed call changes      *)
(* nothing, growth loses and doubles no key.                                *)
Contents == [k \in Stored(ht) |-> Value(ht, k)]

D == INSTANCE Dictionary WITH map <- Contents
ImplementsDictionary == D!Spec

(* What the code says or its callers might think, and it does not do.       *)

(* The assert of Add2Hashtable and SetHashtable: the lists in use never     *)
(* exceed the limit, so that == finds the moment to grow.                   *)
UsedWithinLimit == ht.used <= Limit(ht.size)

(* GetHashtableSize returns how many nodes the table has.                   *)
SizeTrue == ht.count = Cardinality(Stored(ht))

(* A handle is good as long as its key is in the table.                     *)
HandleStays ==
  [][cursor.at = "node" /\ cursor'.at = "off" => cursor.key \notin Stored(ht')]_vars

=============================================================================
