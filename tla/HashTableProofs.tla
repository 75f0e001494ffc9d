-------------------------- MODULE HashTableProofs --------------------------
(***************************************************************************)
(* Proofs about the hash table, for any keys, hash function, sizes and     *)
(* limits: its counts are true until it is cleared, a walk over it is on   *)
(* every key once, and its callers see a map.                              *)
(***************************************************************************)
EXTENDS HashTable, SequenceTheorems, FiniteSetTheorems, WellFoundedInduction, TLAPS

(* What holds of a table between calls: a node is on the list its hash      *)
(* falls on, and no list has two nodes with one key.                        *)
Placed(t) ==
  \A i \in 0 .. t.size - 1 : \A p \in 1 .. Len(t.list[i]) : Index(t, t.list[i][p].key) = i

OneNode(t) ==
  \A i \in 0 .. t.size - 1 : \A p, q \in 1 .. Len(t.list[i]) :
    t.list[i][p].key = t.list[i][q].key => p = q

Good(t) == t.size \in Nat /\ t \in Table(t.size) /\ Placed(t) /\ OneNode(t)

(* The counts are those of the nodes and of the lists in use, or more.      *)
Counted(t) == /\ IsFiniteSet(Stored(t))
              /\ t.count = Cardinality(Stored(t)) /\ t.used = Cardinality(UsedLists(t))
Enough(t) == /\ IsFiniteSet(Stored(t))
             /\ t.count >= Cardinality(Stored(t)) /\ t.used >= Cardinality(UsedLists(t))

(* The order of a walk. *)
Before(t, j, k) ==
  \/ Index(t, j) < Index(t, k)
  \/ Index(t, j) = Index(t, k) /\ Place(t, j) < Place(t, k)

(* The handle is on a key of the table; what it owes is ahead of it, what   *)
(* it has been on is behind.                                                *)
WalkInv ==
  IF cursor.at = "node"
  THEN /\ cursor = At(cursor.key) /\ {cursor.key} \cup owed \cup walked \subseteq Stored(ht)
       /\ \A k \in owed : Before(ht, cursor.key, k)
       /\ \A k \in walked : k = cursor.key \/ Before(ht, k, cursor.key)
  ELSE owed = {} /\ walked = {}

(* The counts are true until the table is cleared, and high enough after.   *)
CountInv == Enough(ht) /\ (clears = 0 => Counted(ht))

(* The inductive invariant. *)
HashInv ==
  /\ TypeOK /\ Good(ht) /\ CountInv /\ WalkInv

-----------------------------------------------------------------------------
(* A set of positions that is not empty has a first one. *)
LEMMA FirstPosition ==
  ASSUME NEW P \in SUBSET Nat, P # {}
  PROVE  \E i \in P : \A j \in P : i <= j
<1> DEFINE Less == {ss \in Nat \X Nat : ss[1] < ss[2]}
<1>1. IsWellFoundedOn(Less, Nat)
  BY NatLessThanWellFounded DEF OpToRel
<1>2. \A i, j \in Nat : j < i => <<j, i>> \in Less
  OBVIOUS
<1> HIDE DEF Less
<1>3. PICK i \in P : \A j \in P : ~(<<j, i>> \in Less)
  BY <1>1, WFMin, Zenon
<1>4. ASSUME NEW j \in P PROVE i <= j
  <2>1. i \in Nat /\ j \in Nat
    OBVIOUS
  <2>2. ~(j < i)
    BY <1>2, <1>3, <2>1, Zenon
  <2> QED
    BY <2>1, <2>2
<1> QED
  BY <1>4

-----------------------------------------------------------------------------
(* A table and its keys. *)

(* The lists of a good table, and where a node is on them. *)
LEMMA ListsAre ==
  ASSUME NEW t, Good(t)
  PROVE  /\ t = [size |-> t.size, used |-> t.used, count |-> t.count, list |-> t.list]
         /\ t.size \in Nat /\ t.used \in Nat /\ t.count \in Nat
         /\ t.list \in [0 .. t.size - 1 -> Seq(Node)]
         /\ \A i \in 0 .. t.size - 1 :
              /\ t.list[i] \in Seq(Node) /\ Len(t.list[i]) \in Nat
              /\ DOMAIN t.list[i] = 1 .. Len(t.list[i])
              /\ \A p \in 1 .. Len(t.list[i]) :
                   /\ t.list[i][p] \in Node /\ t.list[i][p].key \in Keys
                   /\ t.list[i][p] = [key |-> t.list[i][p].key, data |-> t.list[i][p].data]
<1>1. /\ t = [size |-> t.size, used |-> t.used, count |-> t.count, list |-> t.list]
      /\ t.size \in Nat /\ t.used \in Nat /\ t.count \in Nat
      /\ t.list \in [0 .. t.size - 1 -> Seq(Node)]
  BY DEF Good, Table
<1>2. ASSUME NEW s \in Seq(Node)
      PROVE  /\ Len(s) \in Nat /\ DOMAIN s = 1 .. Len(s)
             /\ \A p \in 1 .. Len(s) :
                   s[p] \in Node /\ s[p].key \in Keys /\ s[p] = [key |-> s[p].key, data |-> s[p].data]
  <2>1. Len(s) \in Nat /\ DOMAIN s = 1 .. Len(s) /\ \A p \in 1 .. Len(s) : s[p] \in Node
    BY LenProperties, ElementOfSeq
  <2> QED
    BY <2>1 DEF Node
<1> QED
  BY <1>1, <1>2

(* An index is one of the array. *)
LEMMA IndexIs ==
  ASSUME NEW t, t.size \in Nat \ {0}, NEW k \in Keys
  PROVE  Index(t, k) \in 0 .. t.size - 1
<1>1. HashOf[k] \in Nat
  BY HashAssumption DEF HashAssumption
<1> QED
  BY <1>1 DEF Index

(* The keys of a table are those of the nodes on its lists. *)
LEMMA StoredAre ==
  ASSUME NEW t, Good(t), NEW k
  PROVE  k \in Stored(t) <=>
           \E i \in 0 .. t.size - 1 : \E p \in 1 .. Len(t.list[i]) : t.list[i][p].key = k
<1>1. DOMAIN t.list = 0 .. t.size - 1
  BY ListsAre
<1>2. \A i \in 0 .. t.size - 1 :
        ToSet(t.list[i]) = {t.list[i][p] : p \in 1 .. Len(t.list[i])}
  BY ListsAre DEF ToSet
<1>3. \A i \in 0 .. t.size - 1 :
        {n.key : n \in ToSet(t.list[i])} = {t.list[i][p].key : p \in 1 .. Len(t.list[i])}
  BY <1>2
<1> DEFINE S(i) == {n.key : n \in ToSet(t.list[i])}
<1>4. k \in Stored(t) <=> \E i \in 0 .. t.size - 1 : k \in S(i)
  BY <1>1, Zenon DEF Stored
<1>5. \A i \in 0 .. t.size - 1 :
        k \in S(i) <=> \E p \in 1 .. Len(t.list[i]) : t.list[i][p].key = k
  BY <1>3
<1> HIDE DEF S
<1> QED
  BY <1>4, <1>5

(* A key that is there has its node on the list of its hash. *)
LEMMA PlaceIs ==
  ASSUME NEW t, Good(t), NEW k \in Stored(t)
  PROVE  /\ k \in Keys /\ t.size \in Nat \ {0} /\ Index(t, k) \in 0 .. t.size - 1
         /\ Place(t, k) \in 1 .. Len(ListOf(t, k)) /\ ListOf(t, k)[Place(t, k)].key = k
<1>0. PICK i \in 0 .. t.size - 1 : \E p \in 1 .. Len(t.list[i]) : t.list[i][p].key = k
  BY StoredAre
<1>1. PICK p \in 1 .. Len(t.list[i]) : t.list[i][p].key = k
  BY <1>0
<1>2. k \in Keys /\ t.size \in Nat
  BY <1>1, ListsAre
<1>3. t.size # 0
  BY <1>1, <1>2
<1>4. Index(t, k) = i /\ ListOf(t, k) = t.list[i]
  BY <1>1 DEF Good, Placed, ListOf
<1>5. DOMAIN ListOf(t, k) = 1 .. Len(ListOf(t, k))
  BY <1>4, ListsAre
<1>6. \E q \in DOMAIN ListOf(t, k) : ListOf(t, k)[q].key = k
  BY <1>1, <1>4, <1>5
<1>7. Place(t, k) \in DOMAIN ListOf(t, k) /\ ListOf(t, k)[Place(t, k)].key = k
  BY <1>6 DEF Place
<1> QED
  BY <1>2, <1>3, <1>4, <1>5, <1>7

(* It is the only one. *)
NodeAt(t, i, p, k) ==
  i \in 0 .. t.size - 1 /\ p \in 1 .. Len(t.list[i]) /\ t.list[i][p].key = k

(* A node at a place of a list is the one of its key, and there is no other. *)
LEMMA PlaceOnly ==
  ASSUME NEW t, Good(t), NEW i, NEW p, NEW k, NodeAt(t, i, p, k)
  PROVE  /\ k \in Stored(t) /\ Index(t, k) = i /\ Place(t, k) = p
         /\ ListOf(t, k) = t.list[i] /\ Value(t, k) = t.list[i][p].data
<1>0. i \in 0 .. t.size - 1 /\ p \in 1 .. Len(t.list[i]) /\ t.list[i][p].key = k
  BY DEF NodeAt
<1>1. k \in Stored(t)
  BY <1>0, StoredAre
<1>2. Index(t, k) = i /\ ListOf(t, k) = t.list[i]
  BY <1>0 DEF Good, Placed, ListOf
<1>3. Place(t, k) \in 1 .. Len(t.list[i]) /\ t.list[i][Place(t, k)].key = k
  BY <1>1, <1>2, PlaceIs
<1>4. t.list[i][Place(t, k)].key = t.list[i][p].key
  BY <1>0, <1>3
<1>5. Place(t, k) = p
  BY <1>0, <1>3, <1>4 DEF Good, OneNode
<1> QED
  BY <1>1, <1>2, <1>5 DEF Value

(* _IfListContainKey looks on the right list. *)
LEMMA HasKeyIs ==
  ASSUME NEW t, Good(t), t.size # 0, NEW k \in Keys
  PROVE  HasKey(t, k) <=> k \in Stored(t)
<1>1. Index(t, k) \in 0 .. t.size - 1
  BY IndexIs, ListsAre
<1>2. ToSet(ListOf(t, k)) = {ListOf(t, k)[p] : p \in 1 .. Len(ListOf(t, k))}
  BY <1>1, ListsAre DEF ToSet, ListOf
<1>3. HasKey(t, k) <=> \E p \in 1 .. Len(ListOf(t, k)) : ListOf(t, k)[p].key = k
  BY <1>2 DEF HasKey
<1>4. ASSUME k \in Stored(t) PROVE HasKey(t, k)
  BY <1>3, <1>4, PlaceIs
<1>5. ASSUME HasKey(t, k) PROVE k \in Stored(t)
  BY <1>1, <1>3, <1>5, StoredAre DEF ListOf
<1> QED
  BY <1>4, <1>5

-----------------------------------------------------------------------------
(* One list of a table is changed. *)

(* u is t with another list at c. *)
OneList(t, u, c, l) ==
  u \in Table(t.size) /\ l \in Seq(Node) /\ u.list = [t.list EXCEPT ![c] = l]

(* Then its keys are those of the other lists, and those of l. *)
Replaced(t, u, c, l) ==
  /\ Good(u) /\ u.size = t.size
  /\ UsedLists(u) = IF l = <<>> THEN UsedLists(t) \ {c} ELSE UsedLists(t) \cup {c}
  /\ Stored(u) = {k \in Stored(t) : Index(t, k) # c} \cup {l[p].key : p \in 1 .. Len(l)}
  /\ \A k \in Stored(t) : Index(t, k) # c =>
       Place(u, k) = Place(t, k) /\ Value(u, k) = Value(t, k)
  /\ \A p \in 1 .. Len(l) : Place(u, l[p].key) = p /\ Value(u, l[p].key) = l[p].data
  /\ \A k : Index(u, k) = Index(t, k)

(* A list may be replaced by any whose nodes hash there and have different keys. *)
LEMMA ReplaceList ==
  ASSUME NEW t, Good(t), NEW u, NEW c \in 0 .. t.size - 1, NEW l, OneList(t, u, c, l),
         \A p \in 1 .. Len(l) : Index(t, l[p].key) = c,
         \A p, q \in 1 .. Len(l) : l[p].key = l[q].key => p = q
  PROVE  Replaced(t, u, c, l)
<1>1. /\ u.size = t.size /\ u.list[c] = l
      /\ \A i \in 0 .. t.size - 1 : i # c => u.list[i] = t.list[i]
      /\ DOMAIN u.list = 0 .. t.size - 1 /\ DOMAIN t.list = 0 .. t.size - 1
  BY ListsAre DEF Table, OneList
<1>2. \A k : Index(u, k) = Index(t, k)
  BY <1>1 DEF Index
<1>3. Good(u)
  <2>1. Placed(u)
    <3> SUFFICES ASSUME NEW i \in 0 .. t.size - 1, NEW p \in 1 .. Len(u.list[i])
                 PROVE  Index(t, u.list[i][p].key) = i
      BY <1>1, <1>2 DEF Placed
    <3> QED
      BY <1>1 DEF Good, Placed
  <2>2. OneNode(u)
    <3> SUFFICES ASSUME NEW i \in 0 .. t.size - 1, NEW p \in 1 .. Len(u.list[i]),
                        NEW q \in 1 .. Len(u.list[i]), u.list[i][p].key = u.list[i][q].key
                 PROVE  p = q
      BY <1>1 DEF OneNode
    <3>1. CASE i = c
      BY <1>1, <3>1
    <3>2. CASE i # c
      <4>1. u.list[i] = t.list[i]
        BY <1>1, <3>2
      <4> QED
        BY <4>1 DEF Good, OneNode
    <3> QED
      BY <3>1, <3>2
  <2> QED
    BY <1>1, <2>1, <2>2, ListsAre DEF Good, OneList
<1>4. UsedLists(u) = IF l = <<>> THEN UsedLists(t) \ {c} ELSE UsedLists(t) \cup {c}
  BY <1>1 DEF UsedLists
<1>5. ASSUME NEW k \in Stored(t), Index(t, k) # c
      PROVE  k \in Stored(u) /\ Place(u, k) = Place(t, k) /\ Value(u, k) = Value(t, k)
  <2> DEFINE i == Index(t, k)  p == Place(t, k)
  <2>1. i \in 0 .. t.size - 1 /\ p \in 1 .. Len(t.list[i]) /\ t.list[i][p].key = k
    BY <1>5, PlaceIs DEF ListOf
  <2>2. u.list[i] = t.list[i]
    BY <1>1, <1>5, <2>1
  <2>3. NodeAt(u, i, p, k)
    BY <1>1, <2>1, <2>2 DEF NodeAt
  <2>5. Value(t, k) = t.list[i][p].data
    BY DEF Value, ListOf
  <2> HIDE DEF i, p
  <2>4. /\ k \in Stored(u) /\ Place(u, k) = p /\ Value(u, k) = u.list[i][p].data
    BY <1>3, <2>3, PlaceOnly
  <2> QED
    BY <2>2, <2>4, <2>5 DEF p
<1>6. ASSUME NEW p \in 1 .. Len(l)
      PROVE  /\ l[p].key \in Stored(u) /\ Place(u, l[p].key) = p
             /\ Value(u, l[p].key) = l[p].data
  <2>1. c \in 0 .. u.size - 1 /\ p \in 1 .. Len(u.list[c]) /\ u.list[c][p] = l[p]
    BY <1>1
  <2> DEFINE k == l[p].key
  <2>2. NodeAt(u, c, p, k)
    BY <2>1 DEF NodeAt
  <2> HIDE DEF k
  <2>3. k \in Stored(u) /\ Place(u, k) = p /\ Value(u, k) = u.list[c][p].data
    BY <1>3, <2>1, <2>2, PlaceOnly
  <2> QED
    BY <2>1, <2>3 DEF k
<1>7. ASSUME NEW k \in Stored(u)
      PROVE  \/ k \in Stored(t) /\ Index(t, k) # c
             \/ \E p \in 1 .. Len(l) : k = l[p].key
  <2> DEFINE i == Index(u, k)  p == Place(u, k)
  <2>1. i \in 0 .. u.size - 1 /\ p \in 1 .. Len(u.list[i]) /\ u.list[i][p].key = k
    BY <1>3, PlaceIs DEF ListOf
  <2>4. i = Index(t, k)
    BY <1>2
  <2> HIDE DEF i, p
  <2>2. CASE i = c
    BY <1>1, <2>1, <2>2
  <2>3. CASE i # c
    <3>1. i \in 0 .. t.size - 1 /\ p \in 1 .. Len(t.list[i]) /\ t.list[i][p].key = k
      BY <1>1, <2>1, <2>3
    <3>2. k \in Stored(t)
      BY <3>1, StoredAre
    <3> QED
      BY <2>3, <2>4, <3>2
  <2> QED
    BY <2>2, <2>3
<1>8. Stored(u) = {k \in Stored(t) : Index(t, k) # c} \cup {l[p].key : p \in 1 .. Len(l)}
  BY <1>5, <1>6, <1>7
<1> QED
  BY <1>1, <1>2, <1>3, <1>4, <1>5, <1>6, <1>8 DEF Replaced

(* A node is added behind those of its list.                                *)
LEMMA InsertIs ==
  ASSUME NEW t, Good(t), t.size # 0, NEW k \in Keys, k \notin Stored(t), NEW d \in Data
  PROVE  LET u == Insert(t, k, d)  c == Index(t, k) IN
         /\ Good(u) /\ u.size = t.size /\ u.count = t.count + 1
         /\ u.used = IF c \in UsedLists(t) THEN t.used ELSE t.used + 1
         /\ UsedLists(u) = UsedLists(t) \cup {c}
         /\ Stored(u) = Stored(t) \cup {k} /\ Value(u, k) = d
         /\ \A j : Index(u, j) = Index(t, j)
         /\ \A j \in Stored(t) : Place(u, j) = Place(t, j) /\ Value(u, j) = Value(t, j)
<1> DEFINE u == Insert(t, k, d)  c == Index(t, k)  n == [key |-> k, data |-> d]
           o == t.list[c]  l == Append(o, n)
<1>1. /\ c \in 0 .. t.size - 1 /\ ListOf(t, k) = o /\ o \in Seq(Node) /\ n \in Node
      /\ t.used \in Nat /\ t.count \in Nat /\ t.size \in Nat
      /\ t = [size |-> t.size, used |-> t.used, count |-> t.count, list |-> t.list]
      /\ t.list \in [0 .. t.size - 1 -> Seq(Node)]
  BY IndexIs, ListsAre DEF ListOf, Node
<1>2. /\ l \in Seq(Node) /\ Len(o) \in Nat /\ Len(l) = Len(o) + 1
      /\ \A p \in 1 .. Len(o) : l[p] = o[p]
      /\ l[Len(o) + 1] = n /\ l # <<>>
  BY <1>1, AppendProperties, LenProperties
<1>3. o = <<>> <=> c \notin UsedLists(t)
  BY <1>1 DEF UsedLists
<1>4. /\ u.list = [t.list EXCEPT ![c] = l] /\ u.size = t.size /\ u.count = t.count + 1
      /\ u.used = IF c \in UsedLists(t) THEN t.used ELSE t.used + 1
      /\ u = [size |-> u.size, used |-> u.used, count |-> u.count, list |-> u.list]
  <2>1. u = [t EXCEPT !.list = [t.list EXCEPT ![c] = l],
                      !.used = IF o = <<>> THEN t.used + 1 ELSE t.used, !.count = t.count + 1]
    BY <1>1 DEF Insert
  <2> HIDE DEF u, c, l, o
  <2> QED
    BY <1>1, <1>3, <2>1
<1>5. u \in Table(t.size)
  <2>1. u.list \in [0 .. t.size - 1 -> Seq(Node)]
    BY <1>1, <1>2, <1>4
  <2>2. u.used \in Nat /\ u.count \in Nat
    BY <1>1, <1>4
  <2> QED
    BY <1>4, <2>1, <2>2 DEF Table
<1>6. ASSUME NEW p \in 1 .. Len(o)
      PROVE  /\ o[p].key \in Stored(t) /\ Index(t, o[p].key) = c /\ Place(t, o[p].key) = p
             /\ Value(t, o[p].key) = o[p].data
  <2> DEFINE j == o[p].key
  <2>1. NodeAt(t, c, p, j)
    BY <1>1 DEF NodeAt
  <2> HIDE DEF c, j
  <2>2. /\ j \in Stored(t) /\ Index(t, j) = c /\ Place(t, j) = p
        /\ Value(t, j) = o[p].data
    BY <2>1, PlaceOnly
  <2> QED
    BY <2>2 DEF j
<1>7. n.key = k /\ n.data = d
  OBVIOUS
<1> HIDE DEF u, c, n, o, l
<1>8. \A p \in 1 .. Len(l) : p \in 1 .. Len(o) \/ p = Len(o) + 1
  BY <1>2
<1>9. \A p \in 1 .. Len(l) : Index(t, l[p].key) = c
  BY <1>2, <1>6, <1>7, <1>8 DEF c
<1>10. \A p, q \in 1 .. Len(l) : l[p].key = l[q].key => p = q
  BY <1>2, <1>6, <1>7, <1>8
<1>r. Replaced(t, u, c, l)
  BY <1>1, <1>2, <1>4, <1>5, <1>9, <1>10, ReplaceList DEF OneList
<1>11. /\ Good(u)
       /\ UsedLists(u) = UsedLists(t) \cup {c}
       /\ Stored(u) = {j \in Stored(t) : Index(t, j) # c} \cup {l[p].key : p \in 1 .. Len(l)}
       /\ \A j \in Stored(t) : Index(t, j) # c =>
            Place(u, j) = Place(t, j) /\ Value(u, j) = Value(t, j)
       /\ \A p \in 1 .. Len(l) : Place(u, l[p].key) = p /\ Value(u, l[p].key) = l[p].data
       /\ \A j : Index(u, j) = Index(t, j)
  BY <1>2, <1>r DEF Replaced
<1>12. ASSUME NEW j \in Stored(t), Index(t, j) = c
       PROVE  \E p \in 1 .. Len(o) : j = o[p].key /\ j = l[p].key /\ p \in 1 .. Len(l)
  <2>1. Place(t, j) \in 1 .. Len(ListOf(t, j)) /\ ListOf(t, j)[Place(t, j)].key = j
    BY PlaceIs
  <2>2. ListOf(t, j) = o
    BY <1>12 DEF ListOf, o
  <2> QED
    BY <1>2, <2>1, <2>2
<1>13. Stored(u) = Stored(t) \cup {k}
  <2>1. \A p \in 1 .. Len(l) : l[p].key \in Stored(t) \cup {k}
    BY <1>2, <1>6, <1>7, <1>8
  <2>2. Len(o) + 1 \in 1 .. Len(l)
    BY <1>2
  <2>3. k \in {l[p].key : p \in 1 .. Len(l)}
    BY <1>2, <1>7, <2>2
  <2> QED
    BY <1>11, <1>12, <2>1, <2>3
<1>14. ASSUME NEW j \in Stored(t) PROVE Place(u, j) = Place(t, j) /\ Value(u, j) = Value(t, j)
  <2>1. CASE Index(t, j) # c
    BY <1>11, <2>1
  <2>2. CASE Index(t, j) = c
    <3>1. PICK p \in 1 .. Len(o) : j = o[p].key /\ j = l[p].key /\ p \in 1 .. Len(l)
      BY <1>12, <2>2
    <3> QED
      BY <1>2, <1>6, <1>11, <3>1
  <2> QED
    BY <2>1, <2>2
<1>15. Value(u, k) = d
  <2>1. Len(o) + 1 \in 1 .. Len(l)
    BY <1>2
  <2> QED
    BY <1>2, <1>7, <1>11, <2>1
<1> QED
  BY <1>4, <1>11, <1>13, <1>14, <1>15 DEF u, c

-----------------------------------------------------------------------------
(* A node is taken off its list, or gets other data; all nodes go.          *)

(* Two sequences in one, element by element. *)
LEMMA JoinedIs ==
  ASSUME NEW S, NEW a \in Seq(S), NEW b \in Seq(S)
  PROVE  /\ a \o b \in Seq(S) /\ Len(a \o b) = Len(a) + Len(b)
         /\ Len(a) \in Nat /\ Len(b) \in Nat
         /\ \A p \in 1 .. Len(a) : p \in 1 .. Len(a \o b) /\ (a \o b)[p] = a[p]
         /\ \A p \in 1 .. Len(b) : Len(a) + p \in 1 .. Len(a \o b) /\ (a \o b)[Len(a) + p] = b[p]
         /\ \A p \in 1 .. Len(a \o b) :
              p \in 1 .. Len(a) \/ \E q \in 1 .. Len(b) : p = Len(a) + q
<1>1. Len(a) \in Nat /\ Len(b) \in Nat
  BY LenProperties
<1>2. a \o b \in Seq(S) /\ Len(a \o b) = Len(a) + Len(b)
  BY ConcatProperties
<1>3. \A p \in 1 .. Len(a) + Len(b) : (a \o b)[p] = IF p <= Len(a) THEN a[p] ELSE b[p - Len(a)]
  BY ConcatProperties
<1>4. \A p \in 1 .. Len(b) : /\ Len(a) + p \in 1 .. Len(a) + Len(b)
                             /\ ~(Len(a) + p <= Len(a)) /\ (Len(a) + p) - Len(a) = p
  BY <1>1
<1>5. \A p \in 1 .. Len(a) : p \in 1 .. Len(a) + Len(b) /\ p <= Len(a)
  BY <1>1
<1>6. ASSUME NEW p \in 1 .. Len(a) + Len(b), p \notin 1 .. Len(a)
      PROVE  \E q \in 1 .. Len(b) : p = Len(a) + q
  <2>1. p - Len(a) \in 1 .. Len(b) /\ p = Len(a) + (p - Len(a))
    BY <1>1, <1>6
  <2> QED
    BY <2>1
<1> QED
  BY <1>1, <1>2, <1>3, <1>4, <1>5, <1>6

(* A sequence without one of its elements. *)
LEMMA RemoveIs ==
  ASSUME NEW S, NEW s \in Seq(S), NEW n \in 1 .. Len(s)
  PROVE  LET r == RemoveAt(s, n) IN
         /\ r \in Seq(S) /\ Len(r) = Len(s) - 1
         /\ \A p \in 1 .. n - 1 : r[p] = s[p]
         /\ \A p \in n .. Len(s) - 1 : r[p] = s[p + 1]
<1> DEFINE a == SubSeq(s, 1, n - 1)  b == SubSeq(s, n + 1, Len(s))
<1>1. Len(s) \in Nat /\ n - 1 \in 0 .. Len(s) /\ n \in 0 .. Len(s)
  BY LenProperties
<1>2. a \in Seq(S) /\ Len(a) = n - 1 /\ \A p \in 1 .. n - 1 : a[p] = s[p]
  <2>1. \A i \in 1 .. n - 1 : s[i] \in S
    BY <1>1, ElementOfSeq
  <2>2. /\ a \in Seq(S) /\ Len(a) = IF 1 <= n - 1 THEN (n - 1) - 1 + 1 ELSE 0
        /\ \A i \in 1 .. (n - 1) - 1 + 1 : a[i] = s[1 + i - 1]
    BY <1>1, <2>1, SubSeqProperties
  <2>3. /\ (n - 1) - 1 + 1 = n - 1 /\ (~(1 <= n - 1) => n - 1 = 0)
        /\ \A p \in 1 .. n - 1 : 1 + p - 1 = p
    BY <1>1
  <2> HIDE DEF a
  <2> QED
    BY <2>2, <2>3
<1>3. b \in Seq(S) /\ Len(b) = Len(s) - n /\ \A p \in 1 .. Len(s) - n : b[p] = s[n + p]
  <2>1. \A i \in n + 1 .. Len(s) : s[i] \in S
    BY <1>1, ElementOfSeq
  <2>2. /\ b \in Seq(S) /\ Len(b) = IF n + 1 <= Len(s) THEN Len(s) - (n + 1) + 1 ELSE 0
        /\ \A i \in 1 .. Len(s) - (n + 1) + 1 : b[i] = s[(n + 1) + i - 1]
    BY <1>1, <2>1, SubSeqProperties
  <2>3. /\ Len(s) - (n + 1) + 1 = Len(s) - n /\ (~(n + 1 <= Len(s)) => Len(s) - n = 0)
        /\ \A p \in 1 .. Len(s) - n : (n + 1) + p - 1 = n + p
    BY <1>1
  <2> HIDE DEF b
  <2> QED
    BY <2>2, <2>3
<1>4. RemoveAt(s, n) = a \o b
  BY DEF RemoveAt
<1> HIDE DEF a, b
<1>5. /\ a \o b \in Seq(S) /\ Len(a \o b) = Len(s) - 1
      /\ \A p \in 1 .. n - 1 : (a \o b)[p] = a[p]
      /\ \A p \in 1 .. Len(s) - n : (a \o b)[(n - 1) + p] = b[p]
  <2>1. /\ a \o b \in Seq(S) /\ Len(a \o b) = Len(a) + Len(b)
        /\ \A p \in 1 .. Len(a) : (a \o b)[p] = a[p]
        /\ \A p \in 1 .. Len(b) : (a \o b)[Len(a) + p] = b[p]
    <3>1. a \in Seq(S) /\ b \in Seq(S)
      BY <1>2, <1>3
    <3> QED
      BY <3>1, JoinedIs
  <2> QED
    BY <1>1, <1>2, <1>3, <2>1
<1>6. ASSUME NEW p \in n .. Len(s) - 1 PROVE (a \o b)[p] = s[p + 1]
  <2> DEFINE q == p - n + 1
  <2>1. q \in 1 .. Len(s) - n /\ (n - 1) + q = p /\ n + q = p + 1
    BY <1>1
  <2> HIDE DEF q
  <2>2. (a \o b)[(n - 1) + q] = b[q] /\ b[q] = s[n + q]
    BY <1>3, <1>5, <2>1
  <2> QED
    BY <2>1, <2>2
<1> QED
  BY <1>2, <1>4, <1>5, <1>6

(* EraseHashtable: the nodes behind it on its list move up, no other does.  *)
LEMMA WithoutIs ==
  ASSUME NEW t, Good(t), NEW k \in Stored(t), t.count > 0, t.used > 0
  PROVE  LET u == Without(t, k)  c == Index(t, k) IN
         /\ Good(u) /\ u.size = t.size /\ u.count = t.count - 1
         /\ c \in UsedLists(t)
         /\ \/ UsedLists(u) = UsedLists(t) /\ u.used = t.used
            \/ UsedLists(u) = UsedLists(t) \ {c} /\ u.used = t.used - 1
         /\ Stored(u) = Stored(t) \ {k}
         /\ \A j : Index(u, j) = Index(t, j)
         /\ \A j \in Stored(u) : Value(u, j) = Value(t, j)
         /\ \A i, j \in Stored(u) : Before(u, i, j) <=> Before(t, i, j)
<1> DEFINE u == Without(t, k)  c == Index(t, k)  n == Place(t, k)
           o == t.list[c]  l == RemoveAt(o, n)
<1>1. /\ c \in 0 .. t.size - 1 /\ ListOf(t, k) = o /\ o \in Seq(Node) /\ Len(o) \in Nat
      /\ n \in 1 .. Len(o) /\ o[n].key = k
      /\ t.used \in Nat /\ t.count \in Nat /\ t.size \in Nat
      /\ t = [size |-> t.size, used |-> t.used, count |-> t.count, list |-> t.list]
      /\ t.list \in [0 .. t.size - 1 -> Seq(Node)]
  BY PlaceIs, ListsAre DEF ListOf
<1>2. /\ l \in Seq(Node) /\ Len(l) = Len(o) - 1
      /\ \A p \in 1 .. n - 1 : l[p] = o[p]
      /\ \A p \in n .. Len(o) - 1 : l[p] = o[p + 1]
  BY <1>1, RemoveIs
<1>3. c \in UsedLists(t)
  <2>1. o # <<>>
    BY <1>1
  <2> QED
    BY <1>1, <2>1 DEF UsedLists
<1>4. /\ u.list = [t.list EXCEPT ![c] = l] /\ u.size = t.size /\ u.count = t.count - 1
      /\ u.used = IF l = <<>> THEN t.used - 1 ELSE t.used
      /\ u = [size |-> u.size, used |-> u.used, count |-> u.count, list |-> u.list]
  <2>1. u = [t EXCEPT !.list = [t.list EXCEPT ![c] = l], !.count = t.count - 1,
                      !.used = IF l = <<>> THEN t.used - 1 ELSE t.used]
    BY <1>1 DEF Without
  <2> HIDE DEF u, c, l, o
  <2> QED
    BY <1>1, <2>1
<1>5. u \in Table(t.size)
  <2>1. u.list \in [0 .. t.size - 1 -> Seq(Node)]
    BY <1>1, <1>2, <1>4
  <2>2. u.used \in Nat /\ u.count \in Nat
    BY <1>1, <1>4
  <2> QED
    BY <1>4, <2>1, <2>2 DEF Table
<1>6. ASSUME NEW p \in 1 .. Len(o)
      PROVE  /\ o[p].key \in Stored(t) /\ Index(t, o[p].key) = c /\ Place(t, o[p].key) = p
             /\ Value(t, o[p].key) = o[p].data
  <2> DEFINE j == o[p].key
  <2>1. NodeAt(t, c, p, j)
    BY <1>1 DEF NodeAt
  <2> HIDE DEF c, j
  <2>2. /\ j \in Stored(t) /\ Index(t, j) = c /\ Place(t, j) = p
        /\ Value(t, j) = o[p].data
    BY <2>1, PlaceOnly
  <2> QED
    BY <2>2 DEF j
<1>7. \A j \in Stored(t) : Index(t, j) = c =>
        Place(t, j) \in 1 .. Len(o) /\ o[Place(t, j)].key = j
  BY PlaceIs DEF ListOf
<1> DEFINE From(p) == IF p < n THEN p ELSE p + 1
<1> HIDE DEF u, c, n, o, l
<1>8. \A p \in 1 .. Len(l) : From(p) \in 1 .. Len(o) /\ From(p) # n /\ l[p] = o[From(p)]
  <2> SUFFICES ASSUME NEW p \in 1 .. Len(l)
               PROVE  From(p) \in 1 .. Len(o) /\ From(p) # n /\ l[p] = o[From(p)]
    OBVIOUS
  <2>1. CASE p < n
    BY <1>1, <1>2, <2>1
  <2>2. CASE ~(p < n)
    <3>1. p \in n .. Len(o) - 1
      BY <1>1, <1>2, <2>2
    <3>2. l[p] = o[p + 1] /\ From(p) = p + 1
      BY <1>2, <2>2, <3>1
    <3> QED
      BY <1>1, <3>1, <3>2
  <2> QED
    BY <2>1, <2>2
<1>9. \A p \in 1 .. Len(o) : p # n => \E q \in 1 .. Len(l) : From(q) = p
  <2> SUFFICES ASSUME NEW p \in 1 .. Len(o), p # n
               PROVE  \E q \in 1 .. Len(l) : From(q) = p
    OBVIOUS
  <2>1. CASE p < n
    <3>1. p \in 1 .. Len(l) /\ From(p) = p
      BY <1>1, <1>2, <2>1
    <3> QED
      BY <3>1
  <2>2. CASE p > n
    <3>1. p - 1 \in 1 .. Len(l) /\ From(p - 1) = p
      BY <1>1, <1>2, <2>2
    <3> QED
      BY <3>1
  <2> QED
    BY <1>1, <2>1, <2>2
<1>10. \A p, q \in 1 .. Len(l) : (From(p) < From(q) <=> p < q) /\ (From(p) = From(q) => p = q)
  <2> SUFFICES ASSUME NEW p \in 1 .. Len(l), NEW q \in 1 .. Len(l)
               PROVE  (From(p) < From(q) <=> p < q) /\ (From(p) = From(q) => p = q)
    OBVIOUS
  <2>1. p \in Int /\ q \in Int /\ n \in Int
    BY <1>1
  <2> QED
    BY <2>1
<1> HIDE DEF From
<1>11. \A p \in 1 .. Len(l) : Index(t, l[p].key) = c
  BY <1>6, <1>8
<1>12. \A p, q \in 1 .. Len(l) : l[p].key = l[q].key => p = q
  BY <1>6, <1>8, <1>10
<1>r. Replaced(t, u, c, l)
  BY <1>1, <1>2, <1>4, <1>5, <1>11, <1>12, ReplaceList DEF OneList
<1>13. /\ Good(u)
       /\ UsedLists(u) = IF l = <<>> THEN UsedLists(t) \ {c} ELSE UsedLists(t) \cup {c}
       /\ Stored(u) = {j \in Stored(t) : Index(t, j) # c} \cup {l[p].key : p \in 1 .. Len(l)}
       /\ \A j \in Stored(t) : Index(t, j) # c =>
            Place(u, j) = Place(t, j) /\ Value(u, j) = Value(t, j)
       /\ \A p \in 1 .. Len(l) : Place(u, l[p].key) = p /\ Value(u, l[p].key) = l[p].data
       /\ \A j : Index(u, j) = Index(t, j)
  BY <1>r DEF Replaced
<1>14. ASSUME NEW j \in Stored(t), Index(t, j) = c, j # k
       PROVE  /\ Place(u, j) \in 1 .. Len(l) /\ j = l[Place(u, j)].key
              /\ Place(t, j) = From(Place(u, j)) /\ Value(u, j) = Value(t, j)
  <2>1. Place(t, j) \in 1 .. Len(o) /\ o[Place(t, j)].key = j
    BY <1>7, <1>14
  <2>2. Place(t, j) # n
    BY <1>1, <1>14, <2>1
  <2>3. PICK q \in 1 .. Len(l) : From(q) = Place(t, j)
    BY <1>9, <2>1, <2>2
  <2>4. l[q] = o[Place(t, j)]
    BY <1>8, <2>3
  <2>5. Place(u, j) = q /\ Value(u, j) = l[q].data
    BY <1>13, <2>1, <2>4
  <2> QED
    BY <1>6, <2>1, <2>3, <2>4, <2>5
<1>15. Stored(u) = Stored(t) \ {k}
  <2>1. \A p \in 1 .. Len(l) : l[p].key \in Stored(t) \ {k}
    BY <1>1, <1>6, <1>8
  <2>2. \A j \in Stored(t) : Index(t, j) # c => j # k
    BY DEF c
  <2> QED
    BY <1>13, <1>14, <2>1, <2>2
<1>16. ASSUME NEW j \in Stored(u) PROVE Value(u, j) = Value(t, j)
  BY <1>13, <1>14, <1>15
<1>17. ASSUME NEW i \in Stored(u), NEW j \in Stored(u)
       PROVE  Before(u, i, j) <=> Before(t, i, j)
  <2>1. CASE Index(t, i) # Index(t, j)
    BY <1>13, <2>1 DEF Before
  <2>2. CASE Index(t, i) = Index(t, j) /\ Index(t, i) # c
    BY <1>13, <1>15, <2>2 DEF Before
  <2>3. CASE Index(t, i) = c /\ Index(t, j) = c
    <3>1. /\ Place(u, i) \in 1 .. Len(l) /\ Place(t, i) = From(Place(u, i))
          /\ Place(u, j) \in 1 .. Len(l) /\ Place(t, j) = From(Place(u, j))
      BY <1>14, <1>15, <2>3
    <3>2. Place(t, i) < Place(t, j) <=> Place(u, i) < Place(u, j)
      BY <1>10, <3>1
    <3> QED
      BY <1>13, <2>3, <3>2 DEF Before
  <2> QED
    BY <2>1, <2>2, <2>3
<1>18. \/ UsedLists(u) = UsedLists(t) /\ u.used = t.used
       \/ UsedLists(u) = UsedLists(t) \ {c} /\ u.used = t.used - 1
  BY <1>3, <1>4, <1>13
<1> QED
  BY <1>3, <1>4, <1>13, <1>15, <1>16, <1>17, <1>18 DEF u, c

(* SetHashtable on a key that is there. *)
LEMMA UpdatedIs ==
  ASSUME NEW t, Good(t), NEW k \in Stored(t), NEW d \in Data
  PROVE  LET u == Updated(t, k, d) IN
         /\ Good(u) /\ u.size = t.size /\ u.count = t.count /\ u.used = t.used
         /\ UsedLists(u) = UsedLists(t) /\ Stored(u) = Stored(t)
         /\ Value(u, k) = d
         /\ \A j : Index(u, j) = Index(t, j)
         /\ \A j \in Stored(t) : /\ Place(u, j) = Place(t, j)
                                 /\ j # k => Value(u, j) = Value(t, j)
<1> DEFINE u == Updated(t, k, d)  c == Index(t, k)  n == Place(t, k)
           o == t.list[c]  m == [key |-> k, data |-> d]  l == [o EXCEPT ![n] = m]
<1>1. /\ c \in 0 .. t.size - 1 /\ ListOf(t, k) = o /\ o \in Seq(Node) /\ Len(o) \in Nat
      /\ n \in 1 .. Len(o) /\ o[n].key = k /\ m \in Node
      /\ t.used \in Nat /\ t.count \in Nat /\ t.size \in Nat
      /\ t = [size |-> t.size, used |-> t.used, count |-> t.count, list |-> t.list]
      /\ t.list \in [0 .. t.size - 1 -> Seq(Node)]
  BY PlaceIs, ListsAre DEF ListOf, Node
<1>2. /\ l \in Seq(Node) /\ Len(l) = Len(o) /\ l[n] = m
      /\ \A p \in 1 .. Len(o) : p # n => l[p] = o[p]
  BY <1>1, ExceptSeq
<1>3. c \in UsedLists(t) /\ l # <<>>
  <2>1. o # <<>> /\ Len(l) # 0
    BY <1>1, <1>2
  <2> QED
    BY <1>1, <2>1 DEF UsedLists
<1>4. u = [t EXCEPT !.list = [t.list EXCEPT ![c] = l]]
  BY <1>1 DEF Updated
<1>5. u \in Table(t.size) /\ u.list = [t.list EXCEPT ![c] = l]
      /\ u.count = t.count /\ u.used = t.used
  <2> HIDE DEF u, c, l, o
  <2>1. u = [size |-> t.size, used |-> t.used, count |-> t.count, list |-> [t.list EXCEPT ![c] = l]]
    BY <1>1, <1>4
  <2> QED
    BY <1>1, <1>2, <2>1 DEF Table
<1>6. ASSUME NEW p \in 1 .. Len(o)
      PROVE  /\ o[p].key \in Stored(t) /\ Index(t, o[p].key) = c /\ Place(t, o[p].key) = p
             /\ Value(t, o[p].key) = o[p].data
  <2> DEFINE j == o[p].key
  <2>1. NodeAt(t, c, p, j)
    BY <1>1 DEF NodeAt
  <2> HIDE DEF c, j
  <2>2. /\ j \in Stored(t) /\ Index(t, j) = c /\ Place(t, j) = p
        /\ Value(t, j) = o[p].data
    BY <2>1, PlaceOnly
  <2> QED
    BY <2>2 DEF j
<1>7. m.key = k /\ m.data = d
  OBVIOUS
<1>8. \A j \in Stored(t) : Index(t, j) = c =>
        Place(t, j) \in 1 .. Len(o) /\ o[Place(t, j)].key = j
  BY PlaceIs DEF ListOf
<1> HIDE DEF u, c, n, o, m, l
<1>9. \A p \in 1 .. Len(o) : l[p].key = o[p].key /\ (p # n => l[p] = o[p])
  BY <1>1, <1>2, <1>7
<1>10. Len(l) = Len(o)
  BY <1>2
<1>11. /\ \A p \in 1 .. Len(l) : Index(t, l[p].key) = c
       /\ \A p, q \in 1 .. Len(l) : l[p].key = l[q].key => p = q
  BY <1>6, <1>9, <1>10
<1>r. Replaced(t, u, c, l)
  BY <1>1, <1>2, <1>5, <1>11, ReplaceList DEF OneList
<1>12. /\ Good(u) /\ u.size = t.size
       /\ UsedLists(u) = IF l = <<>> THEN UsedLists(t) \ {c} ELSE UsedLists(t) \cup {c}
       /\ Stored(u) = {j \in Stored(t) : Index(t, j) # c} \cup {l[p].key : p \in 1 .. Len(l)}
       /\ \A j \in Stored(t) : Index(t, j) # c =>
            Place(u, j) = Place(t, j) /\ Value(u, j) = Value(t, j)
       /\ \A p \in 1 .. Len(l) : Place(u, l[p].key) = p /\ Value(u, l[p].key) = l[p].data
       /\ \A j : Index(u, j) = Index(t, j)
  BY <1>r DEF Replaced
<1>13. ASSUME NEW j \in Stored(t), Index(t, j) = c
       PROVE  /\ \E p \in 1 .. Len(l) : l[p].key = j
              /\ Place(u, j) = Place(t, j) /\ (j # k => Value(u, j) = Value(t, j))
  <2>1. PICK p \in 1 .. Len(o) : p = Place(t, j) /\ o[p].key = j
    BY <1>8, <1>13
  <2>2. p \in 1 .. Len(l) /\ l[p].key = j
    BY <1>9, <1>10, <2>1
  <2>3. Place(u, j) = p /\ Value(u, j) = l[p].data
    BY <1>12, <2>2
  <2>4. j # k => l[p] = o[p]
    BY <1>1, <1>9, <2>1
  <2> QED
    BY <1>6, <2>1, <2>2, <2>3, <2>4
<1>14. Stored(u) = Stored(t)
  <2>1. \A p \in 1 .. Len(l) : l[p].key \in Stored(t)
    BY <1>6, <1>9, <1>10
  <2> QED
    BY <1>12, <1>13, <2>1
<1>15. Value(u, k) = d
  <2>1. n \in 1 .. Len(l) /\ l[n].key = k /\ l[n].data = d
    BY <1>1, <1>2, <1>7
  <2> QED
    BY <1>12, <2>1
<1> QED
  BY <1>3, <1>5, <1>12, <1>13, <1>14, <1>15 DEF u

(* A table without nodes: a new one, and one that _ClearHashtable emptied.  *)
LEMMA EmptyIs ==
  ASSUME NEW t, t.size \in Nat, t \in Table(t.size), \A i \in 0 .. t.size - 1 : t.list[i] = <<>>
  PROVE  Good(t) /\ Stored(t) = {} /\ UsedLists(t) = {}
<1>1. \A i \in 0 .. t.size - 1 : 1 .. Len(t.list[i]) = {}
  OBVIOUS
<1>2. Good(t)
  BY <1>1 DEF Good, Placed, OneNode
<1>3. Stored(t) = {}
  <2>1. \A k : k \notin Stored(t)
    BY <1>1, <1>2, StoredAre
  <2> QED
    BY <2>1
<1>4. UsedLists(t) = {}
  BY ListsAre, <1>2 DEF UsedLists
<1> QED
  BY <1>2, <1>3, <1>4

(* A new table has no nodes, and its counts say so. *)
LEMMA NewTableIs ==
  ASSUME NEW n \in Nat
  PROVE  LET t == NewTable(n) IN
         /\ Good(t) /\ t.size = n /\ Stored(t) = {} /\ Counted(t)
<1> DEFINE t == NewTable(n)
<1>1. /\ t.size = n /\ t.used = 0 /\ t.count = 0 /\ t \in Table(n)
      /\ \A i \in 0 .. n - 1 : t.list[i] = <<>>
  <2>1. <<>> \in Seq(Node)
    BY EmptySeq
  <2> QED
    BY <2>1 DEF NewTable, Table
<1> HIDE DEF t
<1>2. Good(t) /\ Stored(t) = {} /\ UsedLists(t) = {}
  BY <1>1, EmptyIs
<1>3. IsFiniteSet({}) /\ Cardinality({}) = 0
  BY FS_EmptySet
<1> QED
  BY <1>1, <1>2, <1>3 DEF Counted, t

(* _ClearHashtable leaves no node and both counts. *)
LEMMA EmptiedIs ==
  ASSUME NEW t, Good(t)
  PROVE  LET u == Emptied(t) IN
         /\ Good(u) /\ u.size = t.size /\ u.used = t.used /\ u.count = t.count
         /\ Stored(u) = {} /\ UsedLists(u) = {}
<1> DEFINE u == Emptied(t)
<1>1. /\ t.used \in Nat /\ t.count \in Nat /\ t.size \in Nat
      /\ t = [size |-> t.size, used |-> t.used, count |-> t.count, list |-> t.list]
      /\ t.list \in [0 .. t.size - 1 -> Seq(Node)]
  BY ListsAre
<1> DEFINE none == [i \in 0 .. t.size - 1 |-> <<>>]
<1>2. u = [size |-> t.size, used |-> t.used, count |-> t.count, list |-> none]
  <2>1. u = [t EXCEPT !.list = none]
    <3>1. DOMAIN t.list = 0 .. t.size - 1
      BY <1>1
    <3> QED
      BY <3>1 DEF Emptied
  <2> HIDE DEF u, none
  <2> QED
    BY <1>1, <2>1
<1> HIDE DEF u
<1>3. /\ u.size = t.size /\ u.used = t.used /\ u.count = t.count /\ u \in Table(t.size)
      /\ \A i \in 0 .. t.size - 1 : u.list[i] = <<>>
  <2>1. <<>> \in Seq(Node)
    BY EmptySeq
  <2> QED
    BY <1>1, <1>2, <2>1 DEF Table
<1> QED
  BY <1>1, <1>3, EmptyIs DEF u

-----------------------------------------------------------------------------
(* The order of a walk. *)

(* It is a strict order, of keys whose places are different. *)
LEMMA BeforeOrder ==
  ASSUME NEW t, Good(t)
  PROVE  /\ \A k \in Stored(t) : Index(t, k) \in Nat /\ Place(t, k) \in Nat /\ ~Before(t, k, k)
         /\ \A i, j, k \in Stored(t) : Before(t, i, j) /\ Before(t, j, k) => Before(t, i, k)
         /\ \A j, k \in Stored(t) : Index(t, j) = Index(t, k) /\ Place(t, j) = Place(t, k) => j = k
<1>1. \A k \in Stored(t) : Index(t, k) \in Nat /\ Place(t, k) \in Nat
  <2> SUFFICES ASSUME NEW k \in Stored(t) PROVE Index(t, k) \in Nat /\ Place(t, k) \in Nat
    OBVIOUS
  <2>1. Index(t, k) \in 0 .. t.size - 1 /\ t.size \in Nat
    BY PlaceIs
  <2>2. Place(t, k) \in 1 .. Len(ListOf(t, k)) /\ Len(ListOf(t, k)) \in Nat
    BY <2>1, PlaceIs, ListsAre DEF ListOf
  <2> QED
    BY <2>1, <2>2
<1>2. \A j, k \in Stored(t) : Index(t, j) = Index(t, k) /\ Place(t, j) = Place(t, k) => j = k
  <2> SUFFICES ASSUME NEW j \in Stored(t), NEW k \in Stored(t),
                      Index(t, j) = Index(t, k), Place(t, j) = Place(t, k)
               PROVE  j = k
    OBVIOUS
  <2>1. ListOf(t, j)[Place(t, j)].key = j /\ ListOf(t, k)[Place(t, k)].key = k
    BY PlaceIs
  <2> QED
    BY <2>1 DEF ListOf
<1>3. \A k \in Stored(t) : ~Before(t, k, k)
  BY <1>1 DEF Before
<1>4. \A i, j, k \in Stored(t) : Before(t, i, j) /\ Before(t, j, k) => Before(t, i, k)
  BY <1>1 DEF Before
<1> QED
  BY <1>1, <1>2, <1>3, <1>4

(* The first key from index i on comes before all others there. *)
Leads(t, k, i) ==
  /\ k \in Stored(t) /\ Index(t, k) >= i /\ Place(t, k) = 1
  /\ \A j \in Stored(t) : Index(t, j) >= i => j = k \/ Before(t, k, j)

(* HeadFrom finds the key that leads from index i on, if there is one. *)
LEMMA HeadFromIs ==
  ASSUME NEW t, Good(t), NEW i \in Nat
  PROVE  \/ HeadFrom(t, i) = Nowhere("end") /\ \A k \in Stored(t) : Index(t, k) < i
         \/ \E k : HeadFrom(t, i) = At(k) /\ Leads(t, k, i)
<1> DEFINE used == {j \in i .. t.size - 1 : t.list[j] # <<>>}
<1>1. t.size \in Nat /\ used \subseteq Nat
  BY ListsAre
<1>2. ASSUME NEW k \in Stored(t), Index(t, k) >= i
      PROVE  Index(t, k) \in used
  <2>1. /\ Index(t, k) \in 0 .. t.size - 1
        /\ Place(t, k) \in 1 .. Len(t.list[Index(t, k)])
    BY PlaceIs DEF ListOf
  <2>2. t.list[Index(t, k)] # <<>>
    BY <2>1
  <2> QED
    BY <1>1, <1>2, <2>1, <2>2
<1>3. CASE used = {}
  <2>1. HeadFrom(t, i) = Nowhere("end")
    BY <1>3 DEF HeadFrom
  <2>2. \A k \in Stored(t) : ~(Index(t, k) >= i)
    BY <1>2, <1>3
  <2> QED
    BY <2>1, <2>2, BeforeOrder
<1>4. CASE used # {}
  <2> DEFINE m == Min(used)  k == Head(t.list[m]).key
  <2>1. m \in used /\ \A j \in used : m <= j
    <3>1. \E x \in used : \A j \in used : x <= j
      BY <1>1, <1>4, FirstPosition
    <3> HIDE DEF used
    <3> QED
      BY <3>1 DEF Min
  <2>2. HeadFrom(t, i) = At(k)
    BY <1>4 DEF HeadFrom
  <2>3. m \in 0 .. t.size - 1 /\ m >= i /\ m \in Nat
    BY <1>1, <2>1
  <2>4. t.list[m] \in Seq(Node) /\ t.list[m] # <<>>
    BY <2>1, <2>3, ListsAre
  <2>5. 1 \in 1 .. Len(t.list[m]) /\ Head(t.list[m]) = t.list[m][1]
    BY <2>4, EmptySeq, HeadTailProperties
  <2>6. NodeAt(t, m, 1, k)
    BY <2>3, <2>5 DEF NodeAt
  <2> HIDE DEF m, k, used
  <2>7. k \in Stored(t) /\ Index(t, k) = m /\ Place(t, k) = 1
    BY <2>6, PlaceOnly
  <2>8. ASSUME NEW j \in Stored(t), Index(t, j) >= i, j # k
        PROVE  Before(t, k, j)
    <3>1. m <= Index(t, j) /\ Index(t, j) \in Nat
      BY <1>2, <2>1, <2>8, BeforeOrder
    <3>2. Place(t, j) \in 1 .. Len(ListOf(t, j)) /\ Place(t, j) \in Nat
      BY PlaceIs, BeforeOrder
    <3>3. Index(t, j) = m => Place(t, j) # 1
      BY <2>7, <2>8, BeforeOrder
    <3> QED
      BY <2>3, <2>7, <3>1, <3>2, <3>3 DEF Before
  <2>9. Leads(t, k, i)
    BY <2>3, <2>7, <2>8 DEF Leads
  <2> QED
    BY <2>2, <2>9
<1> QED
  BY <1>3, <1>4

(* The key that follows k comes before all others that do. *)
Follows(t, k, x) ==
  /\ x \in Stored(t) /\ Before(t, k, x)
  /\ \A j \in Stored(t) : Before(t, k, j) => j = x \/ Before(t, x, j)

(* NextNode finds the key that follows, if there is one. *)
LEMMA NextIs ==
  ASSUME NEW t, Good(t), NEW k \in Stored(t)
  PROVE  \/ NextNode(t, k) = Nowhere("end") /\ \A j \in Stored(t) : ~Before(t, k, j)
         \/ \E x : NextNode(t, k) = At(x) /\ Follows(t, k, x)
<1> DEFINE c == Index(t, k)  p == Place(t, k)  l == ListOf(t, k)
<1>1. /\ c \in 0 .. t.size - 1 /\ c \in Nat /\ p \in 1 .. Len(l) /\ p \in Nat
      /\ l = t.list[c] /\ Len(l) \in Nat
  BY PlaceIs, BeforeOrder, ListsAre DEF ListOf
<1>2. NextNode(t, k) = IF p < Len(l) THEN At(l[p + 1].key) ELSE HeadFrom(t, c + 1)
  BY DEF NextNode
<1>3. \A j \in Stored(t) : /\ Index(t, j) \in Nat /\ Place(t, j) \in Nat
                           /\ Index(t, j) = c => Place(t, j) \in 1 .. Len(l)
  BY PlaceIs, BeforeOrder DEF ListOf
<1>4. CASE p < Len(l)
  <2> DEFINE x == l[p + 1].key
  <2>1. NodeAt(t, c, p + 1, x)
    BY <1>1, <1>4 DEF NodeAt
  <2> HIDE DEF x
  <2>2. x \in Stored(t) /\ Index(t, x) = c /\ Place(t, x) = p + 1
    BY <2>1, PlaceOnly
  <2>3. Before(t, k, x)
    BY <1>1, <2>2 DEF Before
  <2>4. ASSUME NEW j \in Stored(t), Before(t, k, j), j # x
        PROVE  Before(t, x, j)
    <3>1. CASE c < Index(t, j)
      BY <2>2, <3>1 DEF Before
    <3>2. CASE c = Index(t, j) /\ p < Place(t, j)
      <4>1. Place(t, j) # p + 1
        BY <2>2, <2>4, <3>2, BeforeOrder
      <4>2. p + 1 < Place(t, j)
        BY <1>1, <1>3, <3>2, <4>1
      <4> QED
        BY <2>2, <3>2, <4>2 DEF Before
    <3> QED
      BY <2>4, <3>1, <3>2 DEF Before
  <2>5. Follows(t, k, x)
    BY <2>2, <2>3, <2>4 DEF Follows
  <2>6. NextNode(t, k) = At(x)
    BY <1>2, <1>4 DEF x
  <2> QED
    BY <2>5, <2>6
<1>5. CASE ~(p < Len(l))
  <2>1. \A j \in Stored(t) : Before(t, k, j) <=> Index(t, j) >= c + 1
    BY <1>1, <1>3, <1>5 DEF Before
  <2>2. c + 1 \in Nat /\ NextNode(t, k) = HeadFrom(t, c + 1)
    BY <1>1, <1>2, <1>5
  <2> HIDE DEF c, p, l
  <2>3. CASE HeadFrom(t, c + 1) = Nowhere("end") /\ \A j \in Stored(t) : Index(t, j) < c + 1
    BY <1>3, <2>1, <2>2, <2>3
  <2>4. ASSUME NEW x, HeadFrom(t, c + 1) = At(x), Leads(t, x, c + 1)
        PROVE  NextNode(t, k) = At(x) /\ Follows(t, k, x)
    BY <2>1, <2>2, <2>4 DEF Leads, Follows
  <2> QED
    BY <2>2, <2>3, <2>4, HeadFromIs
<1> QED
  BY <1>4, <1>5

(* A walk starts with the key before all others. *)
LEMMA FirstIs ==
  ASSUME NEW t, Good(t), Enough(t)
  PROVE  \/ FirstNode(t) = Nowhere("end") /\ Stored(t) = {}
         \/ \E x \in Stored(t) : /\ FirstNode(t) = At(x)
                                 /\ \A j \in Stored(t) : j = x \/ Before(t, x, j)
<1>1. CASE t.count = 0
  <2>1. Cardinality(Stored(t)) \in Nat /\ Cardinality(Stored(t)) <= 0
    BY <1>1, FS_CardinalityType DEF Enough
  <2>2. Stored(t) = {}
    BY <2>1, FS_EmptySet DEF Enough
  <2> QED
    BY <1>1, <2>2 DEF FirstNode
<1>2. CASE t.count # 0
  <2>1. FirstNode(t) = HeadFrom(t, 0)
    BY <1>2 DEF FirstNode
  <2>2. \A j \in Stored(t) : Index(t, j) \in Nat /\ Index(t, j) >= 0 /\ ~(Index(t, j) < 0)
    BY BeforeOrder
  <2>3. CASE HeadFrom(t, 0) = Nowhere("end") /\ \A j \in Stored(t) : Index(t, j) < 0
    BY <2>1, <2>2, <2>3
  <2>4. ASSUME NEW x, HeadFrom(t, 0) = At(x), Leads(t, x, 0)
        PROVE  /\ x \in Stored(t) /\ FirstNode(t) = At(x)
               /\ \A j \in Stored(t) : j = x \/ Before(t, x, j)
    BY <2>1, <2>2, <2>4 DEF Leads
  <2> QED
    BY <2>3, <2>4, HeadFromIs
<1> QED
  BY <1>1, <1>2

-----------------------------------------------------------------------------
(* The table grows. *)

(* What a step applied to each of L things in turn makes of c exists.       *)
Runs(g, S, c, f, L) ==
  g \in [0 .. L -> S] /\ g[0] = c /\ \A i \in 1 .. L : g[i] = f[<<g[i - 1], i>>]

(* There is such a run: by the least length that has none. *)
LEMMA RunExists ==
  ASSUME NEW S, NEW c \in S, NEW L \in Nat, NEW f \in [S \X (1 .. L) -> S]
  PROVE  \E g : Runs(g, S, c, f, L)
<1> DEFINE Bad == {n \in 0 .. L : ~(\E g : Runs(g, S, c, f, n))}
<1>1. ASSUME Bad # {} PROVE FALSE
  <2>1. Bad \in SUBSET Nat
    OBVIOUS
  <2>2. PICK n \in Bad : \A m \in Bad : n <= m
    BY <1>1, <2>1, FirstPosition
  <2>3. n \in 0 .. L /\ ~(\E g : Runs(g, S, c, f, n))
    OBVIOUS
  <2>4. CASE n = 0
    <3>1. Runs([i \in 0 .. 0 |-> c], S, c, f, 0)
      BY DEF Runs
    <3> QED
      BY <2>3, <2>4, <3>1
  <2>5. CASE n # 0
    <3>1. n - 1 \in 0 .. L /\ n - 1 \notin Bad /\ n \in 1 .. L
      BY <2>2, <2>3, <2>5
    <3>2. PICK g : Runs(g, S, c, f, n - 1)
      BY <3>1
    <3>3. /\ g \in [0 .. n - 1 -> S] /\ g[0] = c
          /\ \A i \in 1 .. n - 1 : g[i] = f[<<g[i - 1], i>>]
      BY <3>2 DEF Runs
    <3> DEFINE x == f[<<g[n - 1], n>>]  h == [i \in 0 .. n |-> IF i = n THEN x ELSE g[i]]
    <3>4. g[n - 1] \in S /\ x \in S
      BY <3>1, <3>3
    <3>5. h \in [0 .. n -> S] /\ h[n] = x /\ \A i \in 0 .. n - 1 : h[i] = g[i]
      BY <3>1, <3>3, <3>4
    <3> HIDE DEF h, x
    <3>6. h[0] = c
      BY <3>1, <3>3, <3>5
    <3>7. ASSUME NEW i \in 1 .. n PROVE h[i] = f[<<h[i - 1], i>>]
      <4>1. h[i - 1] = g[i - 1]
        BY <3>1, <3>5
      <4>2. CASE i = n
        BY <3>5, <4>1, <4>2 DEF x
      <4>3. CASE i # n
        <5>1. i \in 1 .. n - 1 /\ i \in 0 .. n - 1
          BY <3>1, <4>3
        <5> QED
          BY <3>3, <3>5, <4>1, <5>1
      <4> QED
        BY <4>2, <4>3
    <3>8. Runs(h, S, c, f, n)
      BY <3>5, <3>6, <3>7 DEF Runs
    <3> QED
      BY <2>3, <3>8
  <2> QED
    BY <2>4, <2>5
<1>2. L \in 0 .. L
  OBVIOUS
<1> QED
  BY <1>1, <1>2

(* The nodes of the lists before i, each once. *)
UpTo(t, i, s) ==
  /\ s \in Seq(Node)
  /\ \A q \in 1 .. Len(s) : /\ s[q].key \in Stored(t) /\ Index(t, s[q].key) < i
                            /\ s[q].data = Value(t, s[q].key)
  /\ \A q, r \in 1 .. Len(s) : s[q].key = s[r].key => q = r
  /\ \A k \in Stored(t) : Index(t, k) < i => \E q \in 1 .. Len(s) : s[q].key = k

(* One more list makes it the nodes of the lists before i + 1. *)
LEMMA UpToNext ==
  ASSUME NEW t, Good(t), NEW i \in 0 .. t.size - 1, NEW s, UpTo(t, i, s)
  PROVE  UpTo(t, i + 1, s \o t.list[i])
<1> DEFINE l == t.list[i]  u == s \o l
<1>1. l \in Seq(Node) /\ s \in Seq(Node)
  BY ListsAre DEF UpTo
<1>2. ASSUME NEW p \in 1 .. Len(l)
      PROVE  /\ l[p].key \in Stored(t) /\ Index(t, l[p].key) = i /\ Place(t, l[p].key) = p
             /\ l[p].data = Value(t, l[p].key)
  <2> DEFINE k == l[p].key
  <2>1. NodeAt(t, i, p, k)
    BY DEF NodeAt
  <2> HIDE DEF k
  <2>2. k \in Stored(t) /\ Index(t, k) = i /\ Place(t, k) = p /\ Value(t, k) = t.list[i][p].data
    BY <2>1, PlaceOnly
  <2> QED
    BY <2>2 DEF k
<1>3. ASSUME NEW k \in Stored(t), Index(t, k) = i
      PROVE  \E p \in 1 .. Len(l) : l[p].key = k
  <2>1. Place(t, k) \in 1 .. Len(ListOf(t, k)) /\ ListOf(t, k)[Place(t, k)].key = k
    BY PlaceIs
  <2>2. ListOf(t, k) = l
    BY <1>3 DEF ListOf
  <2> HIDE DEF l
  <2> QED
    BY <2>1, <2>2
<1>4. \A k \in Stored(t) : Index(t, k) \in Nat
  BY BeforeOrder
<1> HIDE DEF l
<1>5. /\ u \in Seq(Node) /\ Len(u) = Len(s) + Len(l) /\ Len(s) \in Nat /\ Len(l) \in Nat
      /\ \A p \in 1 .. Len(s) : p \in 1 .. Len(u) /\ u[p] = s[p]
      /\ \A p \in 1 .. Len(l) : Len(s) + p \in 1 .. Len(u) /\ u[Len(s) + p] = l[p]
      /\ \A p \in 1 .. Len(u) : p \in 1 .. Len(s) \/ \E q \in 1 .. Len(l) : p = Len(s) + q
  BY <1>1, JoinedIs
<1>6. /\ \A q \in 1 .. Len(s) : /\ s[q].key \in Stored(t) /\ Index(t, s[q].key) < i
                                /\ s[q].data = Value(t, s[q].key)
      /\ \A q, r \in 1 .. Len(s) : s[q].key = s[r].key => q = r
      /\ \A k \in Stored(t) : Index(t, k) < i => \E q \in 1 .. Len(s) : s[q].key = k
  BY DEF UpTo
<1> HIDE DEF u
<1>7. ASSUME NEW q \in 1 .. Len(u)
      PROVE  /\ u[q].key \in Stored(t) /\ Index(t, u[q].key) < i + 1
             /\ u[q].data = Value(t, u[q].key)
  <2>1. CASE q \in 1 .. Len(s)
    <3>1. u[q] = s[q]
      BY <1>5, <2>1
    <3>2. /\ s[q].key \in Stored(t) /\ Index(t, s[q].key) < i
          /\ s[q].data = Value(t, s[q].key)
      BY <1>6, <2>1
    <3>3. Index(t, s[q].key) < i + 1
      BY <1>4, <3>2
    <3> QED
      BY <3>1, <3>2, <3>3
  <2>2. ASSUME NEW p \in 1 .. Len(l), q = Len(s) + p
        PROVE  /\ u[q].key \in Stored(t) /\ Index(t, u[q].key) < i + 1
               /\ u[q].data = Value(t, u[q].key)
    <3>1. u[q] = l[p]
      BY <1>5, <2>2
    <3> QED
      BY <1>2, <3>1
  <2> QED
    BY <1>5, <2>1, <2>2
<1>8. ASSUME NEW q \in 1 .. Len(s), NEW p \in 1 .. Len(l) PROVE s[q].key # l[p].key
  BY <1>2, <1>6
<1>9. ASSUME NEW q \in 1 .. Len(u), NEW r \in 1 .. Len(u), u[q].key = u[r].key
      PROVE  q = r
  <2>1. CASE q \in 1 .. Len(s) /\ r \in 1 .. Len(s)
    BY <1>5, <1>6, <1>9, <2>1
  <2>2. ASSUME NEW x \in 1 .. Len(l), NEW y \in 1 .. Len(l), q = Len(s) + x, r = Len(s) + y
        PROVE  q = r
    <3>1. l[x].key = l[y].key
      BY <1>5, <1>9, <2>2
    <3>2. x = y
      BY <1>2, <3>1
    <3> QED
      BY <2>2, <3>2
  <2>3. ASSUME NEW x \in 1 .. Len(l), q \in 1 .. Len(s), r = Len(s) + x PROVE FALSE
    <3>1. u[q] = s[q] /\ u[r] = l[x]
      BY <1>5, <2>3
    <3> QED
      BY <1>8, <1>9, <2>3, <3>1
  <2>4. ASSUME NEW x \in 1 .. Len(l), r \in 1 .. Len(s), q = Len(s) + x PROVE FALSE
    <3>1. u[r] = s[r] /\ u[q] = l[x]
      BY <1>5, <2>4
    <3> QED
      BY <1>8, <1>9, <2>4, <3>1
  <2> QED
    BY <1>5, <2>1, <2>2, <2>3, <2>4
<1>10. ASSUME NEW k \in Stored(t), Index(t, k) < i + 1
       PROVE  \E q \in 1 .. Len(u) : u[q].key = k
  <2>1. CASE Index(t, k) < i
    <3>1. PICK q \in 1 .. Len(s) : s[q].key = k
      BY <1>6, <2>1
    <3> QED
      BY <1>5, <3>1
  <2>2. CASE Index(t, k) = i
    <3>1. PICK p \in 1 .. Len(l) : l[p].key = k
      BY <1>3, <2>2
    <3> QED
      BY <1>5, <3>1
  <2> QED
    BY <1>4, <1>10, <2>1, <2>2
<1> QED
  BY <1>5, <1>7, <1>9, <1>10 DEF UpTo, u, l

(* A walk over the whole table meets every node once. *)
LEMMA InOrderIs ==
  ASSUME NEW t, Good(t), Enough(t)
  PROVE  UpTo(t, t.size, InOrder(t))
<1>1. t.size \in Nat /\ t.list \in [0 .. t.size - 1 -> Seq(Node)]
  BY ListsAre
<1>2. \A k \in Stored(t) : Index(t, k) \in Nat /\ Index(t, k) < t.size
  BY PlaceIs, BeforeOrder
<1>3. <<>> \in Seq(Node) /\ Len(<<>>) = 0
  BY EmptySeq
<1>4. CASE t.count = 0
  <2>1. InOrder(t) = <<>>
    BY <1>4 DEF InOrder
  <2>2. Cardinality(Stored(t)) = 0
    BY <1>4, FS_CardinalityType DEF Enough
  <2>3. Stored(t) = {}
    BY <2>2, FS_EmptySet DEF Enough
  <2> QED
    BY <1>3, <2>1, <2>3 DEF UpTo
<1>5. CASE t.count # 0
  <2> DEFINE upTo == CHOOSE u : u = [i \in 0 .. t.size |-> IF i = 0 THEN <<>> ELSE u[i - 1] \o t.list[i - 1]]
  <2>1. InOrder(t) = upTo[t.size]
    BY <1>5 DEF InOrder
  <2> DEFINE f == [x \in Seq(Node) \X (1 .. t.size) |-> x[1] \o t.list[x[2] - 1]]
  <2>2. f \in [Seq(Node) \X (1 .. t.size) -> Seq(Node)]
    <3> SUFFICES ASSUME NEW s \in Seq(Node), NEW i \in 1 .. t.size
                 PROVE  s \o t.list[i - 1] \in Seq(Node)
      OBVIOUS
    <3>1. t.list[i - 1] \in Seq(Node)
      BY <1>1
    <3> QED
      BY <3>1, ConcatProperties
  <2>7. \A s \in Seq(Node), i \in 1 .. t.size : f[<<s, i>>] = s \o t.list[i - 1]
    OBVIOUS
  <2> HIDE DEF f
  <2>b. PICK g : Runs(g, Seq(Node), <<>>, f, t.size)
    BY <1>1, <1>3, <2>2, RunExists
  <2>3. /\ g \in [0 .. t.size -> Seq(Node)] /\ g[0] = <<>>
        /\ \A i \in 1 .. t.size : g[i] = f[<<g[i - 1], i>>]
    BY <2>b DEF Runs
  <2>4. g = [i \in 0 .. t.size |-> IF i = 0 THEN <<>> ELSE g[i - 1] \o t.list[i - 1]]
    <3>1. ASSUME NEW i \in 1 .. t.size PROVE g[i] = g[i - 1] \o t.list[i - 1]
      <4>1. i - 1 \in 0 .. t.size
        BY <1>1
      <4>2. g[i - 1] \in Seq(Node)
        BY <2>3, <4>1
      <4> QED
        BY <2>3, <2>7, <4>2
    <3>2. g = [i \in 0 .. t.size |-> g[i]]
      BY <2>3
    <3>3. ASSUME NEW i \in 0 .. t.size
          PROVE  g[i] = IF i = 0 THEN <<>> ELSE g[i - 1] \o t.list[i - 1]
      <4>1. i = 0 \/ i \in 1 .. t.size
        BY <1>1
      <4> QED
        BY <2>3, <3>1, <4>1
    <3> QED
      BY <3>2, <3>3
  <2>5. upTo = [i \in 0 .. t.size |-> IF i = 0 THEN <<>> ELSE upTo[i - 1] \o t.list[i - 1]]
    BY <2>4
  <2> HIDE DEF upTo
  <2> DEFINE Bad == {i \in 0 .. t.size : ~UpTo(t, i, upTo[i])}
  <2>6. ASSUME Bad # {} PROVE FALSE
    <3>1. Bad \in SUBSET Nat
      BY <1>1
    <3>2. PICK n \in Bad : \A m \in Bad : n <= m
      BY <2>6, <3>1, FirstPosition
    <3>3. n \in 0 .. t.size /\ ~UpTo(t, n, upTo[n])
      OBVIOUS
    <3>4. CASE n = 0
      <4>1. upTo[0] = <<>>
        BY <1>1, <2>5
      <4>2. \A k \in Stored(t) : ~(Index(t, k) < 0)
        BY <1>2
      <4>3. UpTo(t, 0, <<>>)
        BY <1>3, <4>2 DEF UpTo
      <4> QED
        BY <3>3, <3>4, <4>1, <4>3
    <3>5. CASE n # 0
      <4>1. n - 1 \in 0 .. t.size - 1 /\ n - 1 \in 0 .. t.size /\ n - 1 \notin Bad /\ (n - 1) + 1 = n
        BY <1>1, <3>2, <3>3, <3>5
      <4>2. UpTo(t, n - 1, upTo[n - 1])
        BY <4>1
      <4>3. UpTo(t, (n - 1) + 1, upTo[n - 1] \o t.list[n - 1])
        BY <4>1, <4>2, UpToNext
      <4>4. upTo[n] = upTo[n - 1] \o t.list[n - 1]
        BY <1>1, <2>5, <3>3, <3>5
      <4> QED
        BY <3>3, <4>1, <4>3, <4>4
    <3> QED
      BY <3>4, <3>5
  <2>8. t.size \in 0 .. t.size
    BY <1>1
  <2> QED
    BY <2>1, <2>6, <2>8
<1> QED
  BY <1>4, <1>5

-----------------------------------------------------------------------------
(* The counts. *)

(* The lists in use can be counted. *)
LEMMA UsedAreFinite ==
  ASSUME NEW t, Good(t)
  PROVE  IsFiniteSet(UsedLists(t)) /\ Cardinality(UsedLists(t)) \in Nat
<1>1. IsFiniteSet(0 .. t.size - 1)
  BY FS_Interval DEF Good
<1>2. UsedLists(t) \subseteq 0 .. t.size - 1
  BY ListsAre DEF UsedLists
<1> QED
  BY <1>1, <1>2, FS_Subset, FS_CardinalityType

(* An addition keeps the counts true, ... *)
LEMMA InsertCounts ==
  ASSUME NEW t, Good(t), t.size # 0, NEW k \in Keys, k \notin Stored(t), NEW d \in Data
  PROVE  /\ Counted(t) => Counted(Insert(t, k, d))
         /\ Enough(t) => Enough(Insert(t, k, d))
<1> DEFINE u == Insert(t, k, d)  c == Index(t, k)
<1>1. /\ Good(u) /\ u.count = t.count + 1
      /\ u.used = IF c \in UsedLists(t) THEN t.used ELSE t.used + 1
      /\ UsedLists(u) = UsedLists(t) \cup {c} /\ Stored(u) = Stored(t) \cup {k}
  BY InsertIs
<1>2. t.used \in Nat /\ t.count \in Nat
  BY ListsAre
<1> HIDE DEF u, c
<1>3. IsFiniteSet(UsedLists(t)) /\ Cardinality(UsedLists(t)) \in Nat
  BY UsedAreFinite
<1>4. Cardinality(UsedLists(u)) = IF c \in UsedLists(t) THEN Cardinality(UsedLists(t))
                                  ELSE Cardinality(UsedLists(t)) + 1
  <2>1. Cardinality(UsedLists(t) \cup {c}) =
          IF c \in UsedLists(t) THEN Cardinality(UsedLists(t)) ELSE Cardinality(UsedLists(t)) + 1
    BY <1>3, FS_AddElement
  <2> QED
    BY <1>1, <2>1
<1>5. ASSUME IsFiniteSet(Stored(t))
      PROVE  /\ IsFiniteSet(Stored(u)) /\ Cardinality(Stored(t)) \in Nat
             /\ Cardinality(Stored(u)) = Cardinality(Stored(t)) + 1
  <2>1. /\ IsFiniteSet(Stored(t) \cup {k}) /\ Cardinality(Stored(t)) \in Nat
        /\ Cardinality(Stored(t) \cup {k}) = Cardinality(Stored(t)) + 1
    BY <1>5, FS_AddElement, FS_CardinalityType
  <2> QED
    BY <1>1, <2>1
<1>6. Counted(t) => Counted(u)
  BY <1>1, <1>4, <1>5 DEF Counted
<1>7. Enough(t) => Enough(u)
  BY <1>1, <1>2, <1>3, <1>4, <1>5 DEF Enough
<1> QED
  BY <1>6, <1>7 DEF u

(* ... and so does an erasure, which takes from counts that are not zero.   *)
LEMMA WithoutCounts ==
  ASSUME NEW t, Good(t), Enough(t), NEW k \in Stored(t)
  PROVE  /\ t.count > 0 /\ t.used > 0
         /\ Counted(t) => Counted(Without(t, k))
         /\ Enough(Without(t, k))
<1> DEFINE u == Without(t, k)  c == Index(t, k)
<1>1. t.used \in Nat /\ t.count \in Nat /\ IsFiniteSet(Stored(t))
  BY ListsAre DEF Enough
<1>2. IsFiniteSet(UsedLists(t)) /\ Cardinality(UsedLists(t)) \in Nat
  BY UsedAreFinite
<1>3. /\ Cardinality(Stored(t)) \in Nat /\ Cardinality(Stored(t)) # 0
      /\ IsFiniteSet(Stored(t) \ {k})
      /\ Cardinality(Stored(t) \ {k}) = Cardinality(Stored(t)) - 1
  BY <1>1, FS_RemoveElement, FS_CardinalityType, FS_EmptySet
<1>4. c \in UsedLists(t)
  <2>1. c \in 0 .. t.size - 1 /\ Place(t, k) \in 1 .. Len(t.list[c])
    BY PlaceIs DEF ListOf
  <2>2. t.list[c] # <<>>
    BY <2>1
  <2> QED
    BY <2>1, <2>2, ListsAre DEF UsedLists
<1>5. /\ Cardinality(UsedLists(t)) # 0
      /\ Cardinality(UsedLists(t) \ {c}) = Cardinality(UsedLists(t)) - 1
  BY <1>2, <1>4, FS_RemoveElement, FS_EmptySet
<1>6. t.count > 0 /\ t.used > 0
  BY <1>1, <1>2, <1>3, <1>5 DEF Enough
<1>7. /\ u.count = t.count - 1 /\ Stored(u) = Stored(t) \ {k}
      /\ \/ UsedLists(u) = UsedLists(t) /\ u.used = t.used
         \/ UsedLists(u) = UsedLists(t) \ {c} /\ u.used = t.used - 1
  BY <1>6, WithoutIs
<1> HIDE DEF u, c
<1>8. Counted(t) => Counted(u)
  BY <1>3, <1>5, <1>7 DEF Counted
<1>9. Enough(u)
  BY <1>1, <1>2, <1>3, <1>5, <1>7 DEF Enough
<1> QED
  BY <1>6, <1>8, <1>9 DEF u

(* True counts are high enough. *)
LEMMA CountedEnough ==
  ASSUME NEW t, Good(t), Counted(t)
  PROVE  Enough(t)
<1>1. t.used \in Nat /\ t.count \in Nat
  BY ListsAre
<1> QED
  BY <1>1 DEF Counted, Enough
-----------------------------------------------------------------------------
(* What is left to do, and done, when i nodes of s have been moved to u.    *)
Moved(s, i, u, n) ==
  /\ Good(u) /\ u.size = n /\ Counted(u)
  /\ Stored(u) = {s[q].key : q \in 1 .. i}
  /\ \A q \in 1 .. i : Value(u, s[q].key) = s[q].data

(* One more node is moved. *)
LEMMA MoveNext ==
  ASSUME NEW s \in Seq(Node), NEW i \in 1 .. Len(s), NEW n \in Nat \ {0}, NEW u,
         \A q, r \in 1 .. Len(s) : s[q].key = s[r].key => q = r,
         Moved(s, i - 1, u, n)
  PROVE  Moved(s, i, Insert(u, s[i].key, s[i].data), n)
<1> DEFINE k == s[i].key  d == s[i].data  v == Insert(u, k, d)
<1>1. Len(s) \in Nat /\ k \in Keys /\ d \in Data
  <2>1. Len(s) \in Nat /\ s[i] \in Node
    BY LenProperties, ElementOfSeq
  <2> QED
    BY <2>1 DEF Node
<1>2. /\ Good(u) /\ u.size = n /\ Counted(u)
      /\ Stored(u) = {s[q].key : q \in 1 .. i - 1}
      /\ \A q \in 1 .. i - 1 : Value(u, s[q].key) = s[q].data
  BY DEF Moved
<1>3. \A q \in 1 .. i - 1 : q \in 1 .. Len(s) /\ q # i
  BY <1>1
<1>4. k \notin Stored(u)
  BY <1>2, <1>3
<1> HIDE DEF k, d
<1>5. /\ Good(v) /\ v.size = u.size /\ Stored(v) = Stored(u) \cup {k} /\ Value(v, k) = d
      /\ \A j \in Stored(u) : Value(v, j) = Value(u, j)
  BY <1>1, <1>2, <1>4, InsertIs
<1>6. Counted(v)
  BY <1>1, <1>2, <1>4, InsertCounts
<1> HIDE DEF v
<1>7. \A q \in 1 .. i : q \in 1 .. i - 1 \/ q = i
  OBVIOUS
<1>8. i \in 1 .. i /\ \A q \in 1 .. i - 1 : q \in 1 .. i
  OBVIOUS
<1>9. Stored(v) = {s[q].key : q \in 1 .. i}
  <2>1. {s[q].key : q \in 1 .. i} = {s[q].key : q \in 1 .. i - 1} \cup {s[i].key}
    BY <1>7, <1>8
  <2> QED
    BY <1>2, <1>5, <2>1 DEF k
<1>10. ASSUME NEW q \in 1 .. i PROVE Value(v, s[q].key) = s[q].data
  <2>1. CASE q = i
    BY <1>5, <2>1 DEF k, d
  <2>2. CASE q \in 1 .. i - 1
    BY <1>2, <1>5, <2>2
  <2> QED
    BY <1>7, <2>1, <2>2
<1> QED
  BY <1>2, <1>5, <1>6, <1>9, <1>10 DEF Moved, v, k, d

(* Growth loses no node, doubles none and counts them all. *)
LEMMA RehashedIs ==
  ASSUME NEW t, Good(t), Enough(t), 0 < t.size, t.size < MaxSize
  PROVE  LET r == Rehashed(t) IN
         /\ Good(r) /\ t.size < r.size /\ r.size <= MaxSize /\ Counted(r)
         /\ Stored(r) = Stored(t) /\ \A k \in Stored(t) : Value(r, k) = Value(t, k)
<1> DEFINE n == Min({2 * t.size, MaxSize})  s == InOrder(t)  r == Rehashed(t)
<1>1. n \in Nat \ {0} /\ t.size < n /\ n <= MaxSize
  <2>1. t.size \in Nat /\ MaxSize \in Nat
    BY ListsAre, HashAssumption DEF HashAssumption
  <2>2. \E x \in {2 * t.size, MaxSize} : \A y \in {2 * t.size, MaxSize} : x <= y
    BY <2>1
  <2>3. n \in {2 * t.size, MaxSize} /\ \A y \in {2 * t.size, MaxSize} : n <= y
    BY <2>2 DEF Min
  <2> QED
    BY <2>1, <2>3
<1>2. UpTo(t, t.size, s)
  BY InOrderIs
<1>3. /\ s \in Seq(Node) /\ Len(s) \in Nat
      /\ \A q, p \in 1 .. Len(s) : s[q].key = s[p].key => q = p
  BY <1>2, LenProperties DEF UpTo
<1> DEFINE new == CHOOSE g : g = [i \in 0 .. Len(s) |->
                     IF i = 0 THEN NewTable(n) ELSE Insert(g[i - 1], s[i].key, s[i].data)]
<1>4. r = new[Len(s)]
  BY DEF Rehashed
<1> DEFINE f == [x \in Table(n) \X (1 .. Len(s)) |-> Insert(x[1], s[x[2]].key, s[x[2]].data)]
<1>5. new = [i \in 0 .. Len(s) |->
               IF i = 0 THEN NewTable(n) ELSE Insert(new[i - 1], s[i].key, s[i].data)]
  <2> HIDE DEF n, s, r
  <2>1. ASSUME NEW u \in Table(n), NEW i \in 1 .. Len(s)
        PROVE  Insert(u, s[i].key, s[i].data) \in Table(n)
    <3> DEFINE k == s[i].key  d == s[i].data  c == Index(u, k)
               l == Append(u.list[c], [key |-> k, data |-> d])
    <3>1. k \in Keys /\ d \in Data /\ [key |-> k, data |-> d] \in Node
      BY <1>3, ElementOfSeq DEF Node
    <3>2. /\ u.size = n /\ u.used \in Nat /\ u.count \in Nat
          /\ u.list \in [0 .. n - 1 -> Seq(Node)]
          /\ u = [size |-> u.size, used |-> u.used, count |-> u.count, list |-> u.list]
      BY DEF Table
    <3> HIDE DEF k, d
    <3>3. c \in 0 .. n - 1
      BY <1>1, <3>1, <3>2, IndexIs
    <3>4. u.list[c] \in Seq(Node) /\ l \in Seq(Node)
      BY <3>1, <3>2, <3>3, AppendProperties
    <3>5. Insert(u, k, d) = [u EXCEPT !.list = [u.list EXCEPT ![c] = l],
             !.used = IF u.list[c] = <<>> THEN u.used + 1 ELSE u.used, !.count = u.count + 1]
      BY <3>2 DEF Insert, ListOf
    <3> HIDE DEF c, l
    <3>6. [u.list EXCEPT ![c] = l] \in [0 .. n - 1 -> Seq(Node)]
      BY <3>2, <3>4
    <3> DEFINE m == [u.list EXCEPT ![c] = l]
               w == IF u.list[c] = <<>> THEN u.used + 1 ELSE u.used
    <3>7. w \in Nat /\ u.count + 1 \in Nat
      BY <3>2
    <3> HIDE DEF m, w
    <3>8. Insert(u, k, d) = [size |-> n, used |-> w, count |-> u.count + 1, list |-> m]
      BY <3>2, <3>5 DEF m, w
    <3>9. Insert(u, k, d) \in Table(n)
      BY <3>6, <3>7, <3>8 DEF Table, m
    <3> QED
      BY <3>9 DEF k, d
  <2>2. f \in [Table(n) \X (1 .. Len(s)) -> Table(n)]
    BY <2>1
  <2>3. \A u \in Table(n), i \in 1 .. Len(s) : f[<<u, i>>] = Insert(u, s[i].key, s[i].data)
    OBVIOUS
  <2>4. NewTable(n) \in Table(n)
    BY <1>1, NewTableIs DEF Good
  <2> HIDE DEF f
  <2>5. PICK g : Runs(g, Table(n), NewTable(n), f, Len(s))
    BY <1>3, <2>2, <2>4, RunExists
  <2>6. /\ g \in [0 .. Len(s) -> Table(n)] /\ g[0] = NewTable(n)
        /\ \A i \in 1 .. Len(s) : g[i] = f[<<g[i - 1], i>>]
    BY <2>5 DEF Runs
  <2>7. ASSUME NEW i \in 1 .. Len(s)
        PROVE  g[i] = Insert(g[i - 1], s[i].key, s[i].data)
    <3>1. i - 1 \in 0 .. Len(s)
      BY <1>3
    <3>2. g[i - 1] \in Table(n)
      BY <2>6, <3>1
    <3> QED
      BY <2>3, <2>6, <3>2
  <2>8. g = [i \in 0 .. Len(s) |->
               IF i = 0 THEN NewTable(n) ELSE Insert(g[i - 1], s[i].key, s[i].data)]
    <3>1. g = [i \in 0 .. Len(s) |-> g[i]]
      BY <2>6
    <3>2. ASSUME NEW i \in 0 .. Len(s)
          PROVE  g[i] = IF i = 0 THEN NewTable(n) ELSE Insert(g[i - 1], s[i].key, s[i].data)
      <4>1. i = 0 \/ i \in 1 .. Len(s)
        BY <1>3
      <4> QED
        BY <2>6, <2>7, <4>1
    <3> QED
      BY <3>1, <3>2
  <2> QED
    BY <2>8
<1> HIDE DEF n, s, r, new
<1> DEFINE Bad == {i \in 0 .. Len(s) : ~Moved(s, i, new[i], n)}
<1>6. ASSUME Bad # {} PROVE FALSE
  <2>1. Bad \in SUBSET Nat
    BY <1>3
  <2>2. PICK i \in Bad : \A m \in Bad : i <= m
    BY <1>6, <2>1, FirstPosition
  <2>3. i \in 0 .. Len(s) /\ ~Moved(s, i, new[i], n)
    OBVIOUS
  <2>4. CASE i = 0
    <3>1. new[0] = NewTable(n)
      BY <1>3, <1>5
    <3>2. Moved(s, 0, NewTable(n), n)
      <4>1. /\ Good(NewTable(n)) /\ NewTable(n).size = n
            /\ Counted(NewTable(n)) /\ Stored(NewTable(n)) = {}
        BY <1>1, NewTableIs
      <4>2. 1 .. 0 = {}
        OBVIOUS
      <4> QED
        BY <4>1, <4>2 DEF Moved
    <3> QED
      BY <2>3, <2>4, <3>1, <3>2
  <2>5. CASE i # 0
    <3>1. i - 1 \in 0 .. Len(s) /\ i - 1 \notin Bad /\ i \in 1 .. Len(s)
      BY <1>3, <2>2, <2>3, <2>5
    <3>2. Moved(s, i - 1, new[i - 1], n)
      BY <3>1
    <3>3. Moved(s, i, Insert(new[i - 1], s[i].key, s[i].data), n)
      BY <1>1, <1>3, <3>1, <3>2, MoveNext
    <3>4. new[i] = Insert(new[i - 1], s[i].key, s[i].data)
      BY <1>5, <2>3, <2>5
    <3> QED
      BY <2>3, <3>3, <3>4
  <2> QED
    BY <2>4, <2>5
<1>7. Moved(s, Len(s), r, n)
  BY <1>3, <1>4, <1>6
<1>8. /\ Good(r) /\ r.size = n /\ Counted(r)
      /\ Stored(r) = {s[q].key : q \in 1 .. Len(s)}
      /\ \A q \in 1 .. Len(s) : Value(r, s[q].key) = s[q].data
  BY <1>7 DEF Moved
<1>9. /\ \A q \in 1 .. Len(s) : s[q].key \in Stored(t) /\ s[q].data = Value(t, s[q].key)
      /\ \A k \in Stored(t) : \E q \in 1 .. Len(s) : s[q].key = k
  <2>1. \A k \in Stored(t) : Index(t, k) < t.size
    BY PlaceIs, BeforeOrder
  <2> QED
    BY <1>2, <2>1 DEF UpTo
<1>10. Stored(r) = Stored(t) /\ \A k \in Stored(t) : Value(r, k) = Value(t, k)
  BY <1>8, <1>9
<1> QED
  BY <1>1, <1>8, <1>10 DEF r

-----------------------------------------------------------------------------
(* The steps. *)

(* The keys of a table are keys, and its data are data. *)
LEMMA TypesAre ==
  ASSUME NEW t, Good(t)
  PROVE  Stored(t) \subseteq Keys /\ \A k \in Stored(t) : Value(t, k) \in Data
<1>1. \A k \in Stored(t) : k \in Keys
  BY PlaceIs
<1>2. ASSUME NEW k \in Stored(t) PROVE Value(t, k) \in Data
  <2>1. Index(t, k) \in 0 .. t.size - 1 /\ Place(t, k) \in 1 .. Len(t.list[Index(t, k)])
    BY PlaceIs DEF ListOf
  <2>2. t.list[Index(t, k)][Place(t, k)] \in Node
    BY <2>1, ListsAre
  <2> QED
    BY <2>2 DEF Value, ListOf, Node
<1> QED
  BY <1>1, <1>2

(* What a call does to what callers see of the table. *)
SameMap(t, u) == Stored(u) = Stored(t) /\ \A j \in Stored(t) : Value(u, j) = Value(t, j)
PutIn(t, u, k, d) ==
  /\ Stored(u) = Stored(t) \cup {k} /\ Value(u, k) = d
  /\ \A j \in Stored(t) : j # k => Value(u, j) = Value(t, j)
TakenFrom(t, u, k) ==
  Stored(u) = Stored(t) \ {k} /\ \A j \in Stored(u) : Value(u, j) = Value(t, j)

(* The order of the walk is kept for the keys in both. *)
SameOrder(t, u) ==
  \A i, j \in Stored(t) \cap Stored(u) : Before(t, i, j) <=> Before(u, i, j)

(* A table between calls. *)
Sound(t) == Good(t) /\ t.size <= MaxSize /\ Enough(t)

(* The step of NewNode: the table is sound, the counts are true if they     *)
(* were, callers see the node or no change, and the walk goes on if the     *)
(* array is the old one.                                                    *)
LEMMA NewNodeIs ==
  ASSUME Sound(ht), ht.size > 0, NEW k \in Keys, k \notin Stored(ht), NEW d \in Data, NewNode(k, d)
  PROVE  /\ Sound(ht') /\ (Counted(ht) => Counted(ht'))
         /\ \/ ret' = "done" /\ PutIn(ht, ht', k, d)
            \/ ret' = "fail" /\ SameMap(ht, ht')
         /\ ht'.size = ht.size => Stored(ht) \subseteq Stored(ht') /\ SameOrder(ht, ht')
<1> DEFINE t == Grown(ht, k)
<1>1. /\ Good(ht) /\ Enough(ht) /\ ht.size \in Nat /\ ht.size <= MaxSize /\ ht.size # 0
      /\ MaxSize \in Nat
  BY ListsAre, HashAssumption DEF Sound, HashAssumption
<1>2. /\ Sound(t) /\ t.size # 0 /\ SameMap(ht, t) /\ (Counted(ht) => Counted(t))
      /\ t.size = ht.size => t = ht
  <2>1. CASE MustGrow(ht, k)
    <3>1. t = Rehashed(ht) /\ ht.size < MaxSize
      BY <2>1 DEF Grown, MustGrow
    <3>2. /\ Good(t) /\ ht.size < t.size /\ t.size <= MaxSize /\ Counted(t)
          /\ Stored(t) = Stored(ht) /\ \A j \in Stored(ht) : Value(t, j) = Value(ht, j)
      BY <1>1, <3>1, RehashedIs
    <3>3. Enough(t) /\ t.size \in Nat
      BY <3>2, CountedEnough, ListsAre
    <3> QED
      BY <1>1, <3>2, <3>3 DEF Sound, SameMap
  <2>2. CASE ~MustGrow(ht, k)
    <3>1. t = ht
      BY <2>2 DEF Grown
    <3> QED
      BY <1>1, <3>1 DEF Sound, SameMap
  <2> QED
    BY <2>1, <2>2
<1>3. \/ ht' = Insert(t, k, d) /\ ret' = "done"
      \/ ret' = "fail" /\ ht' \in {ht, t}
  BY DEF NewNode
<1> HIDE DEF t
<1>4. CASE ret' = "fail" /\ ht' \in {ht, t}
  <2>1. SameMap(ht, ht) /\ SameOrder(ht, ht)
    BY DEF SameMap, SameOrder
  <2>2. Sound(ht') /\ (Counted(ht) => Counted(ht')) /\ SameMap(ht, ht')
    BY <1>2, <1>4, <2>1
  <2>3. ht'.size = ht.size => ht' = ht
    BY <1>2, <1>4
  <2> QED
    BY <1>4, <2>1, <2>2, <2>3
<1>5. CASE ht' = Insert(t, k, d) /\ ret' = "done"
  <2>1. Good(t) /\ Enough(t) /\ Stored(t) = Stored(ht) /\ k \notin Stored(t)
    BY <1>2 DEF Sound, SameMap
  <2>2. /\ Good(ht') /\ ht'.size = t.size /\ Stored(ht') = Stored(t) \cup {k} /\ Value(ht', k) = d
        /\ \A j : Index(ht', j) = Index(t, j)
        /\ \A j \in Stored(t) : Place(ht', j) = Place(t, j) /\ Value(ht', j) = Value(t, j)
    BY <1>2, <1>5, <2>1, InsertIs
  <2>3. Enough(ht') /\ (Counted(t) => Counted(ht'))
    BY <1>2, <1>5, <2>1, InsertCounts
  <2>4. Sound(ht') /\ (Counted(ht) => Counted(ht'))
    BY <1>2, <2>2, <2>3 DEF Sound
  <2>5. PutIn(ht, ht', k, d)
    BY <1>2, <2>1, <2>2 DEF PutIn, SameMap
  <2>6. ASSUME ht'.size = ht.size PROVE Stored(ht) \subseteq Stored(ht') /\ SameOrder(ht, ht')
    <3>1. t = ht
      BY <1>2, <2>2, <2>6
    <3> QED
      BY <2>2, <3>1 DEF SameOrder, Before
  <2> QED
    BY <1>5, <2>4, <2>5, <2>6
<1> QED
  BY <1>3, <1>4, <1>5

(* Erasure, by key or by handle. *)
LEMMA ErasureIs ==
  ASSUME NEW t, Sound(t), NEW k \in Stored(t)
  PROVE  LET u == Without(t, k) IN
         Sound(u) /\ (Counted(t) => Counted(u)) /\ TakenFrom(t, u, k) /\ SameOrder(t, u)
<1> DEFINE u == Without(t, k)
<1>1. Good(t) /\ Enough(t)
  BY DEF Sound
<1>2. t.count > 0 /\ t.used > 0 /\ (Counted(t) => Counted(u)) /\ Enough(u)
  BY <1>1, WithoutCounts
<1>3. /\ Good(u) /\ u.size = t.size /\ Stored(u) = Stored(t) \ {k}
      /\ \A j \in Stored(u) : Value(u, j) = Value(t, j)
      /\ \A i, j \in Stored(u) : Before(u, i, j) <=> Before(t, i, j)
  BY <1>1, <1>2, WithoutIs
<1> HIDE DEF u
<1> QED
  BY <1>2, <1>3 DEF Sound, TakenFrom, SameOrder, u

(* SetHashtable on a key that is there. *)
LEMMA UpdateIs ==
  ASSUME NEW t, Sound(t), NEW k \in Stored(t), NEW d \in Data
  PROVE  LET u == Updated(t, k, d) IN
         /\ Sound(u) /\ (Counted(t) => Counted(u)) /\ PutIn(t, u, k, d)
         /\ Stored(t) \subseteq Stored(u) /\ SameOrder(t, u)
<1> DEFINE u == Updated(t, k, d)
<1>1. Good(t) /\ Enough(t)
  BY DEF Sound
<1>2. /\ Good(u) /\ u.size = t.size /\ u.count = t.count /\ u.used = t.used
      /\ UsedLists(u) = UsedLists(t) /\ Stored(u) = Stored(t)
      /\ Value(u, k) = d
      /\ \A j : Index(u, j) = Index(t, j)
      /\ \A j \in Stored(t) : /\ Place(u, j) = Place(t, j)
                              /\ j # k => Value(u, j) = Value(t, j)
  BY <1>1, UpdatedIs
<1> HIDE DEF u
<1>3. Enough(u) /\ (Counted(t) => Counted(u))
  BY <1>1, <1>2 DEF Enough, Counted
<1>4. PutIn(t, u, k, d)
  BY <1>2 DEF PutIn
<1>5. SameOrder(t, u)
  BY <1>2 DEF SameOrder, Before
<1>6. Sound(u)
  BY <1>2, <1>3 DEF Sound
<1> QED
  BY <1>2, <1>3, <1>4, <1>5, <1>6 DEF u

(* ClearHashtable: the counts are too high then, never too low. *)
LEMMA ClearingIs ==
  ASSUME NEW t, Sound(t)
  PROVE  LET u == Emptied(t) IN Sound(u) /\ Stored(u) = {}
<1> DEFINE u == Emptied(t)
<1>1. Good(t) /\ Enough(t) /\ t.count \in Nat /\ t.used \in Nat
  BY ListsAre DEF Sound
<1>2. /\ Good(u) /\ u.size = t.size /\ u.used = t.used /\ u.count = t.count
      /\ Stored(u) = {} /\ UsedLists(u) = {}
  BY <1>1, EmptiedIs
<1> HIDE DEF u
<1>3. Enough(u)
  <2>1. IsFiniteSet({}) /\ Cardinality({}) = 0
    BY FS_EmptySet
  <2> QED
    BY <1>1, <1>2, <2>1 DEF Enough
<1> QED
  BY <1>2, <1>3 DEF Sound, u

-----------------------------------------------------------------------------
(* The walk. *)

(* Nothing of a walk that is not on a node. *)
LEMMA WalkOff ==
  ASSUME NEW w, w \in {"off", "end"}, cursor' = Nowhere(w), walked' = {}, owed' = {}
  PROVE  WalkInv'
  BY DEF WalkInv, Nowhere

(* A walk goes on over another table that keeps its keys and their order.   *)
LEMMA WalkKept ==
  ASSUME WalkInv, UNCHANGED <<cursor, walked, owed>>,
         Stored(ht) \subseteq Stored(ht'), SameOrder(ht, ht')
  PROVE  WalkInv'
<1>1. CASE cursor.at = "node"
  <2>1. /\ cursor = At(cursor.key) /\ {cursor.key} \cup owed \cup walked \subseteq Stored(ht)
        /\ \A k \in owed : Before(ht, cursor.key, k)
        /\ \A k \in walked : k = cursor.key \/ Before(ht, k, cursor.key)
    BY <1>1 DEF WalkInv
  <2>2. \A i, j \in Stored(ht) : Before(ht, i, j) <=> Before(ht', i, j)
    BY DEF SameOrder
  <2> QED
    BY <1>1, <2>1, <2>2 DEF WalkInv
<1>2. CASE cursor.at # "node"
  BY <1>2 DEF WalkInv
<1> QED
  BY <1>1, <1>2

(* The handle is on c, and where it goes from there. *)
AtNode(c, x) ==
  /\ c \in Stored(ht) /\ cursor = At(c) /\ cursor.key = c /\ owed \cup walked \subseteq Stored(ht)
  /\ \/ x = Nowhere("end") /\ owed = {}
     \/ \E y : /\ x = At(y) /\ y \in Stored(ht) /\ y # c /\ y \notin walked
               /\ \A k \in owed : k = y \/ Before(ht, y, k)
               /\ \A k \in walked \cup {c} : Before(ht, k, y)

(* GetNextHashtableNode goes to such a place. *)
LEMMA AtNodeIs ==
  ASSUME Good(ht), WalkInv, cursor.at = "node"
  PROVE  AtNode(cursor.key, NextNode(ht, cursor.key))
<1> DEFINE c == cursor.key  x == NextNode(ht, c)
<1>1. /\ cursor = At(c) /\ {c} \cup owed \cup walked \subseteq Stored(ht)
      /\ \A k \in owed : Before(ht, c, k)
      /\ \A k \in walked : k = c \/ Before(ht, k, c)
  BY DEF WalkInv
<1>2. /\ \A k \in Stored(ht) : ~Before(ht, k, k)
      /\ \A i, j, k \in Stored(ht) : Before(ht, i, j) /\ Before(ht, j, k) => Before(ht, i, k)
  BY BeforeOrder
<1>3. c = cursor.key
  OBVIOUS
<1>4. \/ x = Nowhere("end") /\ \A j \in Stored(ht) : ~Before(ht, c, j)
      \/ \E y : x = At(y) /\ Follows(ht, c, y)
  BY <1>1, NextIs
<1> HIDE DEF c, x
<1>5. CASE x = Nowhere("end") /\ \A j \in Stored(ht) : ~Before(ht, c, j)
  <2>1. owed = {}
    BY <1>1, <1>5
  <2> QED
    BY <1>1, <1>3, <1>5, <2>1 DEF AtNode, c, x
<1>6. ASSUME NEW y, x = At(y), Follows(ht, c, y) PROVE AtNode(c, x)
  <2>1. /\ y \in Stored(ht) /\ Before(ht, c, y)
        /\ \A j \in Stored(ht) : Before(ht, c, j) => j = y \/ Before(ht, y, j)
    BY <1>6 DEF Follows
  <2>2. y # c
    BY <1>1, <1>2, <2>1
  <2>3. \A k \in walked \cup {c} : k \in Stored(ht) /\ Before(ht, k, y)
    BY <1>1, <1>2, <2>1
  <2>4. y \notin walked
    BY <1>2, <2>1, <2>3
  <2>5. \A k \in owed : k = y \/ Before(ht, y, k)
    BY <1>1, <2>1
  <2> QED
    BY <1>1, <1>3, <1>6, <2>1, <2>2, <2>3, <2>4, <2>5 DEF AtNode
<1> QED
  BY <1>4, <1>5, <1>6 DEF c, x

(* A handle on a node and one that is not are different. *)
LEMMA Handles ==
  /\ \A k : At(k).at = "node" /\ At(k).key = k
  /\ \A w : Nowhere(w).at = w /\ Nowhere(w).key = NoKey
  BY DEF At, Nowhere

(* GetNextHashtableNode *)
LEMMA NextWalks ==
  ASSUME Good(ht), WalkInv, GetNextHashtableNode
  PROVE  /\ WalkInv' /\ cursor' \in {At(k) : k \in Stored(ht)} \cup {Nowhere("end")}
         /\ cursor'.at = "node" => cursor'.key \notin walked
<1> DEFINE c == cursor.key  x == NextNode(ht, c)
<1>1. /\ cursor.at = "node" /\ cursor' = x /\ ht' = ht /\ owed' = owed \ {x.key}
      /\ walked' = IF x.at = "node" THEN walked \cup {x.key} ELSE {}
  BY DEF GetNextHashtableNode, MoveTo
<1>2. AtNode(c, x)
  BY <1>1, AtNodeIs
<1> HIDE DEF c, x
<1>3. c \in Stored(ht) /\ owed \cup walked \subseteq Stored(ht)
  BY <1>2 DEF AtNode
<1>4. CASE x = Nowhere("end") /\ owed = {}
  <2>1. cursor' = Nowhere("end") /\ walked' = {} /\ owed' = {} /\ cursor'.at = "end"
    BY <1>1, <1>4, Handles
  <2>2. WalkInv'
    BY <2>1, WalkOff
  <2> QED
    BY <2>1, <2>2
<1>5. ASSUME NEW y, x = At(y), y \in Stored(ht), y # c, y \notin walked,
             \A k \in owed : k = y \/ Before(ht, y, k),
             \A k \in walked \cup {c} : Before(ht, k, y)
      PROVE  /\ WalkInv' /\ cursor' \in {At(k) : k \in Stored(ht)} \cup {Nowhere("end")}
             /\ cursor'.at = "node" => cursor'.key \notin walked
  <2>1. /\ cursor'.at = "node" /\ cursor'.key = y /\ cursor' = At(y)
        /\ walked' = walked \cup {y} /\ owed' = owed \ {y}
    BY <1>1, <1>5, Handles
  <2>2. WalkInv'
    BY <1>1, <1>3, <1>5, <2>1 DEF WalkInv
  <2> QED
    BY <1>5, <2>1, <2>2
<1> QED
  BY <1>2, <1>4, <1>5 DEF AtNode

(* EraseHashtable *)
LEMMA EraseWalks ==
  ASSUME Good(ht), WalkInv, EraseHashtable,
         TakenFrom(ht, ht', cursor.key), SameOrder(ht, ht')
  PROVE  /\ WalkInv' /\ cursor' \in {At(k) : k \in Stored(ht)} \cup {Nowhere("end")}
         /\ cursor'.at = "node" => cursor'.key \notin walked
<1> DEFINE c == cursor.key  x == NextNode(ht, c)
<1>1. /\ cursor.at = "node" /\ cursor' = x /\ owed' = owed \ {c, x.key}
      /\ walked' = IF x.at = "node" THEN (walked \ {c}) \cup {x.key} ELSE {}
  BY DEF EraseHashtable, MoveTo
<1>2. AtNode(c, x)
  BY <1>1, AtNodeIs
<1>3. Stored(ht') = Stored(ht) \ {c}
  BY DEF TakenFrom
<1>4. \A i, j \in Stored(ht') : Before(ht, i, j) <=> Before(ht', i, j)
  BY <1>3 DEF SameOrder
<1> HIDE DEF c, x
<1>5. c \in Stored(ht) /\ owed \cup walked \subseteq Stored(ht)
  BY <1>2 DEF AtNode
<1>6. CASE x = Nowhere("end") /\ owed = {}
  <2>1. cursor' = Nowhere("end") /\ walked' = {} /\ owed' = {} /\ cursor'.at = "end"
    BY <1>1, <1>6, Handles
  <2>2. WalkInv'
    BY <2>1, WalkOff
  <2> QED
    BY <2>1, <2>2
<1>7. ASSUME NEW y, x = At(y), y \in Stored(ht), y # c, y \notin walked,
             \A k \in owed : k = y \/ Before(ht, y, k),
             \A k \in walked \cup {c} : Before(ht, k, y)
      PROVE  /\ WalkInv' /\ cursor' \in {At(k) : k \in Stored(ht)} \cup {Nowhere("end")}
             /\ cursor'.at = "node" => cursor'.key \notin walked
  <2>1. /\ cursor'.at = "node" /\ cursor'.key = y /\ cursor' = At(y)
        /\ walked' = (walked \ {c}) \cup {y} /\ owed' = owed \ {c, y}
    BY <1>1, <1>7, Handles
  <2>2. {y} \cup owed' \cup walked' \subseteq Stored(ht')
    BY <1>3, <1>5, <1>7, <2>1
  <2>3. \A k \in owed' : Before(ht', y, k)
    BY <1>4, <1>7, <2>1, <2>2
  <2>4. \A k \in walked' : k = y \/ Before(ht', k, y)
    BY <1>4, <1>7, <2>1, <2>2
  <2>5. WalkInv'
    BY <2>1, <2>2, <2>3, <2>4 DEF WalkInv
  <2> QED
    BY <1>7, <2>1, <2>5
<1> QED
  BY <1>2, <1>6, <1>7 DEF AtNode

(* GetHashtableFirstNode *)
LEMMA FirstWalks ==
  ASSUME Good(ht), Enough(ht), GetHashtableFirstNode
  PROVE  /\ WalkInv' /\ cursor' \in {At(k) : k \in Stored(ht)} \cup {Nowhere("end")}
         /\ cursor'.at = "node" => walked' = {cursor'.key}
<1> DEFINE x == FirstNode(ht)
<1>1. /\ cursor' = x /\ ht' = ht /\ owed' = Stored(ht) \ {x.key}
      /\ walked' = IF x.at = "node" THEN {} \cup {x.key} ELSE {}
  BY DEF GetHashtableFirstNode, MoveTo
<1>2. \/ x = Nowhere("end") /\ Stored(ht) = {}
      \/ \E y \in Stored(ht) : x = At(y) /\ \A j \in Stored(ht) : j = y \/ Before(ht, y, j)
  BY FirstIs
<1> HIDE DEF x
<1>3. CASE x = Nowhere("end") /\ Stored(ht) = {}
  <2>1. cursor' = Nowhere("end") /\ walked' = {} /\ owed' = {} /\ cursor'.at = "end"
    BY <1>1, <1>3, Handles
  <2>2. WalkInv'
    BY <2>1, WalkOff
  <2> QED
    BY <2>1, <2>2
<1>4. ASSUME NEW y \in Stored(ht), x = At(y), \A j \in Stored(ht) : j = y \/ Before(ht, y, j)
      PROVE  /\ WalkInv' /\ cursor' \in {At(k) : k \in Stored(ht)} \cup {Nowhere("end")}
             /\ cursor'.at = "node" => walked' = {cursor'.key}
  <2>1. /\ cursor'.at = "node" /\ cursor'.key = y /\ cursor' = At(y)
        /\ walked' = {y} /\ owed' = Stored(ht) \ {y}
    BY <1>1, <1>4, Handles
  <2>2. WalkInv'
    BY <1>1, <1>4, <2>1 DEF WalkInv
  <2> QED
    BY <2>1, <2>2
<1> QED
  BY <1>2, <1>3, <1>4

-----------------------------------------------------------------------------
(* The dictionary. *)

(* The keys of the map are those stored, and their values are the table's. *)
LEMMA DictionaryIs ==
  /\ \A k : D!Has(k) <=> k \in Stored(ht)
  /\ \A k \in Stored(ht) : Contents[k] = Value(ht, k)
  BY DEF D!Has, Contents

(* Where no node changes the map does not. *)
LEMMA SameIs ==
  ASSUME SameMap(ht, ht')
  PROVE  Contents' = Contents
  BY DEF SameMap, Contents

(* A node put into the table is put into the map, ... *)
LEMMA PutIs ==
  ASSUME NEW k, NEW d, PutIn(ht, ht', k, d)
  PROVE  Contents' = D!Put(k, d)
<1>1. DOMAIN Contents = Stored(ht) /\ \A j \in Stored(ht) : Contents[j] = Value(ht, j)
  BY DEF Contents
<1>2. \A j \in Stored(ht') : Value(ht', j) = IF j = k THEN d ELSE Contents[j]
  BY <1>1 DEF PutIn
<1>3. Stored(ht') = Stored(ht) \cup {k}
  BY DEF PutIn
<1>4. Contents' = [j \in Stored(ht') |-> Value(ht', j)]
  BY DEF Contents
<1> QED
  BY <1>1, <1>2, <1>3, <1>4 DEF D!Put

(* ... and a node taken from it is taken from the map. *)
LEMMA TakenIs ==
  ASSUME NEW k, TakenFrom(ht, ht', k)
  PROVE  Contents' = [j \in DOMAIN Contents \ {k} |-> Contents[j]]
<1>1. DOMAIN Contents = Stored(ht) /\ \A j \in Stored(ht) : Contents[j] = Value(ht, j)
  BY DEF Contents
<1>2. \A j \in Stored(ht') : Value(ht', j) = Contents[j]
  BY <1>1 DEF TakenFrom
<1>3. Stored(ht') = Stored(ht) \ {k}
  BY DEF TakenFrom
<1>4. Contents' = [j \in Stored(ht') |-> Value(ht', j)]
  BY DEF Contents
<1> QED
  BY <1>1, <1>2, <1>3, <1>4

(* A table without nodes is the empty map. *)
LEMMA EmptyMap ==
  ASSUME NEW t, Stored(t) = {}
  PROVE  [k \in Stored(t) |-> Value(t, k)] = D!Empty
  BY DEF D!Empty
-----------------------------------------------------------------------------
(* Every step keeps the invariant, walks on and is one of the dictionary's. *)

(* The invariant after the step. *)
Kept ==
  /\ Sound(ht') /\ clears' \in 0 .. MaxClears /\ (clears' = 0 => Counted(ht')) /\ WalkInv'
  /\ ret' \in {"none", "done", "fail"} \cup Data
  /\ cursor' \in {At(k) : k \in Keys} \cup {Nowhere(w) : w \in {"off", "end"}}

(* The walk, if it moved, moved to a new key or started again. *)
Once ==
  cursor.at = "node" /\ cursor'.at = "node" /\ cursor' # cursor
    => cursor'.key \notin walked \/ walked' = {cursor'.key}

(* What the step is to the dictionary. *)
Mapped == D!Next \/ UNCHANGED <<Contents, ret>>

(* What a step starts from. *)
LEMMA InvGives ==
  ASSUME HashInv
  PROVE  /\ Sound(ht) /\ Good(ht) /\ Enough(ht) /\ ht.size \in Nat /\ WalkInv
         /\ clears \in 0 .. MaxClears /\ (clears = 0 => Counted(ht))
         /\ MaxSize \in Nat /\ MaxClears \in Nat
         /\ ret \in {"none", "done", "fail"} \cup Data
         /\ cursor \in {At(k) : k \in Keys} \cup {Nowhere(w) : w \in {"off", "end"}}
         /\ SameOrder(ht, ht) /\ SameMap(ht, ht) /\ Stored(ht) \subseteq Keys
         /\ \A k \in Stored(ht) : Value(ht, k) \in Data
<1>1. MaxSize \in Nat /\ MaxClears \in Nat
  BY HashAssumption DEF HashAssumption
<1>2. /\ Good(ht) /\ Enough(ht) /\ ht.size \in 0 .. MaxSize /\ WalkInv
      /\ clears \in 0 .. MaxClears /\ (clears = 0 => Counted(ht))
      /\ ret \in {"none", "done", "fail"} \cup Data
      /\ cursor \in {At(k) : k \in Keys} \cup {Nowhere(w) : w \in {"off", "end"}}
  BY DEF HashInv, TypeOK, CountInv
<1>3. Sound(ht)
  BY <1>1, <1>2 DEF Sound
<1>4. SameOrder(ht, ht) /\ SameMap(ht, ht)
  BY DEF SameOrder, SameMap
<1> QED
  BY <1>1, <1>2, <1>3, <1>4, TypesAre

(* InitHashtable finds no table and leaves one without nodes. *)
LEMMA InitStep ==
  ASSUME HashInv, NEW n \in InitSizes, InitHashtable(n)
  PROVE  Kept /\ Once /\ Mapped
<1> DEFINE m == Max({n, MinSize})
<1>1. /\ ht.size = 0 /\ n <= MaxSize /\ ht' = NewTable(m) /\ ret' = ret
      /\ UNCHANGED <<cursor, walked, owed, clears>>
  BY InvGives DEF InitHashtable, IsInit, HandleUnchanged
<1>2. m \in Nat /\ m <= MaxSize
  <2>1. n \in Nat /\ MinSize \in Nat /\ MinSize <= MaxSize
    BY HashAssumption DEF HashAssumption
  <2>2. \E x \in {n, MinSize} : \A y \in {n, MinSize} : x >= y
    BY <2>1
  <2>3. m \in {n, MinSize}
    BY <2>2 DEF Max
  <2> QED
    BY <1>1, <2>1, <2>3
<1> HIDE DEF m
<1>3. Good(ht') /\ ht'.size = m /\ Stored(ht') = {} /\ Counted(ht')
  BY <1>1, <1>2, NewTableIs
<1>4. Sound(ht')
  BY <1>2, <1>3, CountedEnough DEF Sound
<1>5. Stored(ht) = {}
  <2>1. \A k \in Stored(ht) : FALSE
    BY <1>1, InvGives, PlaceIs
  <2> QED
    BY <2>1
<1>6. WalkInv'
  <2>1. SameOrder(ht, ht')
    BY <1>5 DEF SameOrder
  <2> QED
    BY <1>1, <1>5, <2>1, InvGives, WalkKept
<1>7. SameMap(ht, ht')
  BY <1>3, <1>5 DEF SameMap
<1>8. Mapped
  BY <1>1, <1>7, SameIs DEF Mapped
<1> QED
  BY <1>1, <1>3, <1>4, <1>6, <1>8, InvGives DEF Kept, Once

(* Steps that leave the handle off: nothing is asked of it. *)
LEMMA OffStep ==
  ASSUME HashInv, HandleGone
  PROVE  WalkInv' /\ Once
         /\ cursor' \in {At(k) : k \in Keys} \cup {Nowhere(w) : w \in {"off", "end"}}
<1>1. cursor' = Nowhere("off") /\ walked' = {} /\ owed' = {} /\ cursor'.at = "off"
  BY Handles DEF HandleGone
<1>2. WalkInv'
  BY <1>1, WalkOff
<1> QED
  BY <1>1, <1>2 DEF Once

(* Steps that leave it where it is, over a table with the same order. *)
LEMMA StayStep ==
  ASSUME HashInv, UNCHANGED <<cursor, walked, owed>>,
         Stored(ht) \subseteq Stored(ht'), SameOrder(ht, ht')
  PROVE  WalkInv' /\ Once
         /\ cursor' \in {At(k) : k \in Keys} \cup {Nowhere(w) : w \in {"off", "end"}}
<1>1. WalkInv'
  BY InvGives, WalkKept
<1> QED
  BY <1>1, InvGives DEF Once

(* Steps of the caller that change nothing but ret. *)
LEMMA IdleStep ==
  ASSUME HashInv, UNCHANGED <<ht, cursor, walked, owed, clears>>,
         ret' \in {"none", "done", "fail"} \cup Data
  PROVE  Kept /\ Once /\ Contents' = Contents
<1>1. Stored(ht) \subseteq Stored(ht') /\ SameOrder(ht, ht')
  BY InvGives
<1>2. WalkInv' /\ Once
      /\ cursor' \in {At(k) : k \in Keys} \cup {Nowhere(w) : w \in {"off", "end"}}
  BY <1>1, StayStep
<1>3. Sound(ht') /\ (clears' = 0 => Counted(ht')) /\ clears' \in 0 .. MaxClears
  BY InvGives
<1>4. Contents' = Contents
  BY InvGives, SameIs
<1> QED
  BY <1>2, <1>3, <1>4 DEF Kept

(* DeinitHashtable clears the map. *)
LEMMA DeinitStep ==
  ASSUME HashInv, DeinitHashtable
  PROVE  Kept /\ Once /\ Mapped
<1>1. ht' = NewTable(0) /\ ret' = "done" /\ HandleGone /\ clears' = clears
  BY DEF DeinitHashtable, NoTable
<1>2. Good(ht') /\ ht'.size = 0 /\ Stored(ht') = {} /\ Counted(ht')
  BY <1>1, NewTableIs
<1>3. Sound(ht')
  BY <1>2, InvGives, CountedEnough DEF Sound
<1>4. Contents' = D!Empty
  BY <1>2, EmptyMap DEF Contents
<1>5. Mapped
  BY <1>1, <1>4 DEF Mapped, D!Next, D!Clear
<1> QED
  BY <1>1, <1>2, <1>3, <1>5, InvGives, OffStep DEF Kept

(* ClearHashtable clears the map and makes the counts unreliable. *)
LEMMA ClearStep ==
  ASSUME HashInv, ClearHashtable
  PROVE  Kept /\ Once /\ Mapped
<1>1. /\ ht' = Emptied(ht) /\ ret' = "done" /\ HandleGone
      /\ clears < MaxClears /\ clears' = clears + 1
  BY DEF ClearHashtable
<1>2. Sound(ht') /\ Stored(ht') = {}
  BY <1>1, InvGives, ClearingIs
<1>3. Contents' = D!Empty
  BY <1>2, EmptyMap DEF Contents
<1>4. Mapped
  BY <1>1, <1>3 DEF Mapped, D!Next, D!Clear
<1>5. clears' # 0 /\ clears' \in 0 .. MaxClears
  BY <1>1, InvGives
<1> QED
  BY <1>1, <1>2, <1>4, <1>5, OffStep DEF Kept

(* A call that makes a node, or fails to. *)
LEMMA NodeStep ==
  ASSUME HashInv, ht.size > 0, NEW k \in Keys, k \notin Stored(ht), NEW d \in Data, NewNode(k, d)
  PROVE  /\ Kept /\ Once
         /\ \/ ret' = "done" /\ Contents' = D!Put(k, d)
            \/ ret' = "fail" /\ Contents' = Contents
<1>1. /\ clears' = clears
      /\ IF ht'.size # ht.size THEN HandleGone ELSE UNCHANGED <<cursor, walked, owed>>
  BY DEF NewNode
<1>2. /\ Sound(ht') /\ (Counted(ht) => Counted(ht'))
      /\ \/ ret' = "done" /\ PutIn(ht, ht', k, d)
         \/ ret' = "fail" /\ SameMap(ht, ht')
      /\ ht'.size = ht.size => Stored(ht) \subseteq Stored(ht') /\ SameOrder(ht, ht')
  BY InvGives, NewNodeIs
<1>3. WalkInv' /\ Once
      /\ cursor' \in {At(j) : j \in Keys} \cup {Nowhere(w) : w \in {"off", "end"}}
  <2>1. CASE ht'.size # ht.size
    BY <1>1, <2>1, OffStep
  <2>2. CASE ht'.size = ht.size
    BY <1>1, <1>2, <2>2, StayStep
  <2> QED
    BY <2>1, <2>2
<1>4. Kept
  BY <1>1, <1>2, <1>3, InvGives DEF Kept
<1>5. \/ ret' = "done" /\ Contents' = D!Put(k, d)
      \/ ret' = "fail" /\ Contents' = Contents
  BY <1>2, PutIs, SameIs
<1> QED
  BY <1>3, <1>4, <1>5

(* Add2Hashtable adds a key that is not there, or fails. *)
LEMMA AddStep ==
  ASSUME HashInv, NEW k \in Keys, NEW d \in Data, Add2Hashtable(k, d)
  PROVE  Kept /\ Once /\ Mapped
<1>1. ht.size > 0 /\ ht.size # 0 /\ (HasKey(ht, k) <=> k \in Stored(ht))
  BY InvGives, HasKeyIs DEF Add2Hashtable, IsInit
<1>2. CASE k \in Stored(ht)
  <2>1. ret' = "fail" /\ UNCHANGED <<ht, cursor, walked, owed, clears>>
    BY <1>1, <1>2 DEF Add2Hashtable, HandleUnchanged
  <2>2. Kept /\ Once /\ Contents' = Contents
    BY <2>1, IdleStep
  <2>3. D!Add(k, d)
    BY <1>2, <2>1, <2>2, DictionaryIs DEF D!Add, D!Fail
  <2> QED
    BY <2>2, <2>3 DEF Mapped, D!Next
<1>3. CASE k \notin Stored(ht)
  <2>1. NewNode(k, d)
    BY <1>1, <1>3 DEF Add2Hashtable
  <2>2. /\ Kept /\ Once
        /\ \/ ret' = "done" /\ Contents' = D!Put(k, d)
           \/ ret' = "fail" /\ Contents' = Contents
    BY <1>1, <1>3, <2>1, NodeStep
  <2>3. D!Add(k, d)
    BY <1>3, <2>2, DictionaryIs DEF D!Add, D!Fail
  <2> QED
    BY <2>2, <2>3 DEF Mapped, D!Next
<1> QED
  BY <1>2, <1>3

(* SetHashtable replaces the value of a key, or adds it, or fails. *)
LEMMA SetStep ==
  ASSUME HashInv, NEW k \in Keys, NEW d \in Data, SetHashtable(k, d)
  PROVE  Kept /\ Once /\ Mapped
<1>1. ht.size > 0 /\ ht.size # 0 /\ (HasKey(ht, k) <=> k \in Stored(ht))
  BY InvGives, HasKeyIs DEF SetHashtable, IsInit
<1>2. CASE k \in Stored(ht)
  <2>1. /\ ht' = Updated(ht, k, d) /\ ret' = Value(ht, k)
        /\ UNCHANGED <<cursor, walked, owed, clears>>
    BY <1>1, <1>2 DEF SetHashtable, HandleUnchanged
  <2>2. /\ Sound(ht') /\ (Counted(ht) => Counted(ht')) /\ PutIn(ht, ht', k, d)
        /\ Stored(ht) \subseteq Stored(ht') /\ SameOrder(ht, ht')
    BY <1>2, <2>1, InvGives, UpdateIs
  <2>3. WalkInv' /\ Once
        /\ cursor' \in {At(j) : j \in Keys} \cup {Nowhere(w) : w \in {"off", "end"}}
    BY <2>1, <2>2, StayStep
  <2>4. Kept
    BY <1>2, <2>1, <2>2, <2>3, InvGives DEF Kept
  <2>5. Contents' = D!Put(k, d) /\ ret' = Contents[k] /\ D!Has(k)
    BY <1>2, <2>1, <2>2, PutIs, DictionaryIs
  <2>6. D!Set(k, d)
    BY <2>5 DEF D!Set
  <2> QED
    BY <2>3, <2>4, <2>6 DEF Mapped, D!Next
<1>3. CASE k \notin Stored(ht)
  <2>1. NewNode(k, d)
    BY <1>1, <1>3 DEF SetHashtable
  <2>2. /\ Kept /\ Once
        /\ \/ ret' = "done" /\ Contents' = D!Put(k, d)
           \/ ret' = "fail" /\ Contents' = Contents
    BY <1>1, <1>3, <2>1, NodeStep
  <2>3. D!Set(k, d)
    BY <1>3, <2>2, DictionaryIs DEF D!Set, D!Fail
  <2> QED
    BY <2>2, <2>3 DEF Mapped, D!Next
<1> QED
  BY <1>2, <1>3

(* GetHashtableValue looks and changes nothing. *)
LEMMA GetStep ==
  ASSUME HashInv, NEW k \in Keys, GetHashtableValue(k)
  PROVE  Kept /\ Once /\ Mapped
<1>1. ht.size # 0 /\ (HasKey(ht, k) <=> k \in Stored(ht))
  BY InvGives, HasKeyIs DEF GetHashtableValue, IsInit
<1>2. /\ ret' = IF k \in Stored(ht) THEN Value(ht, k) ELSE "fail"
      /\ UNCHANGED <<ht, cursor, walked, owed, clears>>
  BY <1>1 DEF GetHashtableValue, HandleUnchanged
<1>3. Kept /\ Once /\ Contents' = Contents
  BY <1>2, InvGives, IdleStep
<1>4. D!Get(k)
  BY <1>2, <1>3, DictionaryIs DEF D!Get
<1> QED
  BY <1>3, <1>4 DEF Mapped, D!Next

(* EraseHashtableByKey: the handle is off if it was there, and stays if not. *)
LEMMA EraseKeyStep ==
  ASSUME HashInv, NEW k \in Keys, EraseHashtableByKey(k)
  PROVE  Kept /\ Once /\ Mapped
<1>1. ht.size # 0 /\ (HasKey(ht, k) <=> k \in Stored(ht)) /\ clears' = clears
  BY InvGives, HasKeyIs DEF EraseHashtableByKey, IsInit
<1>2. CASE k \in Stored(ht)
  <2>1. /\ ht' = Without(ht, k) /\ ret' = "done"
        /\ IF cursor = At(k) THEN HandleGone
           ELSE UNCHANGED cursor /\ walked' = walked \ {k} /\ owed' = owed \ {k}
    BY <1>1, <1>2 DEF EraseHashtableByKey
  <2>2. /\ Sound(ht') /\ (Counted(ht) => Counted(ht'))
        /\ TakenFrom(ht, ht', k) /\ SameOrder(ht, ht')
    BY <1>2, <2>1, InvGives, ErasureIs
  <2>3. WalkInv' /\ Once
        /\ cursor' \in {At(j) : j \in Keys} \cup {Nowhere(w) : w \in {"off", "end"}}
    <3>1. CASE cursor = At(k)
      BY <2>1, <3>1, OffStep
    <3>2. CASE cursor # At(k)
      <4>1. cursor' = cursor /\ walked' = walked \ {k} /\ owed' = owed \ {k}
        BY <2>1, <3>2
      <4>2. /\ Stored(ht') = Stored(ht) \ {k}
            /\ \A i, j \in Stored(ht') : Before(ht, i, j) <=> Before(ht', i, j)
        BY <2>2 DEF TakenFrom, SameOrder
      <4>3. WalkInv'
        <5>1. CASE cursor.at = "node"
          <6>1. /\ cursor = At(cursor.key) /\ {cursor.key} \cup owed \cup walked \subseteq Stored(ht)
                /\ \A j \in owed : Before(ht, cursor.key, j)
                /\ \A j \in walked : j = cursor.key \/ Before(ht, j, cursor.key)
            BY <5>1, InvGives DEF WalkInv
          <6>2. cursor.key # k
            BY <3>2, <6>1
          <6>3. {cursor.key} \cup owed' \cup walked' \subseteq Stored(ht')
            BY <4>1, <4>2, <6>1, <6>2
          <6>4. /\ \A j \in owed' : Before(ht', cursor.key, j)
                /\ \A j \in walked' : j = cursor.key \/ Before(ht', j, cursor.key)
            BY <4>1, <4>2, <6>1, <6>3
          <6> QED
            BY <4>1, <5>1, <6>1, <6>3, <6>4 DEF WalkInv
        <5>2. CASE cursor.at # "node"
          BY <4>1, <5>2, InvGives DEF WalkInv
        <5> QED
          BY <5>1, <5>2
      <4> QED
        BY <4>1, <4>3, InvGives DEF Once
    <3> QED
      BY <3>1, <3>2
  <2>4. Kept
    BY <1>1, <2>1, <2>2, <2>3, InvGives DEF Kept
  <2>5. D!Erase(k)
    BY <1>2, <2>1, <2>2, TakenIs, DictionaryIs DEF D!Erase
  <2> QED
    BY <2>3, <2>4, <2>5 DEF Mapped, D!Next
<1>3. CASE k \notin Stored(ht)
  <2>1. ret' = "fail" /\ UNCHANGED <<ht, cursor, walked, owed, clears>>
    BY <1>1, <1>3 DEF EraseHashtableByKey
  <2>2. Kept /\ Once /\ Contents' = Contents
    BY <2>1, IdleStep
  <2>3. Contents = [j \in DOMAIN Contents \ {k} |-> Contents[j]]
    BY <1>3 DEF Contents
  <2>4. D!Erase(k)
    BY <1>3, <2>1, <2>2, <2>3, DictionaryIs DEF D!Erase
  <2> QED
    BY <2>2, <2>4 DEF Mapped, D!Next
<1> QED
  BY <1>2, <1>3

(* EraseHashtable erases where the handle is and moves it on. *)
LEMMA EraseStep ==
  ASSUME HashInv, EraseHashtable
  PROVE  Kept /\ Once /\ Mapped
<1> DEFINE c == cursor.key
<1>1. /\ cursor.at = "node" /\ ht' = Without(ht, c) /\ ret' = "done" /\ clears' = clears
  BY DEF EraseHashtable
<1>2. c \in Stored(ht) /\ c \in Keys
  BY <1>1, InvGives DEF WalkInv
<1>3. /\ Sound(ht') /\ (Counted(ht) => Counted(ht'))
      /\ TakenFrom(ht, ht', c) /\ SameOrder(ht, ht')
  BY <1>1, <1>2, InvGives, ErasureIs
<1>4. /\ WalkInv' /\ cursor' \in {At(k) : k \in Stored(ht)} \cup {Nowhere("end")}
      /\ cursor'.at = "node" => cursor'.key \notin walked
  BY <1>3, InvGives, EraseWalks
<1>5. Once
  BY <1>4 DEF Once
<1>6. Kept
  BY <1>1, <1>3, <1>4, InvGives DEF Kept
<1>7. D!Erase(c)
  BY <1>1, <1>2, <1>3, TakenIs, DictionaryIs DEF D!Erase
<1> HIDE DEF c
<1> QED
  BY <1>2, <1>5, <1>6, <1>7 DEF Mapped, D!Next

(* GetHashtableFirstNode and GetNextHashtableNode only move the handle. *)
LEMMA WalkStep ==
  ASSUME HashInv, GetHashtableFirstNode \/ GetNextHashtableNode
  PROVE  Kept /\ Once /\ Mapped
<1>1. UNCHANGED <<ht, ret, clears>>
  BY DEF GetHashtableFirstNode, GetNextHashtableNode
<1>2. /\ WalkInv' /\ cursor' \in {At(k) : k \in Stored(ht)} \cup {Nowhere("end")}
      /\ cursor'.at = "node" => cursor'.key \notin walked \/ walked' = {cursor'.key}
  BY InvGives, FirstWalks, NextWalks
<1>3. Once
  BY <1>2 DEF Once
<1>4. Kept
  BY <1>1, <1>2, InvGives DEF Kept
<1>5. Mapped
  <2>1. SameMap(ht, ht')
    BY <1>1, InvGives
  <2> QED
    BY <1>1, <2>1, SameIs DEF Mapped
<1> QED
  BY <1>3, <1>4, <1>5

(* All steps together. *)
LEMMA StepIs ==
  ASSUME HashInv, [Next]_vars
  PROVE  HashInv' /\ Once /\ [D!Next]_<<Contents, ret>>
<1>1. Kept /\ Once /\ Mapped
  <2>1. ASSUME NEW n \in InitSizes, InitHashtable(n) PROVE Kept /\ Once /\ Mapped
    BY <2>1, InitStep
  <2>2. CASE DeinitHashtable
    BY <2>2, DeinitStep
  <2>3. CASE EraseHashtable
    BY <2>3, EraseStep
  <2>4. CASE ClearHashtable
    BY <2>4, ClearStep
  <2>5. CASE GetHashtableFirstNode \/ GetNextHashtableNode
    BY <2>5, WalkStep
  <2>6. ASSUME NEW k \in Keys, EraseHashtableByKey(k) PROVE Kept /\ Once /\ Mapped
    BY <2>6, EraseKeyStep
  <2>7. ASSUME NEW k \in Keys, GetHashtableValue(k) PROVE Kept /\ Once /\ Mapped
    BY <2>7, GetStep
  <2>8. ASSUME NEW k \in Keys, NEW d \in Data, Add2Hashtable(k, d) PROVE Kept /\ Once /\ Mapped
    BY <2>8, AddStep
  <2>9. ASSUME NEW k \in Keys, NEW d \in Data, SetHashtable(k, d) PROVE Kept /\ Once /\ Mapped
    BY <2>9, SetStep
  <2>10. CASE UNCHANGED vars
    <3>1. UNCHANGED <<ht, ret, cursor, walked, owed, clears>>
      BY <2>10 DEF vars
    <3>2. Kept /\ Once /\ Contents' = Contents
      BY <3>1, InvGives, IdleStep
    <3> QED
      BY <3>1, <3>2 DEF Mapped
  <2> QED
    BY <2>1, <2>2, <2>3, <2>4, <2>5, <2>6, <2>7, <2>8, <2>9, <2>10 DEF Next
<1>2. HashInv'
  <2>1. /\ Good(ht') /\ ht'.size <= MaxSize /\ Enough(ht') /\ ht'.size \in Nat
        /\ ht' \in Table(ht'.size) /\ MaxSize \in Nat
    BY <1>1, InvGives DEF Kept, Sound, Good
  <2>2. Stored(ht') \subseteq Keys
    BY <2>1, TypesAre
  <2>3. walked' \subseteq Keys /\ owed' \subseteq Keys
    BY <1>1, <2>2 DEF Kept, WalkInv
  <2>4. TypeOK'
    BY <1>1, <2>1, <2>3 DEF TypeOK, Kept
  <2>5. CountInv'
    BY <1>1, <2>1 DEF Kept, CountInv
  <2> QED
    BY <1>1, <2>1, <2>4, <2>5 DEF HashInv, Kept
<1> QED
  BY <1>1, <1>2 DEF Mapped

(* At the start there is no table, and the map is empty. *)
LEMMA StartIs ==
  ASSUME Init
  PROVE  HashInv /\ D!Init
<1>1. /\ ht = NewTable(0) /\ ret = "none" /\ cursor = Nowhere("off") /\ walked = {}
      /\ owed = {} /\ clears = 0 /\ cursor.at = "off"
  BY Handles DEF Init, NoTable
<1>2. Good(ht) /\ ht.size = 0 /\ Stored(ht) = {} /\ Counted(ht) /\ Enough(ht)
  BY <1>1, NewTableIs, CountedEnough
<1>3. MaxSize \in Nat /\ MaxClears \in Nat
  BY HashAssumption DEF HashAssumption
<1>4. TypeOK
  BY <1>1, <1>2, <1>3 DEF TypeOK, Good
<1>5. HashInv
  BY <1>1, <1>2, <1>4 DEF HashInv, CountInv, WalkInv
<1>6. Contents = D!Empty
  BY <1>2, EmptyMap DEF Contents
<1> QED
  BY <1>1, <1>5, <1>6 DEF D!Init

-----------------------------------------------------------------------------
(* The results. *)

(* The invariant holds always. *)
LEMMA HashAlways == Spec => []HashInv
<1>1. Init => HashInv
  BY StartIs
<1>2. HashInv /\ [Next]_vars => HashInv'
  BY StepIs
<1> QED
  BY <1>1, <1>2, PTL DEF Spec

(* Every call of the hash table leaves it a table: an array of its size,    *)
(* never larger than the largest, of lists of nodes, with counts that no    *)
(* erasure takes below zero; a handle that is on a node is on one of a key. *)
THEOREM HashTypeCorrect == Spec => []TypeOK
<1>1. HashInv => TypeOK
  BY DEF HashInv
<1> QED
  BY <1>1, HashAlways, PTL

(* Until ClearHashtable is called, the counts of nodes and of lists in use  *)
(* are true through additions, erasures, growth and allocations that fail,  *)
(* for any hash function and any limits.                                    *)
THEOREM HashCountsTrue == Spec => []CountsTrue
<1>1. HashInv => CountsTrue
  BY DEF HashInv, CountInv, Counted, CountsTrue
<1> QED
  BY <1>1, HashAlways, PTL

(* A walk with GetHashtableFirstNode, GetNextHashtableNode and              *)
(* EraseHashtable that reaches its end has been on every key that was there *)
(* when it started and was not erased since.                                *)
THEOREM HashWalkComplete == Spec => []WalkComplete
<1>1. HashInv => WalkComplete
  BY DEF HashInv, WalkInv, WalkComplete
<1> QED
  BY <1>1, HashAlways, PTL

(* Such a walk comes to no key a second time, unless the key was erased and *)
(* added again.                                                             *)
THEOREM HashWalkOnce == Spec => WalkOnce
<1>1. HashInv /\ [Next]_vars => [Once]_vars
  BY StepIs
<1>2. [][Once]_vars => WalkOnce
  BY PTL DEF WalkOnce, Once
<1> QED
  BY <1>1, <1>2, HashAlways, PTL DEF Spec

(* Callers see a map, whatever the lists look like: every call on the table *)
(* is a step of the dictionary, or none; growth and failed calls leave the  *)
(* map as it was.                                                           *)
THEOREM HashImplementsDictionary == Spec => ImplementsDictionary
<1>1. Init => D!Init
  BY StartIs
<1>2. HashInv /\ [Next]_vars => [D!Next]_<<Contents, ret>>
  BY StepIs
<1> QED
  BY <1>1, <1>2, HashAlways, PTL DEF Spec, ImplementsDictionary, D!Spec

=============================================================================
