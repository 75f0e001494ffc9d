------------------------- MODULE FileTransferProofs -------------------------
(***************************************************************************)
(* Proofs about FileTransfer, for every stream, block size, buffer size    *)
(* and capacity: the receiver's stream is always a beginning of the        *)
(* sender's, both sides count the same progress, and the users see a       *)
(* behaviour of TransferService.                                           *)
(*                                                                         *)
(* The argument follows the stream through the connection.  What is on its *)
(* way to the receiver (its inbox, then the wire, then sendBuf) is a list  *)
(* of messages that leads from the receiver's position to the sender's:    *)
(* every message passes the position on to the next one.  Sending and      *)
(* receiving only move the cuts in that list.                              *)
(***************************************************************************)
EXTENDS FileTransfer, SequencesExt, SequenceTheorems, FiniteSetTheorems, WellFoundedInduction,
        TLAPS

-----------------------------------------------------------------------------
(* Numbers and sizes of sets. *)

(* A set of positions that is not empty has a first one. *)
LEMMA FirstPosition ==
  ASSUME NEW P \in SUBSET Nat, P # {}
  PROVE  \E i \in P : \A j \in P : i <= j
<1> DEFINE Less == {ss \in Nat \X Nat : ss[1] < ss[2]}
<1>1. IsWellFoundedOn(Less, Nat)
  BY NatLessThanWellFounded DEF OpToRel
<1>2. \A i, j \in Nat : j < i => <<j, i>> \in Less
  OBVIOUS
<1> HIDE DEF Less
<1>3. PICK i \in P : \A j \in P : ~(<<j, i>> \in Less)
  BY <1>1, WFMin, Zenon
<1>4. ASSUME NEW j \in P PROVE i <= j
  <2>1. i \in Nat /\ j \in Nat
    OBVIOUS
  <2>2. ~(j < i)
    BY <1>2, <1>3, <2>1, Zenon
  <2> QED
    BY <2>1, <2>2
<1> QED
  BY <1>4

(* Division with remainder, and that there is only one way to write it. *)
LEMMA ProductGrows ==
  ASSUME NEW B \in Nat, NEW p \in Int, NEW q \in Int, p < q
  PROVE  B * p + B <= B * q
<1>1. q - p - 1 \in Nat
  OBVIOUS
<1>2. B * (q - p - 1) \in Nat
  BY <1>1
<1>3. B * (q - p - 1) = B * q - B * p - B
  OBVIOUS
<1> QED
  BY <1>2, <1>3

(* A number is its quotient times the divisor, and the residue. *)
LEMMA Division ==
  ASSUME NEW B \in Nat \ {0}, NEW x \in Nat
  PROVE  /\ x \div B \in Nat /\ x % B \in 0 .. B - 1 /\ x = B * (x \div B) + (x % B)
<1>1. /\ x \div B \in Int /\ x % B \in 0 .. B - 1 /\ x = B * (x \div B) + (x % B)
  OBVIOUS
<1>2. x \div B >= 0
  <2> SUFFICES ASSUME x \div B < 0 PROVE FALSE
    BY <1>1
  <2>1. B * (x \div B) + B <= B * 0
    BY <1>1, ProductGrows
  <2> QED
    BY <2>1, <1>1
<1> QED
  BY <1>1, <1>2

(* A number has one quotient and one residue. *)
LEMMA DivisionUnique ==
  ASSUME NEW B \in Nat \ {0}, NEW p \in Int, NEW q \in Int, NEW r \in 0 .. B - 1, NEW s \in 0 .. B - 1,
         B * p + r = B * q + s
  PROVE  p = q /\ r = s
<1>1. ASSUME p < q PROVE FALSE
  <2> DEFINE a == B * p  b == B * q
  <2>1. a + B <= b /\ a + r = b + s /\ a \in Int /\ b \in Int
    BY <1>1, ProductGrows
  <2> HIDE DEF a, b
  <2> QED
    BY <2>1
<1>2. ASSUME q < p PROVE FALSE
  <2> DEFINE a == B * p  b == B * q
  <2>1. b + B <= a /\ a + r = b + s /\ a \in Int /\ b \in Int
    BY <1>2, ProductGrows
  <2> HIDE DEF a, b
  <2> QED
    BY <2>1
<1>3. p = q
  BY <1>1, <1>2
<1>4. B * p = B * q /\ B * q \in Int
  BY <1>3
<1> QED
  BY <1>3, <1>4

(* A set has as many elements as one it can be paired with. *)
LEMMA SameSize ==
  ASSUME NEW S, IsFiniteSet(S), NEW T, NEW f \in [S -> T],
         \A x, y \in S : f[x] = f[y] => x = y,
         \A t \in T : \E x \in S : f[x] = t
  PROVE  IsFiniteSet(T) /\ Cardinality(T) = Cardinality(S)
<1>1. f \in Injection(S, T)
  BY DEF Injection, IsInjective
<1>2. f \in Surjection(S, T)
  BY DEF Surjection
<1>3. ExistsBijection(S, T)
  BY <1>1, <1>2 DEF ExistsBijection, Bijection
<1> QED
  BY <1>3, FS_Bijection, Zenon

(* Two sets with nothing in common. *)
LEMMA DisjointSize ==
  ASSUME NEW S, IsFiniteSet(S), NEW T, IsFiniteSet(T), S \cap T = {}
  PROVE  /\ IsFiniteSet(S \cup T) /\ Cardinality(S) \in Nat /\ Cardinality(T) \in Nat
         /\ Cardinality(S \cup T) = Cardinality(S) + Cardinality(T)
<1>1. Cardinality(S) \in Nat /\ Cardinality(T) \in Nat
  BY FS_CardinalityType, Zenon
<1>2. /\ IsFiniteSet(S \cup T)
      /\ Cardinality(S \cup T) = Cardinality(S) + Cardinality(T) - Cardinality(S \cap T)
  BY FS_Union, Zenon
<1>3. Cardinality(S \cap T) = 0
  BY FS_EmptySet, Zenon
<1> DEFINE s == Cardinality(S)  t == Cardinality(T)  u == Cardinality(S \cup T)
<1>4. s \in Nat /\ t \in Nat /\ u = s + t - 0
  BY <1>1, <1>2, <1>3
<1> HIDE DEF s, t, u
<1>5. u = s + t
  BY <1>4
<1> QED
  BY <1>1, <1>2, <1>5 DEF s, t, u

(* Some of the numbers of an interval. *)
LEMMA IntervalPart ==
  ASSUME NEW a \in Nat, NEW b \in Nat, NEW T \in SUBSET (a + 1 .. b)
  PROVE  /\ IsFiniteSet(T) /\ Cardinality(T) \in Nat
         /\ a <= b => Cardinality(T) <= b - a
<1>1. a + 1 \in Int /\ b \in Int
  OBVIOUS
<1>2. IsFiniteSet(a + 1 .. b) /\ Cardinality(a + 1 .. b) = IF a + 1 > b THEN 0 ELSE b - (a + 1) + 1
  BY <1>1, FS_Interval, Zenon
<1>3. IsFiniteSet(T) /\ Cardinality(T) <= Cardinality(a + 1 .. b)
  BY <1>2, FS_Subset, Zenon
<1>4. Cardinality(T) \in Nat
  BY <1>3, FS_CardinalityType, Zenon
<1>5. a <= b => Cardinality(a + 1 .. b) = b - a
  BY <1>2
<1> QED
  BY <1>3, <1>4, <1>5

-----------------------------------------------------------------------------
(* Sequences. *)

(* The elements of a sequence, and when they are all different. *)
LEMMA Contents ==
  ASSUME NEW S, NEW s \in Seq(S)
  PROVE  /\ ToSet(s) = {s[i] : i \in 1 .. Len(s)}
         /\ ToSet(s) \subseteq S
         /\ IsInjective(s) <=> \A i, j \in 1 .. Len(s) : s[i] = s[j] => i = j
BY LenProperties DEF ToSet, IsInjective

(* The empty sequence, and one element. *)
LEMMA EmptyContents == ToSet(<<>>) = {} /\ IsInjective(<<>>)
BY DEF ToSet, IsInjective

(* A sequence of one element. *)
LEMMA SingleContents ==
  ASSUME NEW x
  PROVE  ToSet(<<x>>) = {x} /\ IsInjective(<<x>>)
BY DEF ToSet, IsInjective

(* The elements of two sequences behind one another. *)
LEMMA ConcatElements ==
  ASSUME NEW S, NEW s \in Seq(S), NEW t \in Seq(S)
  PROVE  /\ s \o t \in Seq(S) /\ Len(s \o t) = Len(s) + Len(t)
         /\ Len(s) \in Nat /\ Len(t) \in Nat
         /\ \A i \in 1 .. Len(s) : (s \o t)[i] = s[i]
         /\ \A i \in 1 .. Len(t) : (s \o t)[Len(s) + i] = t[i]
<1>1. \A i \in 1 .. Len(t) : Len(s) + i \in 1 .. Len(s) + Len(t) /\ ~(Len(s) + i <= Len(s))
                             /\ Len(s) + i - Len(s) = i
  BY LenProperties
<1> QED
  BY <1>1, ConcatProperties, LenProperties

(* What a concatenation holds, and when it repeats nothing. *)
LEMMA ConcatContents ==
  ASSUME NEW S, NEW s \in Seq(S), NEW t \in Seq(S)
  PROVE  /\ s \o t \in Seq(S)
         /\ ToSet(s \o t) = ToSet(s) \cup ToSet(t)
         /\ IsInjective(s \o t)
              <=> IsInjective(s) /\ IsInjective(t) /\ ToSet(s) \cap ToSet(t) = {}
<1>1. /\ s \o t \in Seq(S) /\ Len(s \o t) = Len(s) + Len(t)
      /\ Len(s) \in Nat /\ Len(t) \in Nat
      /\ \A i \in 1 .. Len(s) : (s \o t)[i] = s[i]
      /\ \A i \in 1 .. Len(t) : (s \o t)[Len(s) + i] = t[i]
  BY ConcatElements
<1> DEFINE u == s \o t  a == Len(s)  b == Len(t)
<1> HIDE DEF u, a, b
<1>2. /\ u \in Seq(S) /\ Len(u) = a + b /\ a \in Nat /\ b \in Nat
      /\ \A i \in 1 .. a : u[i] = s[i]
      /\ \A i \in 1 .. b : u[a + i] = t[i]
  BY <1>1 DEF u, a, b
<1>3. \A i \in 1 .. a + b : i \in 1 .. a \/ \E j \in 1 .. b : i = a + j
  <2> TAKE i \in 1 .. a + b
  <2>1. CASE i <= a
    BY <2>1, <1>2
  <2>2. CASE i > a
    <3>1. i - a \in 1 .. b /\ i = a + (i - a)
      BY <2>2, <1>2
    <3> QED
      BY <3>1
  <2> QED
    BY <2>1, <2>2, <1>2
<1>4. /\ ToSet(u) = {u[i] : i \in 1 .. a + b}
      /\ ToSet(s) = {s[i] : i \in 1 .. a}
      /\ ToSet(t) = {t[i] : i \in 1 .. b}
      /\ IsInjective(u) <=> \A i, j \in 1 .. a + b : u[i] = u[j] => i = j
      /\ IsInjective(s) <=> \A i, j \in 1 .. a : s[i] = s[j] => i = j
      /\ IsInjective(t) <=> \A i, j \in 1 .. b : t[i] = t[j] => i = j
  <2>1. s \in Seq(S) /\ t \in Seq(S) /\ Len(s) = a /\ Len(t) = b
    BY DEF a, b
  <2>2. /\ ToSet(u) = {u[i] : i \in 1 .. Len(u)}
        /\ IsInjective(u) <=> \A i, j \in 1 .. Len(u) : u[i] = u[j] => i = j
    BY <1>2, Contents, ZenonT(60)
  <2>3. /\ ToSet(s) = {s[i] : i \in 1 .. Len(s)}
        /\ IsInjective(s) <=> \A i, j \in 1 .. Len(s) : s[i] = s[j] => i = j
    BY <2>1, Contents, ZenonT(60)
  <2>4. /\ ToSet(t) = {t[i] : i \in 1 .. Len(t)}
        /\ IsInjective(t) <=> \A i, j \in 1 .. Len(t) : t[i] = t[j] => i = j
    BY <2>1, Contents, ZenonT(60)
  <2>5. Len(u) = a + b
    BY <1>2
  <2> QED
    BY <2>1, <2>2, <2>3, <2>4, <2>5, ZenonT(60)
<1>5. ToSet(u) = ToSet(s) \cup ToSet(t)
  <2>1. ToSet(s) \subseteq ToSet(u)
    BY <1>2, <1>4
  <2>2. ToSet(t) \subseteq ToSet(u)
    <3>1. \A i \in 1 .. b : a + i \in 1 .. a + b
      BY <1>2
    <3> QED
      BY <3>1, <1>2, <1>4
  <2>3. ToSet(u) \subseteq ToSet(s) \cup ToSet(t)
    <3>1. ASSUME NEW i \in 1 .. a + b PROVE u[i] \in ToSet(s) \cup ToSet(t)
      <4>1. CASE i \in 1 .. a
        <5>1. u[i] = s[i] /\ s[i] \in ToSet(s)
          BY <4>1, <1>2, <1>4
        <5> QED
          BY <5>1
      <4>2. CASE \E j \in 1 .. b : i = a + j
        <5>1. PICK j \in 1 .. b : i = a + j
          BY <4>2
        <5>2. u[i] = t[j] /\ t[j] \in ToSet(t)
          BY <5>1, <1>2, <1>4
        <5> QED
          BY <5>2
      <4> QED
        BY <4>1, <4>2, <1>3
    <3> QED
      BY <3>1, <1>4
  <2> QED
    BY <2>1, <2>2, <2>3
<1>6. ASSUME IsInjective(u)
      PROVE  IsInjective(s) /\ IsInjective(t) /\ ToSet(s) \cap ToSet(t) = {}
  <2>1. IsInjective(s)
    <3>1. \A i \in 1 .. a : i \in 1 .. a + b
      BY <1>2
    <3> QED
      BY <3>1, <1>2, <1>4, <1>6
  <2>2. IsInjective(t)
    <3>1. ASSUME NEW i \in 1 .. b, NEW j \in 1 .. b, t[i] = t[j] PROVE i = j
      <4>1. a + i \in 1 .. a + b /\ a + j \in 1 .. a + b
        BY <1>2
      <4>2. a + i = a + j
        BY <4>1, <3>1, <1>2, <1>4, <1>6
      <4> QED
        BY <4>2, <1>2
    <3> QED
      BY <3>1, <1>4
  <2>3. ASSUME NEW i \in 1 .. a, NEW j \in 1 .. b PROVE s[i] # t[j]
    <3>1. i \in 1 .. a + b /\ a + j \in 1 .. a + b /\ i # a + j
      BY <1>2
    <3> QED
      BY <3>1, <1>2, <1>4, <1>6
  <2> QED
    BY <2>1, <2>2, <2>3, <1>4
<1>7. ASSUME IsInjective(s), IsInjective(t), ToSet(s) \cap ToSet(t) = {}
      PROVE  IsInjective(u)
  <2>1. ASSUME NEW i \in 1 .. a + b, NEW j \in 1 .. a + b, u[i] = u[j] PROVE i = j
    <3>1. CASE i \in 1 .. a /\ j \in 1 .. a
      BY <3>1, <2>1, <1>2, <1>4, <1>7
    <3>2. CASE i \in 1 .. a /\ j \notin 1 .. a
      <4>1. PICK k \in 1 .. b : j = a + k
        BY <3>2, <1>3
      <4>2. s[i] = t[k] /\ s[i] \in ToSet(s) /\ t[k] \in ToSet(t)
        BY <4>1, <3>2, <2>1, <1>2, <1>4
      <4> QED
        BY <4>2, <1>7
    <3>3. CASE i \notin 1 .. a /\ j \in 1 .. a
      <4>1. PICK k \in 1 .. b : i = a + k
        BY <3>3, <1>3
      <4>2. s[j] = t[k] /\ s[j] \in ToSet(s) /\ t[k] \in ToSet(t)
        BY <4>1, <3>3, <2>1, <1>2, <1>4
      <4> QED
        BY <4>2, <1>7
    <3>4. CASE i \notin 1 .. a /\ j \notin 1 .. a
      <4>1. PICK k \in 1 .. b : i = a + k
        BY <3>4, <1>3
      <4>2. PICK l \in 1 .. b : j = a + l
        BY <3>4, <1>3
      <4>3. t[k] = t[l]
        BY <4>1, <4>2, <2>1, <1>2
      <4> QED
        BY <4>1, <4>2, <4>3, <1>4, <1>7
    <3> QED
      BY <3>1, <3>2, <3>3, <3>4
  <2> QED
    BY <2>1, <1>4
<1> QED
  BY <1>2, <1>5, <1>6, <1>7 DEF u

(* The same as one fact about the three sequences. *)
Joined(S, u, s, t) ==
  /\ u \in Seq(S) /\ ToSet(u) = ToSet(s) \cup ToSet(t)
  /\ IsInjective(u) <=> IsInjective(s) /\ IsInjective(t) /\ ToSet(s) \cap ToSet(t) = {}

(* A concatenation is its first part and then its second. *)
LEMMA ConcatJoins ==
  ASSUME NEW S, NEW s \in Seq(S), NEW t \in Seq(S)
  PROVE  Joined(S, s \o t, s, t)
BY ConcatContents DEF Joined

(* What an appended sequence holds. *)
LEMMA AppendContents ==
  ASSUME NEW S, NEW s \in Seq(S), NEW x \in S
  PROVE  /\ Append(s, x) \in Seq(S)
         /\ ToSet(Append(s, x)) = ToSet(s) \cup {x}
         /\ IsInjective(s) /\ x \notin ToSet(s) => IsInjective(Append(s, x))
<1>1. Append(s, x) = s \o <<x>> /\ <<x>> \in Seq(S)
  BY AppendIsConcat
<1> QED
  <2> DEFINE e == <<x>>
  <2>1. ToSet(e) = {x} /\ IsInjective(e) /\ e \in Seq(S)
    BY <1>1, SingleContents
  <2>2. Append(s, x) = s \o e
    BY <1>1
  <2> HIDE DEF e
  <2>3. /\ s \o e \in Seq(S) /\ ToSet(s \o e) = ToSet(s) \cup ToSet(e)
        /\ IsInjective(s \o e) <=> IsInjective(s) /\ IsInjective(e) /\ ToSet(s) \cap ToSet(e) = {}
    BY <2>1, ConcatContents
  <2> QED
    BY <2>1, <2>2, <2>3

(* A sequence is what is before a place and what is behind it. *)
LEMMA CutSeq ==
  ASSUME NEW S, NEW s \in Seq(S), NEW n \in 0 .. Len(s)
  PROVE  /\ SubSeq(s, 1, n) \in Seq(S) /\ SubSeq(s, n + 1, Len(s)) \in Seq(S)
         /\ Len(SubSeq(s, 1, n)) = n /\ Len(SubSeq(s, n + 1, Len(s))) = Len(s) - n
         /\ \A i \in 1 .. n : SubSeq(s, 1, n)[i] = s[i]
         /\ SubSeq(s, 1, n) \o SubSeq(s, n + 1, Len(s)) = s
<1>1. Len(s) \in Nat /\ n \in Nat /\ \A i \in 1 .. Len(s) : s[i] \in S
  BY LenProperties
<1>2. /\ SubSeq(s, 1, n) \in Seq(S) /\ Len(SubSeq(s, 1, n)) = n
      /\ \A i \in 1 .. n : SubSeq(s, 1, n)[i] = s[i]
  <2>1. \A i \in 1 .. n : s[i] \in S
    BY <1>1
  <2>2. /\ SubSeq(s, 1, n) \in Seq(S)
        /\ Len(SubSeq(s, 1, n)) = IF 1 <= n THEN n - 1 + 1 ELSE 0
        /\ \A i \in 1 .. n - 1 + 1 : SubSeq(s, 1, n)[i] = s[1 + i - 1]
    BY <2>1, <1>1, SubSeqProperties
  <2>3. n - 1 + 1 = n /\ \A i \in 1 .. n : 1 + i - 1 = i
    BY <1>1
  <2> QED
    BY <2>2, <2>3, <1>1
<1>3. SubSeq(s, n + 1, Len(s)) \in Seq(S) /\ Len(SubSeq(s, n + 1, Len(s))) = Len(s) - n
  <2>1. \A i \in n + 1 .. Len(s) : s[i] \in S
    BY <1>1
  <2>2. /\ SubSeq(s, n + 1, Len(s)) \in Seq(S)
        /\ Len(SubSeq(s, n + 1, Len(s))) =
             IF n + 1 <= Len(s) THEN Len(s) - (n + 1) + 1 ELSE 0
    BY <2>1, <1>1, SubSeqProperties
  <2> QED
    BY <2>2, <1>1
<1>4. SubSeq(s, 1, n) \o SubSeq(s, n + 1, Len(s)) = s
  <2>1. CASE Len(s) = 0
    <3>1. s = <<>> /\ n = 0
      BY <2>1, EmptySeq
    <3> QED
      BY <3>1
  <2>2. CASE Len(s) # 0
    <3>1. 1 \in 1 .. Len(s) + 1 /\ n \in 1 - 1 .. Len(s) /\ Len(s) \in n .. Len(s)
      BY <1>1
    <3> QED
      BY <3>1, ConcatAdjacentSubSeq, SubSeqFull
  <2> QED
    BY <2>1, <2>2
<1> QED
  BY <1>2, <1>3, <1>4

(* Cut in two. *)
LEMMA CutContents ==
  ASSUME NEW S, NEW s \in Seq(S), NEW n \in 0 .. Len(s)
  PROVE  /\ SubSeq(s, 1, n) \in Seq(S) /\ SubSeq(s, n + 1, Len(s)) \in Seq(S)
         /\ ToSet(s) = ToSet(SubSeq(s, 1, n)) \cup ToSet(SubSeq(s, n + 1, Len(s)))
         /\ IsInjective(s) <=>
              /\ IsInjective(SubSeq(s, 1, n)) /\ IsInjective(SubSeq(s, n + 1, Len(s)))
              /\ ToSet(SubSeq(s, 1, n)) \cap ToSet(SubSeq(s, n + 1, Len(s))) = {}
<1> DEFINE f == SubSeq(s, 1, n)  r == SubSeq(s, n + 1, Len(s))
<1>1. f \in Seq(S) /\ r \in Seq(S) /\ f \o r = s
  BY CutSeq
<1> HIDE DEF f, r
<1>2. /\ ToSet(s) = ToSet(f) \cup ToSet(r)
      /\ IsInjective(s) <=> IsInjective(f) /\ IsInjective(r) /\ ToSet(f) \cap ToSet(r) = {}
  <2>1. f \in Seq(S) /\ r \in Seq(S)
    BY <1>1
  <2>2. /\ ToSet(f \o r) = ToSet(f) \cup ToSet(r)
        /\ IsInjective(f \o r) <=> IsInjective(f) /\ IsInjective(r) /\ ToSet(f) \cap ToSet(r) = {}
    <3>1. Joined(S, f \o r, f, r)
      BY <2>1, ConcatJoins, Zenon
    <3> QED
      BY <3>1 DEF Joined
  <2> QED
    BY <2>2, <1>1
<1> QED
  BY <1>1, <1>2 DEF f, r
-----------------------------------------------------------------------------
(* What is on its way to the receiver. *)

(* One message of the stream moves a reader from position a, with l bytes   *)
(* of the block to come, to position b, with k to come.                     *)
Passes(m, a, l, b, k) ==
  \/ m.t = "byte" /\ l > 0 /\ m.v = a + 1 /\ b = a + 1 /\ k = l - 1
  \/ m.t = "data" /\ l = 0 /\ m.v \in 1 .. MaxBlock /\ b = a /\ k = m.v
  \/ m.t = "complete" /\ l = 0 /\ a = Len(Stream) /\ b = a /\ k = 0

(* The same for a list of messages: at and left are where the reader is     *)
(* after each of them.                                                      *)
Walk(P, at, left) ==
  \A i \in 1 .. Len(P) : Passes(P[i], at[i - 1], left[i - 1], at[i], left[i])

Flow(P, a, l, b, k) ==
  \E at, left \in [0 .. Len(P) -> Nat] :
    /\ at[0] = a /\ left[0] = l /\ at[Len(P)] = b /\ left[Len(P)] = k
    /\ Walk(P, at, left)

(* No message leads nowhere else. *)
LEMMA FlowEmpty ==
  ASSUME NEW a \in Nat, NEW l \in Nat
  PROVE  Flow(<<>>, a, l, a, l)
<1> DEFINE at == [i \in 0 .. Len(<<>>) |-> a]  left == [i \in 0 .. Len(<<>>) |-> l]
<1>1. Len(<<>>) = 0 /\ 0 \in 0 .. Len(<<>>)
  OBVIOUS
<1>2. at \in [0 .. Len(<<>>) -> Nat] /\ left \in [0 .. Len(<<>>) -> Nat]
  OBVIOUS
<1>3. at[0] = a /\ left[0] = l /\ at[Len(<<>>)] = a /\ left[Len(<<>>)] = l
  BY <1>1
<1>4. Walk(<<>>, at, left)
  BY <1>1 DEF Walk
<1> HIDE DEF at, left
<1> QED
  BY <1>2, <1>3, <1>4 DEF Flow

(* A list of one message leads where the message does. *)
LEMMA FlowSingle ==
  ASSUME NEW m, NEW a \in Nat, NEW l \in Nat, NEW b \in Nat, NEW k \in Nat
  PROVE  Flow(<<m>>, a, l, b, k) <=> Passes(m, a, l, b, k)
<1>1. Len(<<m>>) = 1 /\ <<m>>[1] = m /\ 1 .. 1 = {1} /\ 0 .. 1 = {0, 1}
  OBVIOUS
<1>2. ASSUME Passes(m, a, l, b, k) PROVE Flow(<<m>>, a, l, b, k)
  <2> DEFINE at == [i \in 0 .. 1 |-> IF i = 0 THEN a ELSE b]
             left == [i \in 0 .. 1 |-> IF i = 0 THEN l ELSE k]
  <2>1. at \in [0 .. 1 -> Nat] /\ left \in [0 .. 1 -> Nat]
    OBVIOUS
  <2>2. at[0] = a /\ left[0] = l /\ at[1] = b /\ left[1] = k
    BY <1>1
  <2> HIDE DEF at, left
  <2>3. Walk(<<m>>, at, left)
    BY <1>1, <1>2, <2>2 DEF Walk
  <2> QED
    BY <1>1, <2>1, <2>2, <2>3 DEF Flow
<1>3. ASSUME Flow(<<m>>, a, l, b, k) PROVE Passes(m, a, l, b, k)
  BY <1>1, <1>3 DEF Flow, Walk
<1> QED
  BY <1>2, <1>3

(* Two lists that join lead from the first's beginning to the second's      *)
(* end.                                                                     *)
LEMMA FlowConcat ==
  ASSUME NEW S, NEW P \in Seq(S), NEW Q \in Seq(S),
         NEW a \in Nat, NEW l \in Nat, NEW b \in Nat, NEW k \in Nat, NEW c \in Nat, NEW j \in Nat,
         Flow(P, a, l, b, k), Flow(Q, b, k, c, j)
  PROVE  Flow(P \o Q, a, l, c, j)
<1> DEFINE n == Len(P)  m == Len(Q)  R == P \o Q
<1>1. /\ n \in Nat /\ m \in Nat /\ Len(R) = n + m
      /\ \A i \in 1 .. n : R[i] = P[i]
      /\ \A i \in 1 .. m : R[n + i] = Q[i]
  BY ConcatElements
<1>2. PICK at1, left1 \in [0 .. n -> Nat] :
        /\ at1[0] = a /\ left1[0] = l /\ at1[n] = b /\ left1[n] = k
        /\ Walk(P, at1, left1)
  BY DEF Flow
<1>3. PICK at2, left2 \in [0 .. m -> Nat] :
        /\ at2[0] = b /\ left2[0] = k /\ at2[m] = c /\ left2[m] = j
        /\ Walk(Q, at2, left2)
  BY DEF Flow
<1>4. \A i \in 1 .. n : Passes(P[i], at1[i - 1], left1[i - 1], at1[i], left1[i])
  BY <1>2 DEF Walk
<1>5. \A i \in 1 .. m : Passes(Q[i], at2[i - 1], left2[i - 1], at2[i], left2[i])
  BY <1>3 DEF Walk
<1> DEFINE at == [i \in 0 .. Len(R) |-> IF i <= n THEN at1[i] ELSE at2[i - n]]
           left == [i \in 0 .. Len(R) |-> IF i <= n THEN left1[i] ELSE left2[i - n]]
<1> HIDE DEF n, m, R
<1>6. at \in [0 .. Len(R) -> Nat] /\ left \in [0 .. Len(R) -> Nat]
  <2>1. \A i \in 0 .. Len(R) : i <= n => i \in 0 .. n
    BY <1>1
  <2>2. \A i \in 0 .. Len(R) : ~(i <= n) => i - n \in 0 .. m
    BY <1>1
  <2> QED
    BY <2>1, <2>2, <1>2, <1>3
<1>7. /\ \A i \in 0 .. n : at[i] = at1[i] /\ left[i] = left1[i]
      /\ \A i \in 0 .. m : at[n + i] = at2[i] /\ left[n + i] = left2[i]
  <2>0. n \in Nat /\ m \in Nat /\ Len(R) = n + m
    BY <1>1
  <2>1. \A i \in 0 .. n : i \in 0 .. Len(R) /\ i <= n
    BY <2>0
  <2>2. ASSUME NEW i \in 0 .. m PROVE at[n + i] = at2[i] /\ left[n + i] = left2[i]
    <3>0. n \in Nat /\ m \in Nat /\ Len(R) = n + m
      BY <1>1
    <3>1. n + i \in 0 .. Len(R) /\ (n + i) - n = i
      BY <3>0
    <3>2. CASE i = 0
      <4>1. n + i = n /\ n <= n /\ n \in 0 .. Len(R)
        BY <3>2, <3>0
      <4>2. at[n] = at1[n] /\ left[n] = left1[n]
        BY <4>1
      <4> HIDE DEF at, left
      <4> QED
        BY <3>2, <4>1, <4>2, <1>2, <1>3
    <3>3. CASE i # 0
      <4>1. ~(n + i <= n)
        BY <3>3, <3>0
      <4> QED
        BY <3>1, <4>1
    <3> QED
      BY <3>2, <3>3
  <2> QED
    BY <2>1, <2>2
<1> HIDE DEF at, left
<1>8. Walk(R, at, left)
  <2>1. ASSUME NEW i \in 1 .. n + m
        PROVE  Passes(R[i], at[i - 1], left[i - 1], at[i], left[i])
    <3>1. CASE i <= n
      <4>1. i \in 1 .. n /\ i - 1 \in 0 .. n /\ i \in 0 .. n
        BY <3>1, <1>1
      <4> QED
        BY <4>1, <1>1, <1>4, <1>7
    <3>2. CASE ~(i <= n)
      <4>1. PICK h \in 1 .. m : i = n + h
        <5>1. i - n \in 1 .. m /\ i = n + (i - n)
          BY <3>2, <1>1
        <5> QED
          BY <5>1
      <4>2. h - 1 \in 0 .. m /\ h \in 0 .. m /\ i - 1 = n + (h - 1)
        <5>1. n \in Nat /\ m \in Nat
          BY <1>1
        <5> QED
          BY <4>1, <5>1
      <4>3. /\ at[i - 1] = at2[h - 1] /\ left[i - 1] = left2[h - 1]
            /\ at[i] = at2[h] /\ left[i] = left2[h] /\ R[i] = Q[h]
        <5>1. at[n + h] = at2[h] /\ left[n + h] = left2[h]
          BY <4>2, <1>7
        <5>2. at[n + (h - 1)] = at2[h - 1] /\ left[n + (h - 1)] = left2[h - 1]
          BY <4>2, <1>7
        <5>3. R[n + h] = Q[h]
          BY <1>1
        <5> QED
          BY <4>1, <4>2, <5>1, <5>2, <5>3, Zenon
      <4> QED
        BY <4>3, <4>1, <1>5
    <3> QED
      BY <3>1, <3>2
  <2> QED
    BY <2>1, <1>1 DEF Walk
<1>9. at[0] = a /\ left[0] = l /\ at[Len(R)] = c /\ left[Len(R)] = j
  <2>1. 0 \in 0 .. n /\ m \in 0 .. m
    BY <1>1
  <2> QED
    BY <2>1, <1>1, <1>2, <1>3, <1>7
<1>10. Flow(R, a, l, c, j)
  BY <1>6, <1>8, <1>9 DEF Flow
<1> QED
  BY <1>10 DEF R

(* A list that is cut in two has a position at the cut. *)
LEMMA FlowCut ==
  ASSUME NEW S, NEW P \in Seq(S), NEW Q \in Seq(S),
         NEW a \in Nat, NEW l \in Nat, NEW c \in Nat, NEW j \in Nat,
         Flow(P \o Q, a, l, c, j)
  PROVE  \E b, k \in Nat : Flow(P, a, l, b, k) /\ Flow(Q, b, k, c, j)
<1> DEFINE n == Len(P)  m == Len(Q)  R == P \o Q
<1>1. /\ n \in Nat /\ m \in Nat /\ Len(R) = n + m
      /\ \A i \in 1 .. n : R[i] = P[i]
      /\ \A i \in 1 .. m : R[n + i] = Q[i]
  BY ConcatElements
<1>2. PICK at, left \in [0 .. n + m -> Nat] :
        /\ at[0] = a /\ left[0] = l /\ at[n + m] = c /\ left[n + m] = j
        /\ Walk(R, at, left)
  BY <1>1 DEF Flow
<1> DEFINE at1 == [i \in 0 .. n |-> at[i]]  left1 == [i \in 0 .. n |-> left[i]]
           at2 == [i \in 0 .. m |-> at[n + i]]  left2 == [i \in 0 .. m |-> left[n + i]]
<1> HIDE DEF R
<1>3. \A i \in 1 .. n + m : Passes(R[i], at[i - 1], left[i - 1], at[i], left[i])
  BY <1>1, <1>2 DEF Walk
<1> HIDE DEF n, m
<1>4. /\ at1 \in [0 .. n -> Nat] /\ left1 \in [0 .. n -> Nat]
      /\ at2 \in [0 .. m -> Nat] /\ left2 \in [0 .. m -> Nat]
  <2>1. (\A i \in 0 .. n : i \in 0 .. n + m) /\ (\A i \in 0 .. m : n + i \in 0 .. n + m)
    BY <1>1
  <2> QED
    BY <2>1, <1>2
<1>5. at[n] \in Nat /\ left[n] \in Nat
  <2>1. n \in 0 .. n + m
    BY <1>1
  <2> QED
    BY <2>1, <1>2
<1>6. Flow(P, a, l, at[n], left[n])
  <2>1. at1[0] = a /\ left1[0] = l /\ at1[n] = at[n] /\ left1[n] = left[n]
    BY <1>1, <1>2
  <2>2. ASSUME NEW i \in 1 .. n
        PROVE  Passes(P[i], at1[i - 1], left1[i - 1], at1[i], left1[i])
    <3>1. i \in 1 .. n + m /\ i - 1 \in 0 .. n /\ i \in 0 .. n
      BY <1>1
    <3> QED
      BY <3>1, <1>1, <1>3
  <2> HIDE DEF at1, left1
  <2> QED
    BY <1>4, <2>1, <2>2 DEF Flow, Walk, n
<1>7. Flow(Q, at[n], left[n], c, j)
  <2>1. at2[0] = at[n] /\ left2[0] = left[n] /\ at2[m] = c /\ left2[m] = j
    BY <1>1, <1>2
  <2>2. ASSUME NEW i \in 1 .. m
        PROVE  Passes(Q[i], at2[i - 1], left2[i - 1], at2[i], left2[i])
    <3>1. n + i \in 1 .. n + m /\ i - 1 \in 0 .. m /\ i \in 0 .. m /\ n + (i - 1) = (n + i) - 1
      <4>1. n \in Nat /\ m \in Nat
        BY <1>1
      <4> QED
        BY <4>1
    <3>2. Passes(R[n + i], at[(n + i) - 1], left[(n + i) - 1], at[n + i], left[n + i])
      BY <3>1, <1>3
    <3>3. R[n + i] = Q[i]
      BY <1>1
    <3>4. at2[i - 1] = at[(n + i) - 1] /\ left2[i - 1] = left[(n + i) - 1]
      BY <3>1
    <3>5. at2[i] = at[n + i] /\ left2[i] = left[n + i]
      BY <3>1
    <3> QED
      BY <3>2, <3>3, <3>4, <3>5
  <2> HIDE DEF at2, left2
  <2> QED
    BY <1>4, <2>1, <2>2 DEF Flow, Walk, m
<1> QED
  BY <1>5, <1>6, <1>7

(* A part of what follows is moved to the end of what goes before. *)
LEMMA FlowMove ==
  ASSUME NEW S, NEW P \in Seq(S), NEW Q \in Seq(S), NEW u \in Seq(S), NEW v \in Seq(S),
         NEW a \in Nat, NEW l \in Nat, NEW y \in Nat, NEW z \in Nat, NEW c \in Nat, NEW j \in Nat,
         Flow(P \o Q, a, l, y, z), Flow(u \o v, y, z, c, j)
  PROVE  \E b, k \in Nat : Flow(P \o (Q \o u), a, l, b, k) /\ Flow(v, b, k, c, j)
<1>1. (P \o Q) \o u = P \o (Q \o u)
  BY ConcatAssociative, SMTT(60)
<1> DEFINE R == P \o Q
<1>2. R \in Seq(S) /\ Flow(R, a, l, y, z) /\ P \o (Q \o u) = R \o u
  BY <1>1, ConcatProperties
<1> HIDE DEF R
<1>3. PICK b, k \in Nat : Flow(u, y, z, b, k) /\ Flow(v, b, k, c, j)
  BY FlowCut
<1>4. Flow(R \o u, a, l, b, k)
  BY <1>2, <1>3, FlowConcat
<1> QED
  BY <1>2, <1>3, <1>4

(* The first message and the rest. *)
LEMMA FlowHead ==
  ASSUME NEW S, NEW P \in Seq(S), P # <<>>,
         NEW a \in Nat, NEW l \in Nat, NEW c \in Nat, NEW j \in Nat,
         Flow(P, a, l, c, j)
  PROVE  \E b, k \in Nat : Passes(Head(P), a, l, b, k) /\ Flow(Tail(P), b, k, c, j)
<1> DEFINE h == Head(P)
<1>1. <<h>> \in Seq(S) /\ Tail(P) \in Seq(S) /\ P = <<h>> \o Tail(P)
  OBVIOUS
<1> HIDE DEF h
<1>2. PICK b, k \in Nat : Flow(<<h>>, a, l, b, k) /\ Flow(Tail(P), b, k, c, j)
  <2> DEFINE u == <<h>>  v == Tail(P)
  <2>1. u \in Seq(S) /\ v \in Seq(S) /\ Flow(u \o v, a, l, c, j)
    BY <1>1
  <2> HIDE DEF u, v
  <2>2. \E b, k \in Nat : Flow(u, a, l, b, k) /\ Flow(v, b, k, c, j)
    BY <2>1, FlowCut, ZenonT(60)
  <2> QED
    BY <2>2 DEF u, v
<1>3. Passes(h, a, l, b, k)
  BY <1>2, FlowSingle
<1> QED
  BY <1>2, <1>3 DEF h

(* As long as no more is read than is left of the block, it is bytes, in order. *)
LEMMA FlowBytes ==
  ASSUME NEW S, NEW P \in Seq(S),
         NEW a \in Nat, NEW l \in Nat, NEW b \in Nat, NEW k \in Nat,
         Flow(P, a, l, b, k), Len(P) <= l
  PROVE  /\ b = a + Len(P) /\ k = l - Len(P)
         /\ \A i \in 1 .. Len(P) : P[i].t = "byte" /\ P[i].v = a + i
<1> DEFINE n == Len(P)
<1>1. n \in Nat /\ n <= l
  OBVIOUS
<1>2. PICK at, left \in [0 .. n -> Nat] :
        /\ at[0] = a /\ left[0] = l /\ at[n] = b /\ left[n] = k
        /\ Walk(P, at, left)
  BY DEF Flow
<1>3. \A i \in 1 .. n : Passes(P[i], at[i - 1], left[i - 1], at[i], left[i])
  BY <1>2 DEF Walk
<1> HIDE DEF n
<1> DEFINE Bad == {i \in 0 .. n : ~(at[i] = a + i /\ left[i] = l - i)}
<1>4. Bad = {}
  <2> SUFFICES ASSUME Bad # {} PROVE FALSE
    OBVIOUS
  <2>1. Bad \in SUBSET Nat
    BY <1>1
  <2>2. PICK i \in Bad : \A h \in Bad : i <= h
    BY <2>1, FirstPosition
  <2>3. i # 0
    BY <1>1, <1>2
  <2>4. i \in 1 .. n /\ i - 1 \in 0 .. n
    BY <2>3, <1>1
  <2>5. i - 1 \notin Bad
    BY <2>2, <2>4
  <2>6. at[i - 1] = a + (i - 1) /\ left[i - 1] = l - (i - 1)
    BY <2>4, <2>5
  <2>7. left[i - 1] > 0
    BY <2>4, <2>6, <1>1
  <2>8. at[i] = at[i - 1] + 1 /\ left[i] = left[i - 1] - 1
    BY <2>4, <2>7, <1>3 DEF Passes
  <2>9. at[i] = a + i /\ left[i] = l - i
    BY <2>4, <2>6, <2>8
  <2> QED
    BY <2>9, <2>2
<1>5. \A i \in 0 .. n : at[i] = a + i /\ left[i] = l - i
  BY <1>4
<1>6. b = a + n /\ k = l - n
  <2>1. n \in 0 .. n
    BY <1>1
  <2> QED
    BY <2>1, <1>2, <1>5
<1>7. ASSUME NEW i \in 1 .. n PROVE P[i].t = "byte" /\ P[i].v = a + i
  <2>1. i \in 0 .. n /\ i - 1 \in 0 .. n
    BY <1>1
  <2>2. at[i - 1] = a + (i - 1) /\ left[i - 1] = l - (i - 1)
    BY <2>1, <1>5
  <2>3. left[i - 1] > 0
    BY <2>1, <2>2, <1>1
  <2>4. P[i].t = "byte" /\ P[i].v = at[i - 1] + 1
    <3>1. Passes(P[i], at[i - 1], left[i - 1], at[i], left[i]) /\ ~(left[i - 1] = 0)
      BY <2>3, <1>3
    <3> QED
      BY <3>1 DEF Passes
  <2> QED
    BY <2>2, <2>4
<1> QED
  BY <1>6, <1>7 DEF n

(* A block that SendData_ reads: its size, and its bytes. *)
Block(p, q) == <<Msg("data", q - p)>> \o [i \in 1 .. q - p |-> Byte(p + i)]

(* A block, its header before its bytes, leads from its first position to   *)
(* its last.                                                                *)
LEMMA FlowBlock ==
  ASSUME NEW p \in Nat, NEW q \in Nat, p < q, q - p <= MaxBlock, q <= Len(Stream), MaxBlock \in Nat,
         Len(Stream) \in Nat
  PROVE  /\ Block(p, q) \in Seq(Messages) /\ Len(Block(p, q)) = q - p + 1
         /\ Flow(Block(p, q), p, 0, q, 0)
<1> DEFINE d == Msg("data", q - p)  s == [i \in 1 .. q - p |-> Byte(p + i)]
<1>1. q - p \in Nat /\ q - p \in 1 .. MaxBlock
  OBVIOUS
<1>2. d \in Messages /\ d.t = "data" /\ d.v = q - p
  BY DEF Messages, Msg, Kinds
<1>3. s \in Seq(Messages) /\ Len(s) = q - p /\ \A i \in 1 .. q - p : s[i].t = "byte" /\ s[i].v = p + i
  <2>1. \A i \in 1 .. q - p : Byte(p + i) \in Messages
    BY DEF Messages, Msg, Kinds, Byte
  <2>2. s \in Seq(Messages) /\ Len(s) = q - p
    BY <2>1, <1>1
  <2>3. \A i \in 1 .. q - p : s[i] = Byte(p + i)
    OBVIOUS
  <2> QED
    BY <2>2, <2>3 DEF Byte, Msg
<1>4. <<d>> \in Seq(Messages) /\ Len(<<d>>) = 1
  BY <1>2
<1> HIDE DEF d, s
<1>5. Flow(<<d>>, p, 0, p, q - p)
  BY <1>1, <1>2, FlowSingle DEF Passes
<1>6. Flow(s, p, q - p, q, 0)
  <2> DEFINE at == [i \in 0 .. Len(s) |-> p + i]  left == [i \in 0 .. Len(s) |-> (q - p) - i]
  <2>1. at \in [0 .. Len(s) -> Nat] /\ left \in [0 .. Len(s) -> Nat]
    BY <1>1, <1>3
  <2>2. at[0] = p /\ left[0] = q - p /\ at[Len(s)] = q /\ left[Len(s)] = 0
    <3> DEFINE n == Len(s)
    <3>1. n = q - p /\ n \in Nat
      BY <1>1, <1>3
    <3> HIDE DEF n
    <3>2. 0 \in 0 .. n /\ n \in 0 .. n /\ p + 0 = p /\ p + n = q /\ (q - p) - 0 = q - p /\ (q - p) - n = 0
      BY <3>1
    <3> QED
      BY <3>2 DEF n
  <2>3. ASSUME NEW i \in 1 .. Len(s)
        PROVE  Passes(s[i], at[i - 1], left[i - 1], at[i], left[i])
    <3>1. i \in 0 .. Len(s) /\ i - 1 \in 0 .. Len(s) /\ i \in 1 .. q - p
      BY <1>1, <1>3
    <3>2. at[i] = p + i /\ left[i] = (q - p) - i /\ at[i - 1] = p + (i - 1) /\ left[i - 1] = (q - p) - (i - 1)
      BY <3>1
    <3> HIDE DEF at, left
    <3>3. s[i].t = "byte" /\ s[i].v = p + i
      BY <3>1, <1>3
    <3>4. left[i - 1] > 0 /\ at[i] = at[i - 1] + 1 /\ left[i] = left[i - 1] - 1
      BY <3>1, <3>2, <1>1
    <3> QED
      BY <3>2, <3>3, <3>4, <3>1 DEF Passes
  <2> HIDE DEF at, left
  <2> QED
    BY <2>1, <2>2, <2>3 DEF Flow, Walk
<1>7. Flow(<<d>> \o s, p, 0, q, 0)
  <2> DEFINE e == <<d>>
  <2>1. e \in Seq(Messages) /\ Flow(e, p, 0, p, q - p)
    BY <1>4, <1>5
  <2> HIDE DEF e
  <2>2. Flow(e \o s, p, 0, q, 0)
    BY <2>1, <1>1, <1>3, <1>6, FlowConcat
  <2> QED
    BY <2>2 DEF e
<1>8. <<d>> \o s \in Seq(Messages) /\ Len(<<d>> \o s) = q - p + 1
  <2> DEFINE e == <<d>>
  <2>1. e \in Seq(Messages) /\ Len(e) = 1
    BY <1>4
  <2> HIDE DEF e
  <2>2. e \o s \in Seq(Messages) /\ Len(e \o s) = Len(e) + Len(s)
    BY <2>1, <1>3, ConcatElements, ZenonT(60)
  <2>3. e \o s \in Seq(Messages) /\ Len(e \o s) = q - p + 1
    BY <2>1, <2>2, <1>3, <1>1
  <2> QED
    BY <2>3 DEF e
<1> QED
  BY <1>7, <1>8 DEF Block, d, s

(* The byte that says that the stream is complete. *)
LEMMA FlowComplete ==
  ASSUME Len(Stream) \in Nat
  PROVE  /\ <<Msg("complete", 0)>> \in Seq(Messages) /\ Len(<<Msg("complete", 0)>>) = 1
         /\ Flow(<<Msg("complete", 0)>>, Len(Stream), 0, Len(Stream), 0)
<1> DEFINE m == Msg("complete", 0)
<1>1. m \in Messages /\ m.t = "complete"
  BY DEF Messages, Msg, Kinds
<1> HIDE DEF m
<1>2. Flow(<<m>>, Len(Stream), 0, Len(Stream), 0)
  BY <1>1, FlowSingle DEF Passes
<1> QED
  BY <1>1, <1>2 DEF m

-----------------------------------------------------------------------------
(* What the receiver writes and reports. *)

IsContent(i) == Stream[i] = "content"

(* The content in what was received is the content of that part of the stream. *)
LEMMA PartContent ==
  ASSUME NEW w \in Nat, NEW n \in Nat, NEW c \in 0 .. w, NEW s \in Seq(Messages), Len(s) = n,
         \A i \in 1 .. n : s[i].v = w + i
  PROVE  /\ Content(s) \in 0 .. n
         /\ Cardinality({i \in c + 1 .. w + n : IsContent(i)})
              = Cardinality({i \in c + 1 .. w : IsContent(i)}) + Content(s)
<1> DEFINE A == {i \in c + 1 .. w : IsContent(i)}
           B == {i \in w + 1 .. w + n : IsContent(i)}
           C == {i \in 1 .. n : IsContent(w + i)}
           f == [i \in C |-> w + i]
<1>1. {i \in c + 1 .. w + n : IsContent(i)} = A \cup B /\ A \cap B = {}
  OBVIOUS
<1>2. Content(s) = Cardinality(C)
  <2>1. DOMAIN s = 1 .. n
    BY LenProperties
  <2>2. {i \in DOMAIN s : Stream[s[i].v] = "content"} = C
    BY <2>1 DEF IsContent
  <2> QED
    BY <2>2 DEF Content
<1>3. IsFiniteSet(A) /\ Cardinality(A) \in Nat
  <2>1. A \in SUBSET (c + 1 .. w) /\ c \in Nat
    OBVIOUS
  <2> HIDE DEF A
  <2> QED
    BY <2>1, IntervalPart, Zenon
<1>4. IsFiniteSet(C) /\ Cardinality(C) \in Nat /\ Cardinality(C) <= n
  <2>1. C \in SUBSET (0 + 1 .. n) /\ 0 \in Nat
    OBVIOUS
  <2> HIDE DEF C
  <2>2. IsFiniteSet(C) /\ Cardinality(C) \in Nat /\ (0 <= n => Cardinality(C) <= n - 0)
    BY <2>1, IntervalPart, Zenon
  <2> QED
    BY <2>2
<1>5. f \in [C -> B] /\ \A x, y \in C : f[x] = f[y] => x = y
  OBVIOUS
<1>6. \A t \in B : \E x \in C : f[x] = t
  <2> TAKE t \in B
  <2>1. t - w \in 1 .. n /\ w + (t - w) = t
    OBVIOUS
  <2>2. t - w \in C /\ f[t - w] = t
    BY <2>1
  <2> QED
    BY <2>2
<1> HIDE DEF A, B, C, f
<1>7. IsFiniteSet(B) /\ Cardinality(B) = Cardinality(C)
  BY <1>4, <1>5, <1>6, SameSize, Zenon
<1>8. Cardinality(A \cup B) = Cardinality(A) + Cardinality(B)
  BY <1>1, <1>3, <1>7, DisjointSize, Zenon
<1>9. Content(s) \in 0 .. n
  BY <1>2, <1>4
<1>10. Cardinality(A \cup B) = Cardinality(A) + Content(s)
  BY <1>2, <1>7, <1>8
<1> QED
  BY <1>1, <1>9, <1>10 DEF A

(* The units that a list of messages tells of, and what its parts tell of.  *)
Told(s) ==
  {p \in (1 .. Len(s)) \X (1 .. Len(Stream)) :
     s[p[1]].t = "progress" /\ p[2] <= s[p[1]].v}

(* What the FSS_ON_PROGRESS messages of a list tell can be counted. *)
LEMMA ToldFinite ==
  ASSUME NEW s, Len(s) \in Nat, Len(Stream) \in Nat
  PROVE  IsFiniteSet(Told(s)) /\ OnItsWay(s) = Cardinality(Told(s)) /\ OnItsWay(s) \in Nat
<1> DEFINE A == 1 .. Len(s)  B == 1 .. Len(Stream)
<1>1. IsFiniteSet(A) /\ IsFiniteSet(B)
  BY FS_Interval
<1> HIDE DEF A, B
<1>2. IsFiniteSet(A \X B)
  BY <1>1, FS_Product, Zenon
<1>3. Told(s) \in SUBSET (A \X B)
  BY DEF Told, A, B
<1>4. IsFiniteSet(Told(s))
  BY <1>2, <1>3, FS_Subset, Zenon
<1>5. OnItsWay(s) = Cardinality(Told(s))
  BY DEF OnItsWay, Told
<1> QED
  BY <1>4, <1>5, FS_CardinalityType

(* No message tells of no progress. *)
LEMMA OnItsWayEmpty ==
  OnItsWay(<<>>) = 0
<1>1. Told(<<>>) = {}
  <2>1. 1 .. Len(<<>>) = {}
    OBVIOUS
  <2> QED
    BY <2>1 DEF Told
<1> QED
  BY <1>1, FS_EmptySet DEF OnItsWay, Told

(* A message tells of the progress it carries. *)
LEMMA OnItsWaySingle ==
  ASSUME NEW m \in Messages, Len(Stream) \in Nat
  PROVE  OnItsWay(<<m>>) = IF m.t = "progress" THEN m.v ELSE 0
<1>1. Len(<<m>>) = 1 /\ <<m>>[1] = m /\ 1 .. 1 = {1}
  OBVIOUS
<1>2. CASE m.t = "progress"
  <2> DEFINE S == 1 .. m.v  T == Told(<<m>>)  f == [u \in S |-> <<1, u>>]
  <2>1. m.v \in 0 .. Len(Stream)
    BY DEF Messages
  <2>2. IsFiniteSet(S) /\ Cardinality(S) = m.v
    <3>1. 1 \in Int /\ m.v \in Int
      BY <2>1
    <3>2. IsFiniteSet(S) /\ Cardinality(S) = IF 1 > m.v THEN 0 ELSE m.v - 1 + 1
      BY <3>1, FS_Interval, Zenon
    <3> QED
      BY <2>1, <3>2
  <2>3. T = {p \in {1} \X (1 .. Len(Stream)) : p[2] <= m.v}
    BY <1>1, <1>2 DEF Told
  <2>4. f \in [S -> T]
    <3>1. \A u \in S : u \in 1 .. Len(Stream) /\ u <= m.v
      BY <2>1
    <3>2. \A u \in S : <<1, u>> \in {1} \X (1 .. Len(Stream)) /\ <<1, u>>[2] = u
      BY <3>1
    <3>3. \A u \in S : <<1, u>> \in T
      BY <3>1, <3>2, <2>3
    <3> HIDE DEF T, S
    <3> QED
      BY <3>3
  <2>5. \A x, y \in S : f[x] = f[y] => x = y
    OBVIOUS
  <2>6. \A t \in T : \E x \in S : f[x] = t
    <3> TAKE t \in T
    <3>1. t = <<1, t[2]>> /\ t[2] \in 1 .. Len(Stream) /\ t[2] <= m.v
      BY <2>3
    <3>2. t[2] \in S
      BY <3>1, <2>1
    <3> HIDE DEF S, T
    <3>3. f[t[2]] = t
      BY <3>1, <3>2
    <3> QED
      BY <3>2, <3>3
  <2> HIDE DEF S, T, f
  <2>7. Cardinality(T) = Cardinality(S)
    BY <2>2, <2>4, <2>5, <2>6, SameSize, Zenon
  <2>8. OnItsWay(<<m>>) = Cardinality(T)
    BY DEF OnItsWay, Told, T
  <2> QED
    BY <1>2, <2>2, <2>7, <2>8
<1>3. CASE m.t # "progress"
  <2>1. Told(<<m>>) = {}
    BY <1>1, <1>3 DEF Told
  <2> QED
    BY <1>3, <2>1, FS_EmptySet DEF OnItsWay, Told
<1> QED
  BY <1>2, <1>3

(* What two lists tell adds up. *)
LEMMA OnItsWayConcat ==
  ASSUME NEW s \in Seq(Messages), NEW t \in Seq(Messages), Len(Stream) \in Nat
  PROVE  /\ OnItsWay(s \o t) = OnItsWay(s) + OnItsWay(t)
         /\ OnItsWay(s) \in Nat /\ OnItsWay(t) \in Nat
<1> DEFINE n == Len(s)  m == Len(t)  r == s \o t  L == 1 .. Len(Stream)
<1>1. /\ n \in Nat /\ m \in Nat /\ Len(r) = n + m
      /\ \A i \in 1 .. n : r[i] = s[i]
      /\ \A i \in 1 .. m : r[n + i] = t[i]
  BY ConcatElements
<1> HIDE DEF r
<1>2. /\ IsFiniteSet(Told(s)) /\ OnItsWay(s) = Cardinality(Told(s)) /\ OnItsWay(s) \in Nat
      /\ IsFiniteSet(Told(t)) /\ OnItsWay(t) = Cardinality(Told(t)) /\ OnItsWay(t) \in Nat
      /\ OnItsWay(r) = Cardinality(Told(r))
  BY <1>1, ToldFinite
<1> DEFINE T == {p \in (n + 1 .. n + m) \X L : r[p[1]].t = "progress" /\ p[2] <= r[p[1]].v}
           f == [p \in Told(t) |-> <<n + p[1], p[2]>>]
<1>3. f \in [Told(t) -> T]
  <2>1. ASSUME NEW p \in Told(t) PROVE <<n + p[1], p[2]>> \in T
    <3>1. p[1] \in 1 .. m /\ p[2] \in L /\ t[p[1]].t = "progress" /\ p[2] <= t[p[1]].v
      BY DEF Told
    <3> HIDE DEF L, n, m
    <3>2. n + p[1] \in n + 1 .. n + m
      <4>1. n \in Nat /\ m \in Nat
        BY <1>1
      <4> QED
        BY <3>1, <4>1
    <3>3. r[n + p[1]] = t[p[1]]
      BY <3>1, <1>1
    <3> QED
      BY <3>1, <3>2, <3>3
  <2> HIDE DEF T
  <2> QED
    BY <2>1
<1>4. \A x, y \in Told(t) : f[x] = f[y] => x = y
  <2> TAKE x, y \in Told(t)
  <2>1. x[1] \in Int /\ y[1] \in Int /\ x = <<x[1], x[2]>> /\ y = <<y[1], y[2]>>
    BY DEF Told
  <2>2. f[x] = <<n + x[1], x[2]>> /\ f[y] = <<n + y[1], y[2]>>
    OBVIOUS
  <2> HIDE DEF f
  <2>3. ASSUME f[x] = f[y] PROVE x = y
    <3>1. n + x[1] = n + y[1] /\ x[2] = y[2]
      BY <2>2, <2>3
    <3>2. x[1] = y[1]
      BY <3>1, <2>1, <1>1
    <3> QED
      BY <3>1, <3>2, <2>1
  <2> QED
    BY <2>3
<1>5. \A q \in T : \E x \in Told(t) : f[x] = q
  <2> TAKE q \in T
  <2> DEFINE x == <<q[1] - n, q[2]>>
  <2>1. q = <<q[1], q[2]>> /\ q[1] \in n + 1 .. n + m /\ q[2] \in L
        /\ r[q[1]].t = "progress" /\ q[2] <= r[q[1]].v
    OBVIOUS
  <2> HIDE DEF L, T
  <2>2. q[1] - n \in 1 .. m /\ n + (q[1] - n) = q[1]
    BY <2>1, <1>1
  <2>3. r[q[1]] = t[q[1] - n]
    <3> DEFINE i == q[1] - n
    <3>1. i \in 1 .. m /\ n + i = q[1]
      BY <2>2
    <3> HIDE DEF i
    <3>2. r[n + i] = t[i]
      BY <3>1, <1>1
    <3> QED
      BY <3>1, <3>2 DEF i
  <2>4. x \in Told(t)
    BY <2>1, <2>2, <2>3 DEF Told, L
  <2>5. f[x] = q
    BY <2>1, <2>2, <2>4
  <2> QED
    BY <2>4, <2>5
<1>6. Told(r) = Told(s) \cup T
  <2>1. (1 .. Len(r)) = (1 .. n) \cup (n + 1 .. n + m)
    BY <1>1
  <2>2. Told(r) = {p \in (1 .. n) \X L : r[p[1]].t = "progress" /\ p[2] <= r[p[1]].v} \cup T
    BY <2>1 DEF Told
  <2>3. \A p \in (1 .. n) \X L : r[p[1]] = s[p[1]]
    BY <1>1
  <2>4. Told(s) = {p \in (1 .. n) \X L : r[p[1]].t = "progress" /\ p[2] <= r[p[1]].v}
    BY <2>3 DEF Told
  <2> QED
    BY <2>2, <2>4
<1>7. Told(s) \cap T = {}
  <2>1. \A p \in Told(s) : p[1] \in 1 .. n
    BY DEF Told
  <2>2. \A p \in T : p[1] \in n + 1 .. n + m
    OBVIOUS
  <2>3. (1 .. n) \cap (n + 1 .. n + m) = {}
    BY <1>1
  <2> QED
    BY <2>1, <2>2, <2>3
<1> HIDE DEF f, T
<1>8. IsFiniteSet(T) /\ Cardinality(T) = Cardinality(Told(t))
  BY <1>2, <1>3, <1>4, <1>5, SameSize, ZenonT(60)
<1>9. Cardinality(Told(r)) = Cardinality(Told(s)) + Cardinality(T)
  BY <1>2, <1>6, <1>7, <1>8, DisjointSize, ZenonT(60)
<1>10. OnItsWay(r) = OnItsWay(s) + OnItsWay(t)
  BY <1>2, <1>8, <1>9
<1> QED
  BY <1>2, <1>10 DEF r

-----------------------------------------------------------------------------
(* Where the handlers are, and what the users have been told. *)

Handshaking(e) == st[e] \in {"connected", "connect"}

Places == {"idle", "validate", "ack", "read", "flush", "fill",
           "type", "block", "chunk", "end", "complete"}
Codes == {"none", "FAILED_TO_SEND", "FAILED_TO_RECV", "SET_FILE_POS",
          "READ_FILE", "GET_FILE_POS", "WRITE_FILE", "CONNECTION_CLOSED"}

ControlOK ==
  /\ st \in [Ends -> {"connected", "connect", "established", "none"}]
  /\ pc \in [Ends -> Places]
  /\ pc["snd"] \in {"idle", "validate", "ack", "read", "flush", "fill"}
  /\ pc["rcv"] \in {"idle", "validate", "ack", "type", "block", "chunk", "end", "complete"}
  /\ told \in [Ends -> {"nothing", "start", "complete", "error"}] /\ why \in [Ends -> Codes]
  /\ gotPos \in BOOLEAN /\ sendDone \in BOOLEAN /\ up \in BOOLEAN

StageInv ==
  \A e \in Ends :
    /\ st[e] = "connected" => pc[e] \in {"idle", "validate"}
    /\ st[e] = "connect" => pc[e] \in {"idle", "ack"}
    /\ st[e] = "established" => pc[e] \notin {"validate", "ack"} /\ told[e] = "start"
    /\ st[e] = "none" => pc[e] = "idle" /\ told[e] \in {"complete", "error"}
    /\ Handshaking(e) => told[e] = "nothing"

ControlInv == ControlOK /\ StageInv

(* There are two ends, each the other's peer. *)
LEMMA TheEnds ==
  /\ Ends = {"snd", "rcv"} /\ "snd" \in Ends /\ "rcv" \in Ends
  /\ Peer("snd") = "rcv" /\ Peer("rcv") = "snd"
  /\ \A e \in Ends : Peer(e) \in Ends /\ Peer(e) # e /\ Peer(Peer(e)) = e
BY DEF Ends, Peer

(* An error ends a side's part, wherever its handler is. *)
LEMMA ControlFail ==
  ASSUME ControlInv, NEW e \in Ends, NEW code \in Codes, Fail(e, code)
  PROVE  ControlInv'
<1>1. ControlOK'
  BY TheEnds DEF ControlInv, ControlOK, Fail, Goto, Tell, snd, Places
<1>2. StageInv'
  BY TheEnds DEF ControlInv, ControlOK, StageInv, Fail, Goto, Tell, Handshaking
<1> QED
  BY <1>1, <1>2 DEF ControlInv

(* Both ends begin with nothing said and nothing to do. *)
LEMMA ControlInit ==
  ASSUME Init
  PROVE  ControlInv
BY TheEnds DEF Init, ControlInv, ControlOK, StageInv, Handshaking, Places, Codes

(* A step of a handler that ends nothing and tells nothing. *)
LEMMA ControlGoto ==
  ASSUME ControlInv, NEW e \in Ends, NEW l \in Places, pc' = [pc EXCEPT ![e] = l],
         UNCHANGED <<st, told, why>>, gotPos' \in BOOLEAN, sendDone' \in BOOLEAN, up' \in BOOLEAN,
         e = "snd" => l \in {"idle", "validate", "ack", "read", "flush", "fill"},
         e = "rcv" => l \in {"idle", "validate", "ack", "type", "block", "chunk", "end", "complete"},
         st[e] # "none",
         st[e] = "connected" => l \in {"idle", "validate"},
         st[e] = "connect" => l \in {"idle", "ack"},
         st[e] = "established" => l \notin {"validate", "ack"}
  PROVE  ControlInv'
<1>1. ControlOK'
  BY TheEnds DEF ControlInv, ControlOK, Places
<1>2. StageInv'
  BY TheEnds DEF ControlInv, ControlOK, StageInv, Handshaking
<1> QED
  BY <1>1, <1>2 DEF ControlInv

(* The stages do not depend on what is in the connection. *)
LEMMA ControlSame ==
  ASSUME ControlInv, UNCHANGED <<st, pc, told, why, gotPos, sendDone>>, up' \in BOOLEAN
  PROVE  ControlInv'
BY DEF ControlInv, ControlOK, StageInv, Handshaking

(* Handlers of either side. *)
LEMMA ControlHandler ==
  ASSUME ControlInv, NEW e \in Ends, Handler(e)
  PROVE  ControlInv'
<1>1. CASE OnRead(e)
  <2> DEFINE l == IF st[e] = "connected" THEN "validate"
                  ELSE IF st[e] = "connect" THEN "ack"
                  ELSE IF e = "snd" THEN "read"
                  ELSE IF expect = 0 THEN "type" ELSE "block"
  <2>1. /\ l \in Places
        /\ e = "snd" => l \in {"validate", "ack", "read"}
        /\ e = "rcv" => l \in {"validate", "ack", "type", "block"}
        /\ st[e] = "connected" => l = "validate"
        /\ st[e] = "connect" => l = "ack"
        /\ st[e] \notin {"connected", "connect"} => l \notin {"validate", "ack"}
    BY TheEnds DEF Places
  <2>2. pc' = [pc EXCEPT ![e] = l]
    BY <1>1 DEF OnRead, Goto
  <2>3. /\ UNCHANGED <<st, told, why, gotPos, sendDone, up>> /\ st[e] # "none"
        /\ gotPos \in BOOLEAN /\ sendDone \in BOOLEAN /\ up \in BOOLEAN
    BY <1>1 DEF OnRead, user, snd, net, ControlInv, ControlOK
  <2> HIDE DEF l
  <2> QED
    BY <2>1, <2>2, <2>3, ControlGoto
<1>2. ASSUME NEW s, Established(e, s), Handshaking(e)
      PROVE  ControlInv'
  <2> DEFINE l == IF e = "rcv" THEN "idle" ELSE "read"
  <2>1. /\ st' = [st EXCEPT ![e] = "established"] /\ told' = [told EXCEPT ![e] = "start"]
        /\ pc' = [pc EXCEPT ![e] = l] /\ UNCHANGED <<up, gotPos, sendDone, why>>
        /\ l \in {"idle", "read"} /\ (e = "rcv" => l = "idle")
    BY <1>2 DEF Established, Tell, Goto, snd
  <2> HIDE DEF l
  <2>2. ControlOK'
    BY <2>1, TheEnds DEF ControlInv, ControlOK, Places
  <2>3. StageInv'
    BY <2>1, TheEnds DEF ControlInv, ControlOK, StageInv, Handshaking
  <2> QED
    BY <2>2, <2>3 DEF ControlInv
<1>3. CASE Validate(e)
  BY <1>2, <1>3 DEF Validate, Handshaking
<1>4. CASE Acknowledged(e)
  BY <1>2, <1>4 DEF Acknowledged, Handshaking
<1>5. CASE HandshakeNothing(e)
  <2>1. pc' = [pc EXCEPT ![e] = "idle"] /\ "idle" \in Places
    BY <1>5 DEF HandshakeNothing, Goto, Places
  <2>2. /\ UNCHANGED <<st, told, why, gotPos, sendDone, up>> /\ st[e] # "none"
        /\ gotPos \in BOOLEAN /\ sendDone \in BOOLEAN /\ up \in BOOLEAN
    BY <1>5 DEF HandshakeNothing, user, snd, net, ControlInv, ControlOK, StageInv
  <2> QED
    BY <2>1, <2>2, ControlGoto
<1>6. CASE OnClose(e)
  BY <1>6, ControlFail DEF OnClose, Codes
<1> QED
  BY <1>1, <1>3, <1>4, <1>5, <1>6 DEF Handler

(* A side whose handler runs past the handshake is established. *)
LEMMA Running ==
  ASSUME ControlInv
  PROVE  /\ pc["snd"] \in {"read", "flush", "fill"} => st["snd"] = "established"
         /\ pc["rcv"] \in {"type", "block", "chunk", "end", "complete"} => st["rcv"] = "established"
BY TheEnds DEF ControlInv, ControlOK, StageInv

(* The sender keeps the stages in order. *)
LEMMA ControlSender ==
  ASSUME ControlInv, Sender
  PROVE  ControlInv'
<1>0. /\ gotPos \in BOOLEAN /\ sendDone \in BOOLEAN /\ up \in BOOLEAN
      /\ "snd" \in Ends /\ "snd" # "rcv"
  BY TheEnds DEF ControlInv, ControlOK
<1>1. ASSUME pc["snd"] \in {"read", "flush", "fill"}, NEW l \in {"idle", "flush", "fill"},
             pc' = [pc EXCEPT !["snd"] = l], UNCHANGED <<st, told, why, up>>,
             gotPos' \in BOOLEAN, sendDone' \in BOOLEAN
      PROVE  ControlInv'
  <2>1. st["snd"] = "established" /\ l \in Places
    BY <1>1, Running DEF Places
  <2> QED
    BY <1>0, <1>1, <2>1, ControlGoto
<1>2. CASE SndPosMissing
  BY <1>0, <1>1, <1>2 DEF SndPosMissing, Goto, user, snd, net
<1>3. CASE SndPos
  BY <1>0, <1>1, <1>3 DEF SndPos, Goto, user
<1>4. CASE SndProgress
  BY <1>0, <1>4, ControlSame DEF SndProgress, user, snd
<1>5. CASE SndReadAll
  BY <1>0, <1>1, <1>5 DEF SndReadAll, Goto, user, snd, net
<1>6. CASE SndComplete
  <2>1. /\ st' = [st EXCEPT !["snd"] = "none"] /\ told' = [told EXCEPT !["snd"] = "complete"]
        /\ pc' = [pc EXCEPT !["snd"] = "idle"] /\ UNCHANGED <<up, gotPos, sendDone, why>>
    BY <1>6 DEF SndComplete, Tell, Goto, snd
  <2>2. ControlOK'
    BY <2>1, TheEnds DEF ControlInv, ControlOK, Places
  <2>3. StageInv'
    BY <2>1, TheEnds DEF ControlInv, ControlOK, StageInv, Handshaking
  <2> QED
    BY <2>2, <2>3 DEF ControlInv
<1>7. CASE SndFlush
  <2>1. \E l \in {"idle", "flush", "fill"} : pc' = [pc EXCEPT !["snd"] = l]
    BY <1>7 DEF SndFlush, Goto
  <2>2. pc["snd"] = "flush" /\ UNCHANGED <<st, told, why, up, gotPos, sendDone>>
    BY <1>7 DEF SndFlush, user
  <2> QED
    BY <1>0, <1>1, <2>1, <2>2
<1>8. CASE SndFill
  <2>1. \E l \in {"idle", "flush", "fill"} : pc' = [pc EXCEPT !["snd"] = l]
    BY <1>8 DEF SndFill, Goto
  <2>2. pc["snd"] = "fill" /\ UNCHANGED <<st, told, why, up, gotPos>> /\ sendDone' \in BOOLEAN
    BY <1>8 DEF SndFill, user
  <2> QED
    BY <1>0, <1>1, <2>1, <2>2
<1> QED
  BY <1>2, <1>3, <1>4, <1>5, <1>6, <1>7, <1>8 DEF Sender

(* The receiver keeps the stages in order. *)
LEMMA ControlReceiver ==
  ASSUME ControlInv, Receiver
  PROVE  ControlInv'
<1>0. /\ gotPos \in BOOLEAN /\ sendDone \in BOOLEAN /\ up \in BOOLEAN
      /\ "rcv" \in Ends /\ "snd" # "rcv"
  BY TheEnds DEF ControlInv, ControlOK
<1>1. ASSUME pc["rcv"] \in {"type", "block", "chunk", "end", "complete"},
             NEW l \in {"idle", "type", "chunk", "end", "complete"},
             pc' = [pc EXCEPT !["rcv"] = l], UNCHANGED <<st, told, why, up, gotPos, sendDone>>
      PROVE  ControlInv'
  <2>1. st["rcv"] = "established" /\ l \in Places
    BY <1>1, Running DEF Places
  <2> QED
    BY <1>0, <1>1, <2>1, ControlGoto
<1>2. CASE RcvType
  <2>1. \E l \in {"complete", "chunk"} : pc' = [pc EXCEPT !["rcv"] = l]
    BY <1>2 DEF RcvType, Goto
  <2>2. pc["rcv"] = "type" /\ UNCHANGED <<st, told, why, up, gotPos, sendDone>>
    BY <1>2 DEF RcvType, user, snd
  <2> QED
    BY <1>1, <2>1, <2>2
<1>3. CASE RcvBlock
  BY <1>1, <1>3 DEF RcvBlock, Goto, user, snd, net
<1>4. CASE RcvChunk
  <2>1. \E l \in {"end", "type", "chunk"} : pc' = [pc EXCEPT !["rcv"] = l]
    BY <1>4 DEF RcvChunk, Goto
  <2>2. pc["rcv"] = "chunk" /\ UNCHANGED <<st, told, why, up, gotPos, sendDone>>
    BY <1>4 DEF RcvChunk, user, snd
  <2> QED
    BY <1>1, <2>1, <2>2
<1>5. CASE RcvNothing
  BY <1>1, <1>5 DEF RcvNothing, Goto, user, snd, net
<1>6. CASE RcvRefused
  BY <1>0, <1>6, ControlFail DEF RcvRefused, Codes
<1>7. CASE RcvEnd
  BY <1>1, <1>7 DEF RcvEnd, Goto, user, snd
<1>8. CASE RcvComplete
  <2>1. /\ st' = [st EXCEPT !["rcv"] = "none"] /\ told' = [told EXCEPT !["rcv"] = "complete"]
        /\ pc' = [pc EXCEPT !["rcv"] = "idle"] /\ UNCHANGED <<up, gotPos, sendDone, why>>
    BY <1>8 DEF RcvComplete, Tell, Goto, snd
  <2>2. ControlOK'
    BY <2>1, TheEnds DEF ControlInv, ControlOK, Places
  <2>3. StageInv'
    BY <2>1, TheEnds DEF ControlInv, ControlOK, StageInv, Handshaking
  <2> QED
    BY <2>2, <2>3 DEF ControlInv
<1> QED
  BY <1>2, <1>3, <1>4, <1>5, <1>6, <1>7, <1>8 DEF Receiver

(* Every fault is a Fail of a side that is still at it, or the break. *)
LEMMA FaultsFail ==
  ASSUME ControlInv
  PROVE  /\ SendFails \/ StreamFails => \E e \in Ends, code \in Codes : st[e] # "none" /\ Fail(e, code)
         /\ \A e \in Ends : OnTimeout(e) => \E code \in Codes : st[e] # "none" /\ Fail(e, code)
         /\ \A e \in Ends : OnClose(e) => \E code \in Codes : st[e] # "none" /\ Fail(e, code)
         /\ RcvRefused => \E code \in Codes : st["rcv"] # "none" /\ Fail("rcv", code)
<1>1. \A e \in Ends : pc[e] # "idle" => st[e] # "none"
  BY DEF ControlInv, StageInv
<1>2. {"FAILED_TO_SEND", "SET_FILE_POS", "READ_FILE", "GET_FILE_POS", "WRITE_FILE",
       "CONNECTION_CLOSED", "FAILED_TO_RECV"} \subseteq Codes
  BY DEF Codes
<1>3. SendFails => \E e \in Ends, code \in Codes : st[e] # "none" /\ Fail(e, code)
  BY <1>1, <1>2, TheEnds DEF SendFails
<1>4. StreamFails => \E e \in Ends, code \in Codes : st[e] # "none" /\ Fail(e, code)
  BY <1>1, <1>2, TheEnds DEF StreamFails
<1> QED
  BY <1>1, <1>2, <1>3, <1>4, TheEnds DEF OnTimeout, OnClose, RcvRefused

(* Every step keeps the stages in order. *)
LEMMA ControlNext ==
  ASSUME ControlInv, [Next]_vars
  PROVE  ControlInv'
<1>1. CASE Sender
  BY <1>1, ControlSender
<1>2. CASE Receiver
  BY <1>2, ControlReceiver
<1>3. CASE SendFails \/ StreamFails
  BY <1>3, FaultsFail, ControlFail
<1>4. CASE Break
  BY <1>4, ControlSame DEF Break, snd, user
<1>5. CASE \E e \in Ends : Handler(e)
  BY <1>5, ControlHandler
<1>6. CASE \E e \in Ends : Arrive(e)
  BY <1>6, ControlSame DEF Arrive, snd, user, ControlInv, ControlOK
<1>7. CASE \E e \in Ends : OnTimeout(e)
  BY <1>7, FaultsFail, ControlFail
<1>8. CASE UNCHANGED vars
  BY <1>8, ControlSame DEF vars, snd, net, user, ControlInv, ControlOK
<1> QED
  BY <1>1, <1>2, <1>3, <1>4, <1>5, <1>6, <1>7, <1>8 DEF Next

-----------------------------------------------------------------------------
(* The invariant. *)

DataOK ==
  /\ wire \in [Ends -> Seq(Messages)] /\ inbox \in [Ends -> Seq(Messages)]
  /\ \A e \in Ends : Room(e) >= 0
  /\ rpos \in 0 .. Len(Stream) /\ sendBuf \in Seq(Messages)
  /\ expect \in 0 .. MaxBlock /\ chunks \in Nat \X Nat /\ cnt \in Nat
  /\ written \in Seq(1 .. Len(Stream)) /\ base \in 0 .. Len(written)
  /\ progress \in [Ends -> Nat]

(* What is on the wires before the session is established. *)
NetInv ==
  /\ ~up => wire = [e \in Ends |-> <<>>]
  /\ Handshaking("rcv") => /\ Len(inbox["snd"]) + Len(wire["rcv"]) <= 1
                           /\ expect = 0 /\ cnt = 0 /\ progress["rcv"] = 0 /\ Len(written) = base
  /\ st["snd"] = "connected" =>
       /\ inbox["rcv"] = <<>> /\ wire["snd"] = <<>> /\ st["rcv"] # "established"
  /\ ~gotPos /\ Handshaking("rcv") => Len(inbox["rcv"]) + Len(wire["snd"]) <= 1

(* What is on its way to the sender. *)
Reports == ToSet(inbox["snd"]) \cup ToSet(wire["rcv"])

(* The position that the sender is told is where the receiver still is, and *)
(* the sender sends nothing before; completion is acknowledged when it was  *)
(* told.                                                                    *)
PosInv ==
  /\ gotPos => ~Handshaking("rcv")
  /\ \A m \in Reports : m.t = "pos" => ~Handshaking("rcv") /\ (~gotPos => m.v = Len(written))
  /\ \A m \in Reports : m.t = "completeAck" => told["rcv"] = "complete"
  /\ ~gotPos => /\ sendBuf = <<>> /\ rpos = 0 /\ expect = 0 /\ ~sendDone
                /\ pc["snd"] \notin {"flush", "fill"}
                /\ st["rcv"] = "established" => inbox["rcv"] = <<>> /\ wire["snd"] = <<>>
  /\ pc["snd"] = "fill" => sendBuf = <<>>

(* What RecvData_ has in its variables. *)
BlockInv ==
  /\ pc["rcv"] \in {"type", "complete"} => expect = 0
  /\ pc["rcv"] = "block" => expect > 0
  /\ pc["rcv"] = "complete" => Len(written) = Len(Stream)
  /\ pc["rcv"] = "chunk" =>
       /\ expect > 0 /\ chunks[1] > 0 /\ chunks[2] \in 0 .. BufSize - 1
       /\ expect = BufSize * (IF chunks[2] = 0 THEN chunks[1] ELSE chunks[1] - 1) + chunks[2]
  /\ cnt <= Len(written) - base

(* What is on its way leads from the receiver's position to the sender's. *)
Coming == inbox["rcv"] \o wire["snd"]

FlowInv ==
  gotPos /\ st["rcv"] = "established" =>
    \E y, z \in Nat :
      /\ Flow(Coming, Len(written), expect, y, z)
      /\ up => Flow(sendBuf, y, z, rpos, 0)

DataInv == DataOK /\ PrefixWritten /\ NetInv /\ PosInv /\ BlockInv /\ FlowInv

(* The bounds, as the steps below use them. *)
LEMMA Parameters ==
  /\ Len(Stream) \in Nat /\ MaxBlock \in Nat /\ MaxBlock > 0 /\ BufSize \in Nat /\ BufSize > 0
  /\ Cap \in Nat /\ Cap > 2
BY TransferAssumption

(* The receiver has no more than there is. *)
LEMMA WrittenBound ==
  ASSUME DataOK, PrefixWritten
  PROVE  Len(written) \in 0 .. Len(Stream)
<1>1. Len(written) \in Nat /\ Len(Stream) \in Nat
  BY Parameters, LenProperties DEF DataOK
<1>2. CASE Len(written) = 0
  BY <1>1, <1>2
<1>3. CASE Len(written) # 0
  <2> DEFINE n == Len(written)
  <2>1. n \in 1 .. n
    BY <1>1, <1>3
  <2>2. written[n] \in 1 .. Len(Stream)
    BY <2>1, ElementOfSeq DEF DataOK
  <2>3. written[n] = n
    <3> HIDE DEF n
    <3>1. written = [i \in 1 .. n |-> i]
      BY DEF PrefixWritten, n
    <3> QED
      BY <3>1, <2>1
  <2> QED
    BY <1>1, <2>2, <2>3
<1> QED
  BY <1>2, <1>3

(* The first element alone. *)
LEMMA FirstAlone ==
  ASSUME NEW S, NEW s \in Seq(S), s # <<>>
  PROVE  SubSeq(s, 1, 1) = <<Head(s)>>
<1>1. Len(s) \in Nat /\ Len(s) > 0 /\ Head(s) = s[1]
  OBVIOUS
<1>2. 1 \in 0 .. Len(s)
  BY <1>1
<1> DEFINE p == SubSeq(s, 1, 1)
<1>3. p \in Seq(S) /\ Len(p) = 1 /\ \A i \in 1 .. 1 : p[i] = s[i]
  BY <1>2, CutSeq
<1> HIDE DEF p
<1>4. p[1] = s[1]
  BY <1>3
<1>5. p = <<p[1]>>
  BY <1>3
<1> QED
  BY <1>1, <1>4, <1>5 DEF p

(* What is left when the first element is read. *)
LEMMA ReadFirst ==
  ASSUME NEW S, NEW s \in Seq(S), s # <<>>
  PROVE  /\ SubSeq(s, 1 + 1, Len(s)) = Tail(s) /\ Tail(s) \in Seq(S)
         /\ Len(s) \in Nat /\ Len(s) > 0 /\ Len(Tail(s)) = Len(s) - 1
         /\ Head(s) \in S /\ Head(s) \in ToSet(s) /\ ToSet(Tail(s)) \subseteq ToSet(s)
         /\ <<Head(s)>> \in Seq(S) /\ s = <<Head(s)>> \o Tail(s)
<1>1. /\ Tail(s) \in Seq(S) /\ Len(s) \in Nat /\ Len(s) > 0 /\ Len(Tail(s)) = Len(s) - 1
      /\ Head(s) \in S /\ Head(s) = s[1] /\ \A i \in 1 .. Len(s) - 1 : Tail(s)[i] = s[i + 1]
  OBVIOUS
<1>2. <<Head(s)>> \in Seq(S) /\ s = <<Head(s)>> \o Tail(s)
  OBVIOUS
<1>3. Head(s) \in ToSet(s) /\ ToSet(Tail(s)) \subseteq ToSet(s)
  <2> DEFINE t == Tail(s)
  <2> HIDE DEF t
  <2>1. t \in Seq(S) /\ Len(t) = Len(s) - 1 /\ \A i \in 1 .. Len(s) - 1 : t[i] = s[i + 1]
    BY <1>1 DEF t
  <2>2. ToSet(s) = {s[i] : i \in 1 .. Len(s)}
    BY Contents, Zenon
  <2>3. ToSet(t) = {t[i] : i \in 1 .. Len(t)}
    BY <2>1, Contents, Zenon
  <2>4. 1 \in 1 .. Len(s) /\ \A i \in 1 .. Len(t) : i + 1 \in 1 .. Len(s) /\ t[i] = s[i + 1]
    BY <1>1, <2>1
  <2> QED
    BY <1>1, <2>2, <2>3, <2>4 DEF t
<1>4. SubSeq(s, 1 + 1, Len(s)) = Tail(s)
  BY TailIsSubSeq
<1> QED
  BY <1>1, <1>2, <1>3, <1>4

-----------------------------------------------------------------------------
(* Steps that end a side's part, or only move a handler. *)

(* An end gives up: what it had is dropped. *)
LEMMA DataFail ==
  ASSUME ControlInv, DataInv, NEW e \in Ends, NEW code \in Codes, st[e] # "none", Fail(e, code)
  PROVE  DataInv'
<1>1. /\ st' = [st EXCEPT ![e] = "none"] /\ pc' = [pc EXCEPT ![e] = "idle"]
      /\ told' = [told EXCEPT ![e] = "error"] /\ up' = FALSE
      /\ wire' = [f \in Ends |-> <<>>]
      /\ UNCHANGED <<rpos, gotPos, sendBuf, sendDone, expect, chunks, cnt, written, base, progress>>
  BY DEF Fail, Goto, Tell, snd, rcv
<1>2. /\ st \in [Ends -> {"connected", "connect", "established", "none"}]
      /\ pc \in [Ends -> Places] /\ told \in [Ends -> {"nothing", "start", "complete", "error"}]
      /\ StageInv
  BY DEF ControlInv, ControlOK
<1>3. /\ wire \in [Ends -> Seq(Messages)] /\ inbox \in [Ends -> Seq(Messages)]
      /\ \A f \in Ends : Len(wire[f]) \in Nat /\ Len(inbox[f]) \in Nat
  BY LenProperties DEF DataInv, DataOK
<1>4. \A f \in Ends : /\ wire'[f] = <<>> /\ Len(wire'[f]) = 0 /\ ToSet(wire'[f]) = {}
  BY <1>1, EmptyContents
<1>5. /\ inbox' \in [Ends -> Seq(Messages)]
      /\ \A f \in Ends : inbox'[f] \in {inbox[f], <<>>}
  <2>1. inbox' = [inbox EXCEPT ![e] = <<>>] \/ inbox' = [f \in Ends |-> <<>>]
    BY DEF Fail
  <2>2. <<>> \in Seq(Messages)
    OBVIOUS
  <2> QED
    BY <2>1, <2>2, <1>3
<1>6. \A f \in Ends : Len(inbox'[f]) \in 0 .. Len(inbox[f]) /\ ToSet(inbox'[f]) \subseteq ToSet(inbox[f])
  <2>1. Len(<<>>) = 0
    OBVIOUS
  <2> QED
    BY <2>1, <1>3, <1>5, EmptyContents
<1>7. DataOK'
  <2>1. \A f \in Ends : Room(f)' >= 0
    <3> TAKE f \in Ends
    <3>1. Room(f) >= 0 /\ Peer(f) \in Ends
      BY TheEnds DEF DataInv, DataOK
    <3>2. Room(f)' = Cap - 0 - Len(inbox'[Peer(f)])
      BY <1>4 DEF Room
    <3> DEFINE a == Len(wire[f])  b == Len(inbox[Peer(f)])  c == Len(inbox'[Peer(f)])
    <3>3. a \in Nat /\ b \in Nat /\ c \in 0 .. b
      BY <3>1, <1>3, <1>6
    <3>4. Cap - a - b >= 0 /\ Room(f)' = Cap - 0 - c
      BY <3>1, <3>2 DEF Room
    <3> HIDE DEF a, b, c
    <3>5. Cap - 0 - c >= 0
      BY <3>3, <3>4, Parameters
    <3> QED
      BY <3>4, <3>5
  <2>2. wire' \in [Ends -> Seq(Messages)]
    BY <1>1
  <2> QED
    BY <2>1, <2>2, <1>1, <1>5 DEF DataInv, DataOK
<1>8. PrefixWritten'
  BY <1>1 DEF DataInv, PrefixWritten
<1>9. NetInv'
  BY <1>1, <1>2, <1>3, <1>4, <1>5, <1>6, TheEnds DEF DataInv, NetInv, Handshaking
<1>10. PosInv'
  <2>1. Reports' \subseteq Reports
    BY <1>4, <1>6, TheEnds DEF Reports
  <2>2. told["rcv"] = "complete" => st["rcv"] = "none"
    BY <1>2, TheEnds DEF StageInv, Handshaking
  <2>3. told["rcv"] = "complete" => told'["rcv"] = "complete"
    BY <2>2, <1>1, <1>2
  <2>4. ~Handshaking("rcv") => ~Handshaking("rcv")'
    BY <1>1, <1>2, TheEnds DEF Handshaking
  <2>5. pc'["snd"] \in {pc["snd"], "idle"}
    BY <1>1, <1>2, TheEnds
  <2>6. st'["rcv"] = "established" => st["rcv"] = "established"
    BY <1>1, <1>2, TheEnds
  <2> QED
    BY <2>1, <2>3, <2>4, <2>5, <2>6, <1>1, <1>4, <1>5, TheEnds DEF DataInv, PosInv
<1>11. BlockInv'
  <2>1. pc'["rcv"] \in {pc["rcv"], "idle"}
    BY <1>1, <1>2, TheEnds
  <2> QED
    BY <2>1, <1>1 DEF DataInv, BlockInv
<1>12. FlowInv'
  <2> SUFFICES ASSUME gotPos, st'["rcv"] = "established"
               PROVE  \E y, z \in Nat : Flow(Coming', Len(written), expect, y, z)
    BY <1>1 DEF FlowInv
  <2>1. st["rcv"] = "established"
    BY <1>1, <1>2, TheEnds
  <2>2. PICK y, z \in Nat : Flow(Coming, Len(written), expect, y, z)
    BY <2>1 DEF DataInv, FlowInv
  <2>3. Len(written) \in Nat /\ expect \in Nat
    BY Parameters, LenProperties DEF DataInv, DataOK
  <2>4. Coming' = inbox'["rcv"]
    BY <1>4, <1>5, TheEnds, ConcatEmptySeq DEF Coming
  <2>5. CASE inbox'["rcv"] = <<>>
    BY <2>3, <2>4, <2>5, FlowEmpty
  <2>6. CASE inbox'["rcv"] = inbox["rcv"]
    <3> DEFINE P == inbox["rcv"]  Q == wire["snd"]  w == Len(written)
    <3>1. P \in Seq(Messages) /\ Q \in Seq(Messages) /\ w \in Nat /\ Flow(P \o Q, w, expect, y, z)
      BY <2>2, <2>3, <1>3, TheEnds DEF Coming
    <3> HIDE DEF P, Q, w
    <3>2. \E b, k \in Nat : Flow(P, w, expect, b, k) /\ Flow(Q, b, k, y, z)
      BY <3>1, <2>3, FlowCut, ZenonT(60)
    <3> QED
      BY <3>2, <2>4, <2>6 DEF P, w
  <2> QED
    BY <2>5, <2>6, <1>5, TheEnds
<1> QED
  BY <1>7, <1>8, <1>9, <1>10, <1>11, <1>12 DEF DataInv

(* Only the place of a handler changes. *)
LEMMA DataGoto ==
  ASSUME ControlInv, DataInv, NEW e \in Ends, NEW l, pc' = [pc EXCEPT ![e] = l],
         UNCHANGED <<st, wire, inbox, up, rpos, gotPos, sendBuf, sendDone,
                     expect, chunks, written, base, progress, told>>,
         cnt' \in {0, cnt},
         l = "flush" => gotPos, l = "type" => expect = 0, l = "block" => expect > 0,
         l \notin {"fill", "complete", "chunk"}
  PROVE  DataInv'
<1>1. DataOK'
  BY DEF DataInv, DataOK, Room
<1>2. PrefixWritten'
  BY DEF DataInv, PrefixWritten
<1>3. NetInv'
  BY DEF DataInv, DataOK, NetInv, Handshaking
<1>4. pc'["snd"] \in {pc["snd"], l} /\ pc'["rcv"] \in {pc["rcv"], l}
  BY TheEnds DEF ControlInv, ControlOK
<1>5. PosInv'
  <2>1. Reports' = Reports
    BY DEF Reports
  <2> QED
    BY <1>4, <2>1 DEF DataInv, PosInv, Handshaking
<1>6. BlockInv'
  <2>1. cnt' <= Len(written) - base
    BY LenProperties DEF DataInv, DataOK, BlockInv
  <2> QED
    BY <1>4, <2>1 DEF DataInv, BlockInv
<1>7. FlowInv'
  BY DEF DataInv, FlowInv, Coming
<1> QED
  BY <1>1, <1>2, <1>3, <1>5, <1>6, <1>7 DEF DataInv

(* A read begins, and is given to the code for the stage. *)
LEMMA DataOnRead ==
  ASSUME ControlInv, DataInv, NEW e \in Ends, OnRead(e)
  PROVE  DataInv'
<1> DEFINE l == IF st[e] = "connected" THEN "validate"
                ELSE IF st[e] = "connect" THEN "ack"
                ELSE IF e = "snd" THEN "read"
                ELSE IF expect = 0 THEN "type" ELSE "block"
<1>1. pc' = [pc EXCEPT ![e] = l]
  BY DEF OnRead, Goto
<1>2. /\ UNCHANGED <<st, wire, inbox, up, rpos, gotPos, sendBuf, sendDone,
                     expect, chunks, written, base, progress, told>>
      /\ cnt' \in {0, cnt}
  BY DEF OnRead, net, snd, user
<1>3. /\ l = "type" => expect = 0
      /\ l = "block" => expect > 0
      /\ l \notin {"flush", "fill", "complete", "chunk"}
  BY Parameters DEF DataInv, DataOK
<1> HIDE DEF l
<1> QED
  BY <1>1, <1>2, <1>3, DataGoto

(* A read that finds too little leaves the data alone. *)
LEMMA DataWait ==
  ASSUME ControlInv, DataInv,
         (\E e \in Ends : HandshakeNothing(e)) \/ SndPosMissing \/ SndReadAll \/ RcvNothing
  PROVE  DataInv'
<1>1. ASSUME NEW e \in Ends, NEW l \in {"idle", "flush", "end"}, pc' = [pc EXCEPT ![e] = l],
             l = "flush" => gotPos, UNCHANGED <<st, net, snd, rcv, progress, user>>
      PROVE  DataInv'
  BY <1>1, DataGoto DEF net, snd, rcv, user
<1>2. CASE \E e \in Ends : HandshakeNothing(e)
  BY <1>1, <1>2 DEF HandshakeNothing, Goto
<1>3. CASE SndPosMissing
  BY <1>1, <1>3, TheEnds DEF SndPosMissing, Goto
<1>4. CASE SndReadAll
  BY <1>1, <1>4, TheEnds DEF SndReadAll, Goto
<1>5. CASE RcvNothing
  BY <1>1, <1>5, TheEnds DEF RcvNothing, Goto
<1> QED
  BY <1>2, <1>3, <1>4, <1>5

(* Break: what is on the wires is lost. *)
LEMMA DataBreak ==
  ASSUME ControlInv, DataInv, Break
  PROVE  DataInv'
<1>1. /\ up' = FALSE /\ wire' = [f \in Ends |-> <<>>]
      /\ UNCHANGED <<st, pc, inbox, rpos, gotPos, sendBuf, sendDone, expect, chunks, cnt,
                     written, base, progress, told>>
  BY DEF Break, snd, rcv, user
<1>2. /\ wire \in [Ends -> Seq(Messages)] /\ inbox \in [Ends -> Seq(Messages)]
      /\ \A f \in Ends : Len(wire[f]) \in Nat /\ Len(inbox[f]) \in Nat
  BY LenProperties DEF DataInv, DataOK
<1>3. \A f \in Ends : wire'[f] = <<>> /\ Len(wire'[f]) = 0 /\ ToSet(wire'[f]) = {}
  BY <1>1, EmptyContents
<1>4. DataOK'
  <2>1. \A f \in Ends : Room(f)' >= 0
    <3> TAKE f \in Ends
    <3> DEFINE a == Len(wire[f])  b == Len(inbox[Peer(f)])
    <3>1. Room(f) >= 0 /\ Peer(f) \in Ends
      BY TheEnds DEF DataInv, DataOK
    <3>2. a \in Nat /\ b \in Nat
      BY <3>1, <1>2
    <3>3. Cap - a - b >= 0 /\ Room(f)' = Cap - 0 - b
      BY <3>1, <1>1, <1>3 DEF Room
    <3> HIDE DEF a, b
    <3>4. Cap - 0 - b >= 0
      BY <3>2, <3>3, Parameters
    <3> QED
      BY <3>3, <3>4
  <2>2. wire' \in [Ends -> Seq(Messages)]
    BY <1>1
  <2> QED
    BY <2>1, <2>2, <1>1 DEF DataInv, DataOK
<1>5. PrefixWritten'
  BY <1>1 DEF DataInv, PrefixWritten
<1>6. NetInv'
  BY <1>1, <1>2, <1>3, TheEnds DEF DataInv, NetInv, Handshaking
<1>7. PosInv'
  <2>1. Reports' \subseteq Reports
    BY <1>1, <1>3, TheEnds DEF Reports
  <2> QED
    BY <2>1, <1>1, <1>3, TheEnds DEF DataInv, PosInv, Handshaking
<1>8. BlockInv'
  BY <1>1 DEF DataInv, BlockInv
<1>9. FlowInv'
  <2> SUFFICES ASSUME gotPos, st["rcv"] = "established"
               PROVE  \E y, z \in Nat : Flow(Coming', Len(written), expect, y, z)
    BY <1>1 DEF FlowInv
  <2> DEFINE P == inbox["rcv"]  Q == wire["snd"]  w == Len(written)
  <2>1. PICK y, z \in Nat : Flow(P \o Q, w, expect, y, z)
    BY DEF DataInv, FlowInv, Coming
  <2>2. w \in Nat /\ expect \in Nat
    BY Parameters, LenProperties DEF DataInv, DataOK
  <2>3. Coming' = P
    BY <1>1, <1>2, <1>3, TheEnds, ConcatEmptySeq DEF Coming
  <2>4. P \in Seq(Messages) /\ Q \in Seq(Messages)
    BY <1>2, TheEnds
  <2> HIDE DEF P, Q, w
  <2>5. \E b, k \in Nat : Flow(P, w, expect, b, k) /\ Flow(Q, b, k, y, z)
    BY <2>1, <2>2, <2>4, FlowCut, ZenonT(60)
  <2> QED
    BY <2>3, <2>5 DEF w
<1> QED
  BY <1>4, <1>5, <1>6, <1>7, <1>8, <1>9 DEF DataInv

(* Arrive: k elements of v move to the end of u. *)
Moved(S, k, u, v, x, y) ==
  /\ x \in Seq(S) /\ y \in Seq(S) /\ x \o y = u \o v
  /\ Len(u) \in Nat /\ Len(v) \in Nat /\ Len(x) = Len(u) + k /\ Len(y) = Len(v) - k
  /\ ToSet(x) \cup ToSet(y) = ToSet(u) \cup ToSet(v)

(* What arrives moves the cut between the wire and the inbox. *)
LEMMA Arrives ==
  ASSUME NEW S, NEW u \in Seq(S), NEW v \in Seq(S), NEW k \in 0 .. Len(v)
  PROVE  Moved(S, k, u, v, u \o SubSeq(v, 1, k), SubSeq(v, k + 1, Len(v)))
<1> DEFINE p == SubSeq(v, 1, k)  r == SubSeq(v, k + 1, Len(v))
<1>1. p \in Seq(S) /\ r \in Seq(S) /\ Len(p) = k /\ Len(r) = Len(v) - k /\ p \o r = v
  BY CutSeq
<1>2. ToSet(v) = ToSet(p) \cup ToSet(r)
  BY CutContents
<1> HIDE DEF p, r
<1>3. /\ u \o p \in Seq(S) /\ Len(u \o p) = Len(u) + Len(p) /\ Len(u) \in Nat
  BY <1>1, ConcatElements, Zenon
<1>4. ToSet(u \o p) = ToSet(u) \cup ToSet(p)
  <2>1. u \in Seq(S) /\ p \in Seq(S)
    BY <1>1
  <2>2. Joined(S, u \o p, u, p)
    BY <2>1, ConcatJoins, Zenon
  <2> QED
    BY <2>2 DEF Joined
<1>5. (u \o p) \o r = u \o v
  <2>1. u \in Seq(S) /\ p \in Seq(S) /\ r \in Seq(S)
    BY <1>1
  <2>2. (u \o p) \o r = u \o (p \o r)
    BY <2>1, ConcatAssociative, SMTT(60)
  <2> QED
    BY <2>2, <1>1
<1>6. Len(v) \in Nat
  BY LenProperties
<1>7. ToSet(u \o p) \cup ToSet(r) = ToSet(u) \cup ToSet(v)
  BY <1>2, <1>4
<1> QED
  BY <1>1, <1>3, <1>5, <1>6, <1>7 DEF p, r, Moved

(* Bytes arrive, or the end of a closed connection does. *)
LEMMA DataArrive ==
  ASSUME ControlInv, DataInv, NEW e \in Ends, Arrive(e)
  PROVE  DataInv'
<1> DEFINE d == Peer(e)
<1>0. d \in Ends /\ d # e /\ Peer(d) = e /\ (\A f \in Ends : f = d \/ f = e)
  BY TheEnds
<1>1. /\ wire \in [Ends -> Seq(Messages)] /\ inbox \in [Ends -> Seq(Messages)]
  BY DEF DataInv, DataOK
<1>2. PICK n \in 1 .. Len(wire[e]) :
        /\ wire' = [wire EXCEPT ![e] = SubSeq(wire[e], n + 1, Len(wire[e]))]
        /\ inbox' = [inbox EXCEPT ![d] = inbox[d] \o SubSeq(wire[e], 1, n)]
  BY DEF Arrive
<1>3. UNCHANGED <<st, pc, up, rpos, gotPos, sendBuf, sendDone, expect, chunks, cnt,
                  written, base, progress, told>>
  BY DEF Arrive, snd, rcv, user
<1>4. wire[e] \in Seq(Messages) /\ inbox[d] \in Seq(Messages) /\ n \in 0 .. Len(wire[e])
  BY <1>0, <1>1, LenProperties
<1> DEFINE a == inbox[d]  b == wire[e]  p == SubSeq(b, 1, n)  r == SubSeq(b, n + 1, Len(b))
<1>5. /\ a \o p \in Seq(Messages) /\ r \in Seq(Messages) /\ (a \o p) \o r = a \o b
      /\ Len(a) \in Nat /\ Len(b) \in Nat /\ Len(a \o p) = Len(a) + n /\ Len(r) = Len(b) - n
      /\ ToSet(a \o p) \cup ToSet(r) = ToSet(a) \cup ToSet(b)
  <2>1. b \in Seq(Messages) /\ a \in Seq(Messages) /\ n \in 0 .. Len(b)
    BY <1>4
  <2> HIDE DEF a, b
  <2>2. Moved(Messages, n, a, b, a \o SubSeq(b, 1, n), SubSeq(b, n + 1, Len(b)))
    BY <2>1, Arrives, Zenon
  <2> QED
    BY <2>2 DEF Moved
<1>6. /\ inbox'[d] = a \o p /\ wire'[e] = r
      /\ inbox'[e] = inbox[e] /\ wire'[d] = wire[d]
      /\ inbox' \in [Ends -> Seq(Messages)] /\ wire' \in [Ends -> Seq(Messages)]
  BY <1>0, <1>1, <1>2, <1>5
<1>7. inbox[d] = a /\ wire[e] = b
  OBVIOUS
<1>8. Len(inbox[e]) \in Nat /\ Len(wire[d]) \in Nat
  BY <1>0, <1>1, LenProperties
<1> HIDE DEF a, b, p, r, d
<1>9. /\ Len(inbox'[d]) + Len(wire'[e]) = Len(inbox[d]) + Len(wire[e])
      /\ Cap - Len(wire'[e]) - Len(inbox'[d]) = Cap - Len(wire[e]) - Len(inbox[d])
  <2> DEFINE i == Len(inbox'[d])  j == Len(wire'[e])  k == Len(inbox[d])  l == Len(wire[e])
  <2>1. i = k + n /\ j = l - n /\ k \in Nat /\ l \in Nat
    BY <1>5, <1>6, <1>7
  <2>2. n \in Int
    BY <1>2
  <2> HIDE DEF i, j, k, l
  <2>3. i + j = k + l /\ Cap - j - i = Cap - l - k
    BY <2>1, <2>2, Parameters
  <2> QED
    BY <2>3 DEF i, j, k, l
<1>10. DataOK'
  <2>1. \A f \in Ends : Room(f)' >= 0
    <3>1. Room(e)' = Cap - Len(wire'[e]) - Len(inbox'[d]) /\ Room(e) = Cap - Len(wire[e]) - Len(inbox[d])
      BY DEF Room, d
    <3>2. Room(d)' = Room(d)
      BY <1>0, <1>6 DEF Room
    <3>3. Room(e)' = Room(e)
      BY <3>1, <1>9
    <3> QED
      BY <3>2, <3>3, <1>0 DEF DataInv, DataOK
  <2> QED
    BY <2>1, <1>3, <1>6 DEF DataInv, DataOK
<1>11. PrefixWritten'
  BY <1>3 DEF DataInv, PrefixWritten
<1>12. NetInv'
  <2>1. up
    <3>1. wire[e] # <<>>
      BY DEF Arrive
    <3> QED
      BY <3>1 DEF DataInv, NetInv
  <2>2. CASE e = "snd"
    <3>1. d = "rcv"
      BY <2>2, TheEnds DEF d
    <3>2. st["snd"] # "connected"
      <4>1. wire["snd"] # <<>>
        BY <2>2 DEF Arrive
      <4> QED
        BY <4>1 DEF DataInv, NetInv
    <3> QED
      BY <2>1, <2>2, <3>1, <3>2, <1>3, <1>6, <1>9 DEF DataInv, NetInv, Handshaking
  <2>3. CASE e = "rcv"
    <3>1. d = "snd"
      BY <2>3, TheEnds DEF d
    <3> QED
      BY <2>1, <2>3, <3>1, <1>3, <1>6, <1>9 DEF DataInv, NetInv, Handshaking
  <2> QED
    BY <2>2, <2>3, TheEnds
<1>13. PosInv'
  <2>1. Reports' = Reports
    <3>1. CASE e = "snd"
      <4>1. d = "rcv"
        BY <3>1, TheEnds DEF d
      <4> QED
        BY <3>1, <4>1, <1>6 DEF Reports
    <3>2. CASE e = "rcv"
      <4>1. d = "snd"
        BY <3>2, TheEnds DEF d
      <4> QED
        BY <3>2, <4>1, <1>5, <1>6, <1>7 DEF Reports
    <3> QED
      BY <3>1, <3>2, TheEnds
  <2>2. ~gotPos /\ st["rcv"] = "established" => inbox'["rcv"] = <<>> /\ wire'["snd"] = <<>>
    <3> HAVE ~gotPos /\ st["rcv"] = "established"
    <3>1. inbox["rcv"] = <<>> /\ wire["snd"] = <<>>
      BY DEF DataInv, PosInv
    <3>2. e # "snd"
      BY <3>1 DEF Arrive
    <3>3. e = "rcv" /\ d = "snd"
      BY <3>2, TheEnds DEF d
    <3> QED
      BY <3>1, <3>3, <1>6
  <2> QED
    BY <2>1, <2>2, <1>3 DEF DataInv, PosInv, Handshaking
<1>14. BlockInv'
  BY <1>3 DEF DataInv, BlockInv
<1>15. FlowInv'
  <2>1. Coming' = Coming
    <3>1. CASE e = "snd"
      <4>1. d = "rcv"
        BY <3>1, TheEnds DEF d
      <4> QED
        BY <3>1, <4>1, <1>5, <1>6, <1>7 DEF Coming
    <3>2. CASE e = "rcv"
      <4>1. d = "snd"
        BY <3>2, TheEnds DEF d
      <4> QED
        BY <3>2, <4>1, <1>6 DEF Coming
    <3> QED
      BY <3>1, <3>2, TheEnds
  <2> QED
    BY <2>1, <1>3 DEF DataInv, FlowInv
<1> QED
  BY <1>10, <1>11, <1>12, <1>13, <1>14, <1>15 DEF DataInv

-----------------------------------------------------------------------------
(* What Read and Send do to the connection. *)

(* One message is taken from the inbox. *)
LEMMA ReadOne ==
  ASSUME DataOK, NEW e \in Ends, inbox[e] # <<>>, Read(e, 1)
  PROVE  /\ inbox' \in [Ends -> Seq(Messages)] /\ inbox'[Peer(e)] = inbox[Peer(e)]
         /\ inbox'[e] = Tail(inbox[e]) /\ Len(inbox'[e]) = Len(inbox[e]) - 1
         /\ Len(inbox[e]) \in Nat /\ Len(inbox[e]) > 0
         /\ Head(inbox[e]) \in Messages /\ Head(inbox[e]) \in ToSet(inbox[e])
         /\ ToSet(inbox'[e]) \subseteq ToSet(inbox[e])
         /\ <<Head(inbox[e])>> \in Seq(Messages) /\ inbox[e] = <<Head(inbox[e])>> \o inbox'[e]
<1> DEFINE s == inbox[e]
<1>1. s \in Seq(Messages) /\ inbox \in [Ends -> Seq(Messages)] /\ s # <<>>
  BY DEF DataOK
<1>2. inbox' = [inbox EXCEPT ![e] = SubSeq(s, 1 + 1, Len(s))]
  BY DEF Read
<1> HIDE DEF s
<1>3. /\ SubSeq(s, 1 + 1, Len(s)) = Tail(s) /\ Tail(s) \in Seq(Messages)
      /\ Len(s) \in Nat /\ Len(s) > 0 /\ Len(Tail(s)) = Len(s) - 1
      /\ Head(s) \in Messages /\ Head(s) \in ToSet(s) /\ ToSet(Tail(s)) \subseteq ToSet(s)
      /\ <<Head(s)>> \in Seq(Messages) /\ s = <<Head(s)>> \o Tail(s)
  BY <1>1, ReadFirst
<1>4. inbox'[e] = Tail(s) /\ inbox' \in [Ends -> Seq(Messages)] /\ inbox'[Peer(e)] = inbox[Peer(e)]
  BY <1>1, <1>2, <1>3, TheEnds
<1> QED
  BY <1>3, <1>4 DEF s

(* What is sent is appended to the wire while the connection is up. *)
LEMMA Sent ==
  ASSUME DataOK, up \in BOOLEAN, NEW e \in Ends, NEW s \in Seq(Messages), Send(e, s)
  PROVE  /\ wire' \in [Ends -> Seq(Messages)] /\ wire'[Peer(e)] = wire[Peer(e)]
         /\ wire'[e] = IF up THEN wire[e] \o s ELSE wire[e]
         /\ Len(wire'[e]) = Len(wire[e]) + (IF up THEN Len(s) ELSE 0)
         /\ Len(wire[e]) \in Nat /\ Len(s) \in Nat
         /\ ToSet(wire'[e]) \subseteq ToSet(wire[e]) \cup ToSet(s)
         /\ ~up => wire' = wire
<1> DEFINE w == wire[e]
<1>1. w \in Seq(Messages) /\ wire \in [Ends -> Seq(Messages)]
  BY DEF DataOK
<1>2. wire' = IF up THEN [wire EXCEPT ![e] = w \o s] ELSE wire
  BY DEF Send
<1> HIDE DEF w
<1>3. w \o s \in Seq(Messages) /\ Len(w \o s) = Len(w) + Len(s) /\ Len(w) \in Nat /\ Len(s) \in Nat
  BY <1>1, ConcatElements, ZenonT(60)
<1>4. ToSet(w \o s) = ToSet(w) \cup ToSet(s)
  <2>1. Joined(Messages, w \o s, w, s)
    BY <1>1, ConcatJoins, Zenon
  <2> QED
    BY <2>1 DEF Joined
<1>5. Peer(e) # e /\ Peer(e) \in Ends
  BY TheEnds
<1>6. CASE up
  <2>1. wire'[e] = w \o s /\ wire' \in [Ends -> Seq(Messages)] /\ wire'[Peer(e)] = wire[Peer(e)]
    BY <1>1, <1>2, <1>3, <1>5, <1>6
  <2> QED
    BY <2>1, <1>3, <1>4, <1>6 DEF w
<1>7. CASE ~up
  <2>1. wire' = wire
    BY <1>2, <1>7
  <2> QED
    BY <2>1, <1>1, <1>3, <1>7 DEF w
<1> QED
  BY <1>6, <1>7

(* A list of one message. *)
LEMMA OneMessage ==
  ASSUME NEW m \in Messages
  PROVE  <<m>> \in Seq(Messages) /\ Len(<<m>>) = 1 /\ ToSet(<<m>>) = {m}
<1>1. <<m>> \in Seq(Messages) /\ Len(<<m>>) = 1
  OBVIOUS
<1> QED
  BY <1>1, SingleContents, Zenon

-----------------------------------------------------------------------------
(* The handshake. *)

(* The receiver answers with the position of its stream. *)
LEMMA DataEstablishedRcv ==
  ASSUME ControlInv, DataInv, Handshaking("rcv"), NEW s \in Seq(Messages),
         Len(s) <= 1, \A m \in ToSet(s) : m.t \notin {"pos", "completeAck"},
         Established("rcv", s)
  PROVE  DataInv'
<1> DEFINE p == Msg("pos", Len(written))  t == Append(s, p)
<1>1. /\ st' = [st EXCEPT !["rcv"] = "established"] /\ inbox["rcv"] # <<>> /\ Read("rcv", 1)
      /\ told' = [told EXCEPT !["rcv"] = "start"] /\ pc' = [pc EXCEPT !["rcv"] = "idle"]
      /\ Send("rcv", t)
      /\ UNCHANGED <<up, rpos, gotPos, sendBuf, sendDone, expect, chunks, cnt, written, base, progress>>
  BY DEF Established, Tell, Goto, snd, rcv
<1>2. /\ st \in [Ends -> {"connected", "connect", "established", "none"}]
      /\ pc \in [Ends -> Places] /\ told \in [Ends -> {"nothing", "start", "complete", "error"}]
      /\ StageInv /\ up \in BOOLEAN /\ gotPos \in BOOLEAN
  BY DEF ControlInv, ControlOK
<1>3. DataOK /\ PrefixWritten /\ NetInv /\ PosInv /\ BlockInv
  BY DEF DataInv
<1>4. p \in Messages /\ p.t = "pos" /\ p.v = Len(written)
  BY <1>3, WrittenBound DEF Messages, Msg, Kinds
<1>5. t \in Seq(Messages) /\ Len(t) = Len(s) + 1 /\ Len(s) \in Nat /\ ToSet(t) = ToSet(s) \cup {p}
  <2> HIDE DEF p
  <2>1. Append(s, p) \in Seq(Messages) /\ ToSet(Append(s, p)) = ToSet(s) \cup {p}
    BY <1>4, AppendContents
  <2>2. Len(Append(s, p)) = Len(s) + 1 /\ Len(s) \in Nat
    BY <1>4, LenProperties
  <2> QED
    BY <2>1, <2>2
<1> HIDE DEF t, p
<1>6. /\ wire' \in [Ends -> Seq(Messages)] /\ wire'["snd"] = wire["snd"]
      /\ Len(wire'["rcv"]) = Len(wire["rcv"]) + (IF up THEN Len(t) ELSE 0)
      /\ Len(wire["rcv"]) \in Nat
      /\ ToSet(wire'["rcv"]) \subseteq ToSet(wire["rcv"]) \cup ToSet(t)
      /\ ~up => wire' = wire
  BY <1>1, <1>2, <1>3, <1>5, Sent, TheEnds
<1>7. /\ inbox' \in [Ends -> Seq(Messages)] /\ inbox'["snd"] = inbox["snd"]
      /\ Len(inbox'["rcv"]) = Len(inbox["rcv"]) - 1
      /\ Len(inbox["rcv"]) \in Nat /\ Len(inbox["rcv"]) > 0
  BY <1>1, <1>3, ReadOne, TheEnds
<1>8. /\ Len(inbox["snd"]) + Len(wire["rcv"]) <= 1 /\ expect = 0 /\ ~gotPos
      /\ Len(inbox["rcv"]) + Len(wire["snd"]) <= 1
  BY <1>2, <1>3 DEF NetInv, PosInv
<1>9. Len(inbox["snd"]) \in Nat /\ Len(wire["snd"]) \in Nat
  BY <1>3, LenProperties, TheEnds DEF DataOK
<1>10. st'["rcv"] = "established" /\ st'["snd"] = st["snd"] /\ pc'["rcv"] = "idle" /\ pc'["snd"] = pc["snd"]
  BY <1>1, <1>2, TheEnds
<1>11. DataOK'
  <2>1. Room("rcv")' >= 0
    <3> DEFINE a == Len(wire'["rcv"])  b == Len(inbox'["snd"])
    <3>1. Room("rcv")' = Cap - a - b
      BY TheEnds DEF Room
    <3> DEFINE c == Len(wire["rcv"])  k == Len(t)
    <3>2. /\ a = c + (IF up THEN k ELSE 0) /\ c \in Nat
          /\ k = Len(s) + 1 /\ Len(s) \in Nat /\ b \in Nat /\ b + c <= 1
      BY <1>5, <1>6, <1>7, <1>8, <1>9
    <3> HIDE DEF a, b, c, k
    <3>3. a + b <= 3 /\ a \in Int /\ b \in Int
      BY <3>2
    <3> QED
      BY <3>1, <3>3, Parameters
  <2>2. Room("snd")' >= 0
    <3> DEFINE a == Len(wire["snd"])  b == Len(inbox["rcv"])
    <3>1. Room("snd")' = Cap - a - (b - 1)
      BY <1>6, <1>7, TheEnds DEF Room
    <3>2. Cap - a - b >= 0 /\ a \in Nat /\ b \in Nat
      BY <1>3, <1>7, <1>9, TheEnds DEF DataOK, Room
    <3> HIDE DEF a, b
    <3> QED
      BY <3>1, <3>2, Parameters
  <2>3. \A f \in Ends : Room(f)' >= 0
    BY <2>1, <2>2, TheEnds
  <2> QED
    BY <2>3, <1>1, <1>3, <1>6, <1>7 DEF DataOK
<1>12. PrefixWritten'
  BY <1>1, <1>3 DEF PrefixWritten
<1>13. NetInv'
  BY <1>1, <1>3, <1>6, <1>10 DEF NetInv, Handshaking
<1>14. inbox'["rcv"] = <<>> /\ wire'["snd"] = <<>>
  <2>1. Len(inbox'["rcv"]) = 0 /\ Len(wire["snd"]) = 0
    <3> DEFINE a == Len(inbox'["rcv"])  b == Len(inbox["rcv"])  c == Len(wire["snd"])
    <3>1. a = b - 1 /\ b \in Nat /\ b > 0 /\ c \in Nat /\ b + c <= 1
      BY <1>7, <1>8, <1>9
    <3> HIDE DEF a, b, c
    <3>2. a = 0 /\ c = 0
      BY <3>1
    <3> QED
      BY <3>2 DEF a, c
  <2> QED
    BY <2>1, <1>3, <1>6, <1>7, TheEnds, EmptySeq DEF DataOK
<1>15. PosInv'
  <2>1. Reports' \subseteq Reports \cup ToSet(s) \cup {p}
    BY <1>5, <1>6, <1>7 DEF Reports
  <2>2. \A m \in Reports : m.t # "pos"
    BY <1>3 DEF PosInv
  <2>3. told["rcv"] # "complete"
    BY <1>2, TheEnds DEF StageInv
  <2>4. \A m \in Reports : m.t # "completeAck"
    BY <2>3, <1>3 DEF PosInv
  <2>5. \A m \in Reports' : m.t # "completeAck" /\ (m.t = "pos" => m.v = Len(written))
    BY <2>1, <2>2, <2>4, <1>4
  <2>6. ~Handshaking("rcv")'
    BY <1>10 DEF Handshaking
  <2> QED
    BY <2>5, <2>6, <1>1, <1>3, <1>8, <1>10, <1>14 DEF PosInv
<1>16. BlockInv'
  BY <1>1, <1>3, <1>10 DEF BlockInv
<1>17. FlowInv'
  BY <1>1, <1>8 DEF FlowInv
<1> QED
  BY <1>11, <1>12, <1>13, <1>15, <1>16, <1>17 DEF DataInv

(* The sender. *)
LEMMA DataEstablishedSnd ==
  ASSUME ControlInv, DataInv, NEW s \in Seq(Messages), Len(s) <= 1,
         (st["snd"] = "connect" /\ s = <<>>) \/ st["snd"] = "connected",
         Established("snd", s)
  PROVE  DataInv'
<1>1. /\ st' = [st EXCEPT !["snd"] = "established"] /\ inbox["snd"] # <<>> /\ Read("snd", 1)
      /\ told' = [told EXCEPT !["snd"] = "start"] /\ pc' = [pc EXCEPT !["snd"] = "read"]
      /\ Send("snd", s)
      /\ UNCHANGED <<up, rpos, gotPos, sendBuf, sendDone, expect, chunks, cnt, written, base, progress>>
  BY TheEnds DEF Established, Tell, Goto, snd, rcv
<1>2. /\ st \in [Ends -> {"connected", "connect", "established", "none"}]
      /\ pc \in [Ends -> Places] /\ told \in [Ends -> {"nothing", "start", "complete", "error"}]
      /\ StageInv /\ up \in BOOLEAN /\ gotPos \in BOOLEAN
  BY DEF ControlInv, ControlOK
<1>3. DataOK /\ PrefixWritten /\ NetInv /\ PosInv /\ BlockInv
  BY DEF DataInv
<1>4. /\ wire' \in [Ends -> Seq(Messages)] /\ wire'["rcv"] = wire["rcv"]
      /\ wire'["snd"] = IF up THEN wire["snd"] \o s ELSE wire["snd"]
      /\ Len(wire'["snd"]) = Len(wire["snd"]) + (IF up THEN Len(s) ELSE 0)
      /\ Len(wire["snd"]) \in Nat /\ Len(s) \in Nat
      /\ ~up => wire' = wire
  BY <1>1, <1>2, <1>3, Sent, TheEnds
<1>5. /\ inbox' \in [Ends -> Seq(Messages)] /\ inbox'["rcv"] = inbox["rcv"]
      /\ Len(inbox'["snd"]) = Len(inbox["snd"]) - 1
      /\ Len(inbox["snd"]) \in Nat /\ Len(inbox["snd"]) > 0
      /\ ToSet(inbox'["snd"]) \subseteq ToSet(inbox["snd"])
  BY <1>1, <1>3, ReadOne, TheEnds
<1>6. st["snd"] = "connect" => wire'["snd"] = wire["snd"]
  <2>1. wire["snd"] \in Seq(Messages)
    BY <1>3, TheEnds DEF DataOK
  <2> QED
    BY <2>1, <1>4, ConcatEmptySeq
<1>7. st["snd"] = "connected" =>
        /\ st["rcv"] # "established"
        /\ Len(inbox["rcv"]) = 0 /\ Len(wire["snd"]) = 0 /\ Len(wire'["snd"]) <= 1
  <2>1. Len(<<>>) = 0
    OBVIOUS
  <2> QED
    BY <2>1, <1>3, <1>4 DEF NetInv
<1>8. Len(inbox["rcv"]) \in Nat /\ Len(wire["rcv"]) \in Nat
  BY <1>3, LenProperties, TheEnds DEF DataOK
<1>9. st'["snd"] = "established" /\ st'["rcv"] = st["rcv"] /\ pc'["snd"] = "read" /\ pc'["rcv"] = pc["rcv"]
      /\ told'["rcv"] = told["rcv"]
  BY <1>1, <1>2, TheEnds
<1>10. DataOK'
  <2>1. Room("rcv")' >= 0
    <3> DEFINE a == Len(wire["rcv"])  b == Len(inbox["snd"])
    <3>1. Room("rcv")' = Cap - a - (b - 1)
      BY <1>4, <1>5, TheEnds DEF Room
    <3>2. Cap - a - b >= 0 /\ a \in Nat /\ b \in Nat
      BY <1>3, <1>5, <1>8, TheEnds DEF DataOK, Room
    <3> HIDE DEF a, b
    <3> QED
      BY <3>1, <3>2, Parameters
  <2>2. Room("snd")' >= 0
    <3> DEFINE a == Len(wire'["snd"])  b == Len(inbox["rcv"])
    <3>1. Room("snd")' = Cap - a - b
      BY <1>5, TheEnds DEF Room
    <3>2. CASE st["snd"] = "connect"
      BY <3>1, <3>2, <1>3, <1>6, TheEnds DEF DataOK, Room
    <3>3. CASE st["snd"] = "connected"
      <4>1. a <= 1 /\ b = 0 /\ a \in Int
        BY <3>3, <1>4, <1>7
      <4> HIDE DEF a, b
      <4> QED
        BY <3>1, <4>1, Parameters
    <3> QED
      BY <3>2, <3>3
  <2>3. \A f \in Ends : Room(f)' >= 0
    BY <2>1, <2>2, TheEnds
  <2> QED
    BY <2>3, <1>1, <1>3, <1>4, <1>5 DEF DataOK
<1>11. PrefixWritten'
  BY <1>1, <1>3 DEF PrefixWritten
<1>12. NetInv'
  <2>1. ~up' => wire' = [e \in Ends |-> <<>>]
    BY <1>1, <1>3, <1>4 DEF NetInv
  <2>2. Handshaking("rcv") => Len(inbox'["snd"]) + Len(wire'["rcv"]) <= 1
    <3> HAVE Handshaking("rcv")
    <3> DEFINE a == Len(inbox["snd"])  b == Len(inbox'["snd"])  c == Len(wire["rcv"])
    <3>1. a + c <= 1 /\ b = a - 1 /\ a \in Nat /\ c \in Nat /\ Len(wire'["rcv"]) = c
      BY <1>3, <1>4, <1>5, <1>8 DEF NetInv
    <3> HIDE DEF a, b, c
    <3>2. b + c <= 1
      BY <3>1
    <3> QED
      BY <3>1, <3>2 DEF b
  <2>3. ~gotPos /\ Handshaking("rcv") => Len(inbox'["rcv"]) + Len(wire'["snd"]) <= 1
    <3> HAVE ~gotPos /\ Handshaking("rcv")
    <3>1. Len(inbox["rcv"]) + Len(wire["snd"]) <= 1 /\ inbox'["rcv"] = inbox["rcv"]
      BY <1>3, <1>5 DEF NetInv
    <3>2. CASE st["snd"] = "connect"
      BY <3>1, <3>2, <1>6
    <3>3. CASE st["snd"] = "connected"
      <4> DEFINE a == Len(inbox'["rcv"])  b == Len(wire'["snd"])
      <4>1. a = 0 /\ b <= 1 /\ b \in Int
        BY <3>1, <3>3, <1>4, <1>7
      <4> HIDE DEF a, b
      <4>2. a + b <= 1
        BY <4>1
      <4> QED
        BY <4>2 DEF a, b
    <3> QED
      BY <3>2, <3>3
  <2> QED
    BY <2>1, <2>2, <2>3, <1>1, <1>3, <1>9 DEF NetInv, Handshaking
<1>13. PosInv'
  <2>1. Reports' \subseteq Reports
    BY <1>4, <1>5 DEF Reports
  <2>2. ~gotPos /\ st["rcv"] = "established" => inbox'["rcv"] = <<>> /\ wire'["snd"] = <<>>
    BY <1>3, <1>5, <1>6, <1>7 DEF PosInv
  <2> QED
    BY <2>1, <2>2, <1>1, <1>3, <1>9 DEF PosInv, Handshaking
<1>14. BlockInv'
  BY <1>1, <1>3, <1>9 DEF BlockInv
<1>15. FlowInv'
  <2> SUFFICES ASSUME st["rcv"] = "established" PROVE FlowInv'
    BY <1>9 DEF FlowInv
  <2>1. Coming' = Coming
    BY <1>5, <1>6, <1>7 DEF Coming
  <2> QED
    BY <2>1, <1>1, <1>9 DEF DataInv, FlowInv
<1> QED
  BY <1>10, <1>11, <1>12, <1>13, <1>14, <1>15 DEF DataInv

(* The validation string and its answer say nothing of the stream. *)
LEMMA DataHandshake ==
  ASSUME ControlInv, DataInv, NEW e \in Ends, Validate(e) \/ Acknowledged(e)
  PROVE  DataInv'
<1> DEFINE m == Msg("ack", 0)
<1>1. m \in Messages /\ m.t = "ack"
  BY Parameters DEF Messages, Msg, Kinds
<1>2. <<m>> \in Seq(Messages) /\ Len(<<m>>) = 1 /\ ToSet(<<m>>) = {m}
  BY <1>1, OneMessage
<1>3. <<>> \in Seq(Messages) /\ Len(<<>>) = 0 /\ ToSet(<<>>) = {}
  BY EmptyContents
<1> DEFINE t == <<m>>
<1>4. t \in Seq(Messages) /\ Len(t) <= 1 /\ \A x \in ToSet(t) : x.t \notin {"pos", "completeAck"}
  BY <1>1, <1>2
<1>5. /\ Validate(e) => st[e] = "connected" /\ Established(e, t)
      /\ Acknowledged(e) => st[e] = "connect" /\ Established(e, <<>>)
  BY DEF Validate, Acknowledged
<1> HIDE DEF t
<1>6. CASE e = "rcv"
  <2>1. Handshaking("rcv")
    BY <1>5, <1>6 DEF Handshaking
  <2> QED
    <3>1. ASSUME Validate(e) PROVE DataInv'
      BY <2>1, <3>1, <1>4, <1>5, <1>6, DataEstablishedRcv
    <3>2. ASSUME Acknowledged(e) PROVE DataInv'
      <4>1. Len(<<>>) <= 1 /\ (\A x \in ToSet(<<>>) : x.t \notin {"pos", "completeAck"})
        BY <1>3
      <4>2. Established("rcv", <<>>)
        BY <3>2, <1>5, <1>6
      <4> QED
        BY <2>1, <4>1, <4>2, <1>3, DataEstablishedRcv
    <3> QED
      BY <3>1, <3>2
<1>7. CASE e = "snd"
  <2>1. ASSUME Validate(e) PROVE DataInv'
    BY <2>1, <1>4, <1>5, <1>7, DataEstablishedSnd
  <2>2. ASSUME Acknowledged(e) PROVE DataInv'
    <3>1. Len(<<>>) <= 1 /\ Established("snd", <<>>) /\ st["snd"] = "connect"
      BY <2>2, <1>3, <1>5, <1>7
    <3> QED
      BY <3>1, <1>3, DataEstablishedSnd
  <2> QED
    BY <2>1, <2>2
<1> QED
  BY <1>6, <1>7, TheEnds

-----------------------------------------------------------------------------
(* The sender. *)

(* A report is read: nothing changes on the way to the receiver. *)
LEMMA DataHear ==
  ASSUME ControlInv, DataInv, gotPos, SndProgress \/ SndComplete
  PROVE  DataInv'
<1>1. /\ inbox["snd"] # <<>> /\ Read("snd", 1)
      /\ UNCHANGED <<wire, up, rpos, gotPos, sendBuf, sendDone, expect, chunks, cnt, written, base>>
  BY DEF SndProgress, SndComplete, snd, rcv
<1>2. /\ st \in [Ends -> {"connected", "connect", "established", "none"}]
      /\ pc \in [Ends -> Places] /\ told \in [Ends -> {"nothing", "start", "complete", "error"}]
      /\ pc["snd"] = "read" /\ st["snd"] = "established"
  BY Running DEF ControlInv, ControlOK, SndProgress, SndComplete
<1>3. DataOK /\ PrefixWritten /\ NetInv /\ PosInv /\ BlockInv
  BY DEF DataInv
<1>4. /\ inbox' \in [Ends -> Seq(Messages)] /\ inbox'["rcv"] = inbox["rcv"]
      /\ Len(inbox'["snd"]) = Len(inbox["snd"]) - 1
      /\ Len(inbox["snd"]) \in Nat /\ Len(inbox["snd"]) > 0
      /\ ToSet(inbox'["snd"]) \subseteq ToSet(inbox["snd"])
      /\ Head(inbox["snd"]) \in Messages
  BY <1>1, <1>3, ReadOne, TheEnds
<1>5. /\ st'["rcv"] = st["rcv"] /\ told'["rcv"] = told["rcv"] /\ pc'["rcv"] = pc["rcv"]
      /\ st'["snd"] # "connected" /\ pc'["snd"] \in {"read", "idle"}
  <2>1. CASE SndProgress
    BY <2>1, <1>2, TheEnds DEF SndProgress, user
  <2>2. CASE SndComplete
    BY <2>2, <1>2, TheEnds DEF SndComplete, Tell, Goto
  <2> QED
    BY <2>1, <2>2
<1>6. progress' \in [Ends -> Nat] /\ progress'["rcv"] = progress["rcv"]
  <2>1. CASE SndProgress
    <3> DEFINE v == Head(inbox["snd"]).v
    <3>1. v \in Nat
      BY <1>4, Parameters DEF Messages
    <3>2. progress' = [progress EXCEPT !["snd"] = progress["snd"] + v] /\ progress \in [Ends -> Nat]
      BY <2>1, <1>3 DEF SndProgress, DataOK
    <3> HIDE DEF v
    <3> QED
      BY <3>1, <3>2, TheEnds
  <2>2. CASE SndComplete
    BY <2>2, <1>3 DEF SndComplete, DataOK
  <2> QED
    BY <2>1, <2>2
<1>7. Len(wire["rcv"]) \in Nat
  BY <1>3, LenProperties, TheEnds DEF DataOK
<1>8. DataOK'
  <2>1. Room("rcv")' >= 0
    <3> DEFINE a == Len(wire["rcv"])  b == Len(inbox["snd"])
    <3>1. Room("rcv")' = Cap - a - (b - 1)
      BY <1>1, <1>4, TheEnds DEF Room
    <3>2. Cap - a - b >= 0 /\ a \in Nat /\ b \in Nat
      BY <1>3, <1>4, <1>7, TheEnds DEF DataOK, Room
    <3> HIDE DEF a, b
    <3> QED
      BY <3>1, <3>2, Parameters
  <2>2. Room("snd")' >= 0
    BY <1>1, <1>3, <1>4, TheEnds DEF DataOK, Room
  <2>3. \A f \in Ends : Room(f)' >= 0
    BY <2>1, <2>2, TheEnds
  <2> QED
    BY <2>3, <1>1, <1>3, <1>4, <1>6 DEF DataOK
<1>9. PrefixWritten'
  BY <1>1, <1>3 DEF PrefixWritten
<1>10. NetInv'
  <2>1. ~Handshaking("rcv")'
    BY <1>3, <1>5 DEF PosInv, Handshaking
  <2> QED
    BY <2>1, <1>1, <1>3, <1>5 DEF NetInv
<1>11. PosInv'
  <2>1. Reports' \subseteq Reports
    BY <1>1, <1>4 DEF Reports
  <2> QED
    BY <2>1, <1>1, <1>3, <1>5 DEF PosInv, Handshaking
<1>12. BlockInv'
  BY <1>1, <1>3, <1>5 DEF BlockInv
<1>13. FlowInv'
  BY <1>1, <1>4, <1>5 DEF DataInv, FlowInv, Coming
<1> QED
  BY <1>8, <1>9, <1>10, <1>11, <1>12, <1>13 DEF DataInv

(* The sender moves its stream to the position it was asked for. *)
LEMMA DataSndPos ==
  ASSUME ControlInv, DataInv, SndPos
  PROVE  DataInv'
<1> DEFINE m == Head(inbox["snd"])
<1>1. /\ pc["snd"] = "read" /\ ~gotPos /\ inbox["snd"] # <<>> /\ m.t = "pos" /\ Read("snd", 1)
      /\ rpos' = m.v /\ gotPos' = TRUE /\ pc' = [pc EXCEPT !["snd"] = "flush"]
      /\ UNCHANGED <<st, wire, up, sendBuf, sendDone, expect, chunks, cnt, written, base, progress, told>>
  BY DEF SndPos, Goto, rcv, user
<1>2. pc \in [Ends -> Places]
  BY DEF ControlInv, ControlOK
<1>3. DataOK /\ PrefixWritten /\ NetInv /\ PosInv /\ BlockInv
  BY DEF DataInv
<1>4. /\ inbox' \in [Ends -> Seq(Messages)] /\ inbox'["rcv"] = inbox["rcv"]
      /\ Len(inbox'["snd"]) = Len(inbox["snd"]) - 1
      /\ Len(inbox["snd"]) \in Nat /\ Len(inbox["snd"]) > 0
      /\ ToSet(inbox'["snd"]) \subseteq ToSet(inbox["snd"])
      /\ m \in Messages /\ m \in ToSet(inbox["snd"])
  BY <1>1, <1>3, ReadOne, TheEnds
<1> HIDE DEF m
<1>5. m \in Reports
  BY <1>4 DEF Reports
<1>6. ~Handshaking("rcv") /\ m.v = Len(written) /\ expect = 0 /\ sendBuf = <<>>
  BY <1>1, <1>3, <1>5 DEF PosInv
<1>7. pc'["snd"] = "flush" /\ pc'["rcv"] = pc["rcv"]
  BY <1>1, <1>2, TheEnds
<1>8. Len(wire["rcv"]) \in Nat /\ Len(written) \in 0 .. Len(Stream)
  BY <1>3, LenProperties, WrittenBound, TheEnds DEF DataOK
<1>9. DataOK'
  <2>1. Room("rcv")' >= 0
    <3> DEFINE a == Len(wire["rcv"])  b == Len(inbox["snd"])
    <3>1. Room("rcv")' = Cap - a - (b - 1)
      BY <1>1, <1>4, TheEnds DEF Room
    <3>2. Cap - a - b >= 0 /\ a \in Nat /\ b \in Nat
      BY <1>3, <1>4, <1>8, TheEnds DEF DataOK, Room
    <3> HIDE DEF a, b
    <3> QED
      BY <3>1, <3>2, Parameters
  <2>2. Room("snd")' >= 0
    BY <1>1, <1>3, <1>4, TheEnds DEF DataOK, Room
  <2>3. \A f \in Ends : Room(f)' >= 0
    BY <2>1, <2>2, TheEnds
  <2> QED
    BY <2>3, <1>1, <1>3, <1>4, <1>6, <1>8 DEF DataOK
<1>10. PrefixWritten'
  BY <1>1, <1>3 DEF PrefixWritten
<1>11. NetInv'
  BY <1>1, <1>3, <1>4, <1>6 DEF NetInv, Handshaking
<1>12. PosInv'
  <2>1. Reports' \subseteq Reports
    BY <1>1, <1>4 DEF Reports
  <2> QED
    BY <2>1, <1>1, <1>3, <1>6, <1>7 DEF PosInv, Handshaking
<1>13. BlockInv'
  BY <1>1, <1>3, <1>7 DEF BlockInv
<1>14. FlowInv'
  <2> SUFFICES ASSUME st["rcv"] = "established" PROVE FlowInv'
    BY <1>1 DEF FlowInv
  <2> DEFINE w == Len(written)
  <2>1. inbox["rcv"] = <<>> /\ wire["snd"] = <<>>
    BY <1>1, <1>3 DEF PosInv
  <2>2. Coming' = <<>>
    BY <2>1, <1>1, <1>4 DEF Coming
  <2>3. w \in Nat /\ 0 \in Nat
    BY <1>8
  <2> HIDE DEF w
  <2>4. Flow(<<>>, w, 0, w, 0)
    BY <2>3, FlowEmpty
  <2>5. w = Len(written) /\ w = rpos'
    BY <1>1, <1>6 DEF w
  <2> QED
    BY <2>2, <2>3, <2>4, <2>5, <1>1, <1>6 DEF FlowInv
<1> QED
  BY <1>9, <1>10, <1>11, <1>12, <1>13, <1>14 DEF DataInv

(* SendData_: as much of s as there is room for is sent, the rest is kept.  *)
(* What is on its way and what is kept lead, together, to position q.       *)
LEMMA DataSend ==
  ASSUME ControlInv, DataInv, gotPos, st["snd"] = "established",
         NEW s \in Seq(Messages), NEW n \in 0 .. Len(s),
         n <= Room("snd"), Send("snd", SubSeq(s, 1, n)), sendBuf' = SubSeq(s, n + 1, Len(s)),
         NEW q \in 0 .. Len(Stream), rpos' = q, NEW l, l \in {"idle", "fill"},
         pc' = [pc EXCEPT !["snd"] = l], l = "fill" => sendBuf' = <<>>,
         UNCHANGED <<st, inbox, up, gotPos, expect, chunks, cnt, written, base, progress, told>>,
         \A y, z \in Nat : up /\ Flow(sendBuf, y, z, rpos, 0) => Flow(s, y, z, q, 0)
  PROVE  DataInv'
<1> DEFINE u == SubSeq(s, 1, n)  v == SubSeq(s, n + 1, Len(s))
<1>1. u \in Seq(Messages) /\ v \in Seq(Messages) /\ Len(u) = n /\ u \o v = s
  BY CutSeq
<1> HIDE DEF u, v
<1>2. Send("snd", u) /\ sendBuf' = v
  BY DEF u, v
<1>3. pc \in [Ends -> Places] /\ up \in BOOLEAN
  BY DEF ControlInv, ControlOK
<1>4. DataOK /\ PrefixWritten /\ NetInv /\ PosInv /\ BlockInv
  BY DEF DataInv
<1>5. /\ wire' \in [Ends -> Seq(Messages)] /\ wire'["rcv"] = wire["rcv"]
      /\ wire'["snd"] = IF up THEN wire["snd"] \o u ELSE wire["snd"]
      /\ Len(wire'["snd"]) = Len(wire["snd"]) + (IF up THEN Len(u) ELSE 0)
      /\ Len(wire["snd"]) \in Nat
      /\ ~up => wire' = wire
  BY <1>1, <1>2, <1>3, <1>4, Sent, TheEnds
<1>6. pc'["snd"] = l /\ pc'["rcv"] = pc["rcv"]
  BY <1>3, TheEnds
<1>7. DataOK'
  <2>1. Room("snd")' >= 0
    <3> DEFINE a == Len(wire["snd"])  b == Len(inbox["rcv"])  c == Len(wire'["snd"])
    <3>1. Room("snd")' = Cap - c - b /\ Room("snd") = Cap - a - b
      BY TheEnds DEF Room
    <3>2. c = a + (IF up THEN n ELSE 0) /\ a \in Nat /\ b \in Nat
      BY <1>1, <1>4, <1>5, LenProperties, TheEnds DEF DataOK
    <3>3. n <= Room("snd") /\ Room("snd") >= 0 /\ n \in Int
      BY <1>4, LenProperties, TheEnds DEF DataOK
    <3> HIDE DEF a, b, c
    <3> QED
      BY <3>1, <3>2, <3>3, Parameters
  <2>2. Room("rcv")' >= 0
    BY <1>4, <1>5, TheEnds DEF DataOK, Room
  <2>3. \A f \in Ends : Room(f)' >= 0
    BY <2>1, <2>2, TheEnds
  <2> QED
    BY <2>3, <1>1, <1>2, <1>4, <1>5 DEF DataOK
<1>8. PrefixWritten'
  BY <1>4 DEF PrefixWritten
<1>9. NetInv'
  <2>1. ~Handshaking("rcv")' /\ st'["snd"] # "connected"
    BY <1>4 DEF PosInv, Handshaking
  <2> QED
    BY <2>1, <1>4, <1>5 DEF NetInv
<1>10. PosInv'
  <2>1. Reports' = Reports
    BY <1>5 DEF Reports
  <2> QED
    BY <2>1, <1>4, <1>6 DEF PosInv, Handshaking
<1>11. BlockInv'
  BY <1>4, <1>6 DEF BlockInv
<1>12. FlowInv'
  <2> SUFFICES ASSUME st["rcv"] = "established"
               PROVE  \E y, z \in Nat :
                        /\ Flow(Coming', Len(written), expect, y, z)
                        /\ up => Flow(v, y, z, q, 0)
    BY <1>2 DEF FlowInv
  <2>1. PICK y, z \in Nat : /\ Flow(Coming, Len(written), expect, y, z)
                            /\ up => Flow(sendBuf, y, z, rpos, 0)
    BY DEF DataInv, FlowInv
  <2>2. CASE ~up
    BY <2>1, <2>2, <1>5 DEF Coming
  <2>3. CASE up
    <3> DEFINE w == Len(written)  P == inbox["rcv"]  Q == wire["snd"]
    <3>1. Flow(s, y, z, q, 0) /\ Flow(P \o Q, w, expect, y, z)
      BY <2>1, <2>3 DEF Coming
    <3>2. P \in Seq(Messages) /\ Q \in Seq(Messages) /\ w \in Nat /\ expect \in Nat /\ q \in Nat
      BY <1>4, LenProperties, Parameters, TheEnds DEF DataOK
    <3>3. Coming' = P \o (Q \o u)
      BY <2>3, <1>5 DEF Coming
    <3> HIDE DEF w, P, Q
    <3>4. Flow(u \o v, y, z, q, 0) /\ 0 \in Nat
      BY <3>1, <1>1
    <3>5. \E b, k \in Nat : Flow(P \o (Q \o u), w, expect, b, k) /\ Flow(v, b, k, q, 0)
      BY <3>1, <3>2, <3>4, <1>1, FlowMove, ZenonT(60)
    <3> QED
      BY <3>3, <3>5 DEF w
  <2> QED
    BY <2>2, <2>3
<1> QED
  BY <1>7, <1>8, <1>9, <1>10, <1>11, <1>12 DEF DataInv

(* The smaller of two numbers. *)
LEMMA SmallerIs ==
  ASSUME NEW a \in Nat, NEW b \in Nat
  PROVE  Smaller(a, b) \in 0 .. a /\ Smaller(a, b) <= b
BY DEF Smaller

(* The room left in the connection is a number. *)
LEMMA RoomIs ==
  ASSUME DataOK, NEW e \in Ends
  PROVE  Room(e) \in Nat
<1> DEFINE a == Len(wire[e])  b == Len(inbox[Peer(e)])
<1>1. a \in Nat /\ b \in Nat
  BY TheEnds, LenProperties DEF DataOK
<1>2. Room(e) = Cap - a - b /\ Room(e) >= 0
  BY DEF Room, DataOK
<1> HIDE DEF a, b
<1> QED
  BY <1>1, <1>2, Parameters

(* The sender hands over what is left of the block. *)
LEMMA DataSndFlush ==
  ASSUME ControlInv, DataInv, SndFlush
  PROVE  DataInv'
<1> DEFINE s == sendBuf  n == Smaller(Len(s), Room("snd"))  v == SubSeq(s, n + 1, Len(s))
           l == IF v # <<>> \/ sendDone THEN "idle" ELSE "fill"
<1>1. /\ pc["snd"] = "flush" /\ Send("snd", SubSeq(s, 1, n)) /\ sendBuf' = v
      /\ pc' = [pc EXCEPT !["snd"] = l]
      /\ UNCHANGED <<st, inbox, up, rpos, gotPos, expect, chunks, cnt, written, base, progress, told>>
  BY DEF SndFlush, Goto, rcv, user
<1>2. DataOK /\ PosInv
  BY DEF DataInv
<1>3. s \in Seq(Messages) /\ Len(s) \in Nat /\ Room("snd") \in Nat /\ rpos \in 0 .. Len(Stream)
  BY <1>2, RoomIs, LenProperties, TheEnds DEF DataOK
<1>4. n \in 0 .. Len(s) /\ n <= Room("snd")
  <2> DEFINE x == Len(s)  y == Room("snd")
  <2>1. x \in Nat /\ y \in Nat /\ n = Smaller(x, y)
    BY <1>3
  <2> HIDE DEF x, y
  <2>2. Smaller(x, y) \in 0 .. x /\ Smaller(x, y) <= y
    BY <2>1, SmallerIs
  <2> QED
    BY <2>2 DEF x, y
<1>5. gotPos /\ st["snd"] = "established"
  BY <1>1, <1>2, Running DEF PosInv, ControlInv, ControlOK
<1>6. l \in {"idle", "fill"} /\ (l = "fill" => sendBuf' = <<>>)
  BY <1>1
<1>7. \A y, z \in Nat : up /\ Flow(sendBuf, y, z, rpos, 0) => Flow(s, y, z, rpos, 0)
  OBVIOUS
<1> HIDE DEF s, n, l
<1> QED
  BY <1>1, <1>3, <1>4, <1>5, <1>6, <1>7, DataSend

(* The sender reads the next block, or says that it has come to the end. *)
LEMMA DataSndFill ==
  ASSUME ControlInv, DataInv, SndFill
  PROVE  DataInv'
<1> DEFINE last == Smaller(rpos + MaxBlock, Len(Stream))
           s == IF last = rpos THEN <<Msg("complete", 0)>> ELSE Block(rpos, last)
           n == Smaller(Len(s), Room("snd"))  v == SubSeq(s, n + 1, Len(s))
           l == IF sendBuf' # <<>> \/ sendDone' THEN "idle" ELSE "fill"
<1>1. /\ pc["snd"] = "fill" /\ Send("snd", SubSeq(s, 1, n)) /\ sendBuf' = v /\ rpos' = last
      /\ pc' = [pc EXCEPT !["snd"] = l]
      /\ UNCHANGED <<st, inbox, up, gotPos, expect, chunks, cnt, written, base, progress, told>>
  BY DEF SndFill, Goto, rcv, user, Block
<1>2. DataOK /\ PosInv
  BY DEF DataInv
<1>3. rpos \in 0 .. Len(Stream) /\ rpos \in Nat
  BY <1>2, Parameters DEF DataOK
<1>4. last \in 0 .. Len(Stream) /\ last >= rpos /\ last - rpos <= MaxBlock /\ (last = rpos => rpos = Len(Stream))
  BY <1>3, Parameters DEF Smaller
<1> HIDE DEF last
<1>5. s \in Seq(Messages) /\ Flow(s, rpos, 0, last, 0)
  <2>1. CASE last = rpos
    BY <2>1, <1>4, FlowComplete, Parameters
  <2>2. CASE last # rpos
    <3>1. last \in Nat /\ rpos < last /\ last <= Len(Stream)
      BY <2>2, <1>3, <1>4, Parameters
    <3> QED
      BY <2>2, <3>1, <1>3, <1>4, FlowBlock, Parameters
  <2> QED
    BY <2>1, <2>2
<1> HIDE DEF s
<1>6. n \in 0 .. Len(s) /\ n <= Room("snd")
  <2> DEFINE x == Len(s)  y == Room("snd")
  <2>1. x \in Nat /\ y \in Nat /\ n = Smaller(x, y)
    BY <1>2, <1>5, RoomIs, LenProperties, TheEnds
  <2> HIDE DEF x, y
  <2>2. Smaller(x, y) \in 0 .. x /\ Smaller(x, y) <= y
    BY <2>1, SmallerIs
  <2> QED
    BY <2>2 DEF x, y
<1>7. gotPos /\ st["snd"] = "established" /\ sendBuf = <<>>
  BY <1>1, <1>2, Running DEF PosInv, ControlInv, ControlOK
<1>8. l \in {"idle", "fill"} /\ (l = "fill" => sendBuf' = <<>>)
  OBVIOUS
<1>9. \A y, z \in Nat : up /\ Flow(sendBuf, y, z, rpos, 0) => Flow(s, y, z, last, 0)
  <2> SUFFICES ASSUME NEW y \in Nat, NEW z \in Nat, Flow(<<>>, y, z, rpos, 0)
               PROVE  Flow(s, y, z, last, 0)
    BY <1>7
  <2>1. y = rpos /\ z = 0
    <3>1. Len(<<>>) = 0
      OBVIOUS
    <3> QED
      BY <3>1 DEF Flow
  <2> QED
    BY <2>1, <1>5
<1> HIDE DEF n, l
<1> QED
  BY <1>1, <1>4, <1>5, <1>6, <1>7, <1>8, <1>9, DataSend


-----------------------------------------------------------------------------
(* The receiver. *)

(* What is read first, and the rest with what is still on the wire. *)
LEMMA FlowTake ==
  ASSUME NEW S, NEW p \in Seq(S), NEW r \in Seq(S), NEW w \in Seq(S),
         NEW a \in Nat, NEW l \in Nat, NEW c \in Nat, NEW j \in Nat,
         Flow((p \o r) \o w, a, l, c, j)
  PROVE  \E b, k \in Nat : Flow(p, a, l, b, k) /\ Flow(r \o w, b, k, c, j)
<1>1. (p \o r) \o w = p \o (r \o w)
  BY ConcatAssociative, SMTT(60)
<1> DEFINE q == r \o w
<1>2. q \in Seq(S) /\ Flow(p \o q, a, l, c, j)
  BY <1>1, ConcatProperties
<1> HIDE DEF q
<1>3. \E b, k \in Nat : Flow(p, a, l, b, k) /\ Flow(q, b, k, c, j)
  BY <1>2, FlowCut, ZenonT(60)
<1> QED
  BY <1>3 DEF q

(* The same, where it is known to which position that leads. *)
LEMMA FlowFollow ==
  ASSUME NEW S, NEW p \in Seq(S), NEW r \in Seq(S), NEW q \in Seq(S),
         NEW w \in Nat, NEW e \in Nat, NEW y \in Nat, NEW z \in Nat, NEW u, NEW f,
         Flow((p \o r) \o q, w, e, y, z),
         \A b, k \in Nat : Flow(p, w, e, b, k) => b = u /\ k = f
  PROVE  Flow(r \o q, u, f, y, z)
<1>1. PICK b, k \in Nat : Flow(p, w, e, b, k) /\ Flow(r \o q, b, k, y, z)
  BY FlowTake, ZenonT(60)
<1> QED
  BY <1>1

(* RecvData_'s division of a block into reads of BufSize. *)
Divided(size, plan) ==
  /\ plan[1] > 0 /\ plan[2] \in 0 .. BufSize - 1
  /\ size = BufSize * (IF plan[2] = 0 THEN plan[1] ELSE plan[1] - 1) + plan[2]

(* A block is divided into whole receive buffers and a residue. *)
LEMMA PlanDivides ==
  ASSUME NEW size \in Nat \ {0}
  PROVE  Plan(size) \in Nat \X Nat /\ Divided(size, Plan(size))
<1> DEFINE q == size \div BufSize  r == size % BufSize
           p == (size - 1) \div BufSize  s == (size - 1) % BufSize
<1>1. BufSize \in Nat \ {0} /\ size - 1 \in Nat /\ size \in Nat
  BY Parameters
<1>2. q \in Nat /\ r \in 0 .. BufSize - 1 /\ size = BufSize * q + r
  BY <1>1, Division
<1>3. p \in Nat /\ s \in 0 .. BufSize - 1 /\ size - 1 = BufSize * p + s
  BY <1>1, Division
<1>4. Plan(size) = <<p + 1, r>>
  BY DEF Plan
<1> HIDE DEF p, q, r, s
<1>5. CASE r = 0
  <2>1. q # 0
    BY <1>1, <1>2, <1>5
  <2>2. /\ q - 1 \in Int /\ BufSize - 1 \in 0 .. BufSize - 1
        /\ BufSize * p + s = BufSize * (q - 1) + (BufSize - 1)
    BY <1>1, <1>2, <1>3, <1>5
  <2>3. p = q - 1
    BY <1>1, <1>3, <2>2, DivisionUnique
  <2>4. p + 1 = q
    BY <1>2, <2>3
  <2> QED
    BY <1>1, <1>2, <1>3, <1>4, <1>5, <2>4 DEF Divided
<1>6. CASE r # 0
  <2>1. /\ r - 1 \in 0 .. BufSize - 1
        /\ BufSize * p + s = BufSize * q + (r - 1)
    BY <1>1, <1>2, <1>3, <1>6
  <2>2. p = q
    BY <1>1, <1>2, <1>3, <2>1, DivisionUnique
  <2>3. p + 1 - 1 = q /\ p + 1 > 0
    BY <1>2, <2>2
  <2> QED
    BY <1>1, <1>2, <1>3, <1>4, <1>6, <2>3 DEF Divided
<1> QED
  BY <1>5, <1>6

(* A block that an earlier event left unfinished is divided again. *)
LEMMA DataRcvBlock ==
  ASSUME ControlInv, DataInv, RcvBlock
  PROVE  DataInv'
<1>1. /\ pc["rcv"] = "block" /\ chunks' = Plan(expect) /\ pc' = [pc EXCEPT !["rcv"] = "chunk"]
      /\ UNCHANGED <<st, wire, inbox, up, rpos, gotPos, sendBuf, sendDone,
                     expect, cnt, written, base, progress, told>>
  BY DEF RcvBlock, Goto, net, snd, user
<1>2. DataOK /\ PrefixWritten /\ NetInv /\ PosInv /\ BlockInv /\ FlowInv /\ pc \in [Ends -> Places]
  BY DEF DataInv, ControlInv, ControlOK
<1>3. pc'["rcv"] = "chunk" /\ pc'["snd"] = pc["snd"]
  BY <1>1, <1>2, TheEnds
<1>4. expect \in Nat \ {0} /\ expect \in 0 .. MaxBlock
  BY <1>1, <1>2, Parameters DEF BlockInv, DataOK
<1>5. Plan(expect) \in Nat \X Nat /\ Divided(expect, Plan(expect))
  BY <1>4, PlanDivides
<1>6. DataOK'
  BY <1>1, <1>2, <1>5 DEF DataOK, Room
<1>7. PrefixWritten' /\ NetInv'
  BY <1>1, <1>2 DEF PrefixWritten, NetInv, Handshaking
<1>8. PosInv'
  <2>1. Reports' = Reports
    BY <1>1 DEF Reports
  <2> QED
    BY <1>1, <1>2, <1>3, <2>1 DEF PosInv, Handshaking
<1>9. BlockInv'
  BY <1>1, <1>2, <1>3, <1>4, <1>5 DEF BlockInv, Divided
<1>10. FlowInv'
  BY <1>1, <1>2 DEF FlowInv, Coming
<1> QED
  BY <1>6, <1>7, <1>8, <1>9, <1>10 DEF DataInv

(* A step of RecvData_ that reads the first n units: the position of the    *)
(* receiver follows what was read.                                          *)
LEMMA DataReceive ==
  ASSUME ControlInv, DataInv, st["rcv"] = "established",
         NEW n \in 1 .. Len(inbox["rcv"]), Read("rcv", n),
         NEW l, l \notin {"flush", "fill"}, pc' = [pc EXCEPT !["rcv"] = l],
         UNCHANGED <<st, wire, up, rpos, gotPos, sendBuf, sendDone, base, progress, told>>,
         expect' \in 0 .. MaxBlock, chunks' \in Nat \X Nat, cnt' \in Nat,
         written' \in Seq(1 .. Len(Stream)), Len(written') >= Len(written), PrefixWritten',
         BlockInv',
         NEW p, p = SubSeq(inbox["rcv"], 1, n),
         \A b, k \in Nat : Flow(p, Len(written), expect, b, k)
                                   => b = Len(written') /\ k = expect'
  PROVE  DataInv'
<1> DEFINE s == inbox["rcv"]  r == SubSeq(s, n + 1, Len(s))
<1>1. DataOK /\ NetInv /\ PosInv /\ FlowInv /\ pc \in [Ends -> Places] /\ gotPos \in BOOLEAN
  BY DEF DataInv, ControlInv, ControlOK
<1>2. s \in Seq(Messages) /\ inbox \in [Ends -> Seq(Messages)] /\ wire["snd"] \in Seq(Messages)
      /\ Len(s) \in Nat /\ Len(wire["snd"]) \in Nat
  BY <1>1, LenProperties, TheEnds DEF DataOK
<1>3. /\ n \in 0 .. Len(s) /\ p \in Seq(Messages) /\ r \in Seq(Messages) /\ Len(r) = Len(s) - n
      /\ p \o r = s
  <2>1. n \in 0 .. Len(s)
    BY <1>2
  <2> HIDE DEF s
  <2>2. /\ SubSeq(s, 1, n) \in Seq(Messages) /\ SubSeq(s, n + 1, Len(s)) \in Seq(Messages)
        /\ Len(SubSeq(s, n + 1, Len(s))) = Len(s) - n
        /\ SubSeq(s, 1, n) \o SubSeq(s, n + 1, Len(s)) = s
    BY <1>2, <2>1, CutSeq, SMTT(60)
  <2> QED
    BY <2>1, <2>2 DEF s
<1>4. inbox' = [inbox EXCEPT !["rcv"] = r]
  BY DEF Read
<1>5. s # <<>>
  <2>1. Len(<<>>) = 0
    OBVIOUS
  <2> QED
    BY <2>1, <1>2
<1>6. gotPos /\ st["snd"] # "connected"
  BY <1>1, <1>5 DEF PosInv, NetInv
<1> HIDE DEF s, r
<1>7. /\ inbox'["rcv"] = r /\ inbox'["snd"] = inbox["snd"] /\ inbox' \in [Ends -> Seq(Messages)]
      /\ pc'["snd"] = pc["snd"]
  BY <1>1, <1>2, <1>3, <1>4, TheEnds
<1>8. DataOK'
  <2>1. Room("rcv")' >= 0
    BY <1>1, <1>7, TheEnds DEF DataOK, Room
  <2>2. Room("snd")' >= 0
    <3> DEFINE a == Len(wire["snd"])  b == Len(s)  c == Len(r)
    <3>1. Room("snd")' = Cap - a - c
      BY <1>7, TheEnds DEF Room
    <3>2. Cap - a - b >= 0 /\ a \in Nat /\ b \in Nat /\ c = b - n
      BY <1>1, <1>2, <1>3, TheEnds DEF DataOK, Room, s
    <3>3. n > 0 /\ n \in Int
      OBVIOUS
    <3> HIDE DEF a, b, c
    <3> QED
      BY <3>1, <3>2, <3>3, Parameters
  <2>3. \A f \in Ends : Room(f)' >= 0
    BY <2>1, <2>2, TheEnds
  <2>4. base' \in 0 .. Len(written')
    <3> DEFINE i == Len(written)  j == Len(written')
    <3>1. i \in Nat /\ j \in Nat /\ j >= i /\ base \in 0 .. i /\ base' = base
      BY <1>1, LenProperties DEF DataOK
    <3> HIDE DEF i, j
    <3>2. base \in 0 .. j
      BY <3>1
    <3> QED
      BY <3>1, <3>2 DEF j
  <2> QED
    BY <2>3, <2>4, <1>1, <1>7 DEF DataOK
<1>9. NetInv'
  BY <1>1, <1>6 DEF NetInv, Handshaking
<1>10. PosInv'
  <2>1. Reports' = Reports
    BY <1>7 DEF Reports
  <2> QED
    BY <1>1, <1>6, <1>7, <2>1 DEF PosInv, Handshaking
<1>11. FlowInv'
  <2> DEFINE w == Len(written)  u == Len(written')  q == wire["snd"]  e == expect  f == expect'
  <2>1. PICK y, z \in Nat : /\ Flow(s \o q, w, e, y, z)
                            /\ up => Flow(sendBuf, y, z, rpos, 0)
    BY <1>1, <1>6 DEF FlowInv, Coming, s
  <2>2. w \in Nat /\ e \in Nat /\ q \in Seq(Messages) /\ Coming' = r \o q
    BY <1>1, <1>2, <1>7, LenProperties, Parameters DEF DataOK, Coming
  <2>3. \A b, k \in Nat : Flow(p, w, e, b, k) => b = u /\ k = f
    OBVIOUS
  <2> HIDE DEF w, u, q, e, f
  <2>4. Flow((p \o r) \o q, w, e, y, z)
    BY <1>3, <2>1
  <2>5. p \in Seq(Messages) /\ r \in Seq(Messages)
    BY <1>3
  <2>6. Flow(Coming', u, f, y, z)
    BY <2>2, <2>3, <2>4, <2>5, FlowFollow
  <2> QED
    BY <2>1, <2>6 DEF FlowInv, u, f
<1> QED
  BY <1>8, <1>9, <1>10, <1>11 DEF DataInv

(* The type of the next block, or that there is none. *)
LEMMA DataRcvType ==
  ASSUME ControlInv, DataInv, RcvType
  PROVE  DataInv'
<1> DEFINE s == inbox["rcv"]  m == Head(s)  w == Len(written)
<1>1. /\ pc["rcv"] = "type" /\ s # <<>> /\ Read("rcv", 1)
      /\ UNCHANGED <<st, wire, up, rpos, gotPos, sendBuf, sendDone, base, progress, told,
                     cnt, written>>
      /\ \/ /\ m.t = "complete" /\ pc' = [pc EXCEPT !["rcv"] = "complete"]
            /\ expect' = expect /\ chunks' = chunks
         \/ /\ m.t = "data" /\ expect' = m.v /\ chunks' = Plan(m.v)
            /\ pc' = [pc EXCEPT !["rcv"] = "chunk"]
  BY DEF RcvType, Goto, snd, user
<1>2. /\ DataOK /\ PrefixWritten /\ PosInv /\ BlockInv /\ FlowInv /\ pc \in [Ends -> Places]
      /\ gotPos \in BOOLEAN
  BY DEF DataInv, ControlInv, ControlOK
<1>3. st["rcv"] = "established" /\ gotPos /\ expect = 0
  BY <1>1, <1>2, Running DEF PosInv, BlockInv
<1>4. s \in Seq(Messages) /\ Len(s) \in Nat /\ Len(s) > 0 /\ SubSeq(s, 1, 1) = <<m>>
      /\ <<m>> \in Seq(Messages) /\ Tail(s) \in Seq(Messages) /\ s = <<m>> \o Tail(s)
  <2>1. s \in Seq(Messages)
    BY <1>2, TheEnds DEF DataOK
  <2> HIDE DEF s
  <2>2. SubSeq(s, 1, 1) = <<Head(s)>> /\ Len(s) > 0 /\ Len(s) \in Nat
    BY <1>1, <2>1, FirstAlone, ReadFirst
  <2>3. <<Head(s)>> \in Seq(Messages) /\ Tail(s) \in Seq(Messages) /\ s = <<Head(s)>> \o Tail(s)
    BY <1>1, <2>1, ReadFirst
  <2> QED
    BY <2>1, <2>2, <2>3
<1>5. w \in Nat /\ expect \in Nat
  BY <1>2, LenProperties, Parameters DEF DataOK
<1> DEFINE q == wire["snd"]  t == Tail(s)
<1>6. PICK x, g \in Nat : Passes(m, w, 0, x, g)
  <2>1. q \in Seq(Messages) /\ t \in Seq(Messages) /\ 0 \in Nat
    BY <1>2, <1>4, TheEnds DEF DataOK
  <2>2. PICK y, z \in Nat : Flow((<<m>> \o t) \o q, w, 0, y, z)
    BY <1>2, <1>3, <1>4 DEF FlowInv, Coming
  <2> HIDE DEF q, t, w, m, s
  <2>3. \E b, k \in Nat : Flow(<<m>>, w, 0, b, k) /\ Flow(t \o q, b, k, y, z)
    BY <1>4, <1>5, <2>1, <2>2, FlowTake, ZenonT(60)
  <2> QED
    BY <1>5, <2>1, <2>3, FlowSingle
<1>7. PrefixWritten' /\ Len(written') >= Len(written)
  BY <1>1, <1>2, <1>5 DEF PrefixWritten
<1>8. \A l : pc' = [pc EXCEPT !["rcv"] = l] => pc'["rcv"] = l /\ pc'["snd"] = pc["snd"]
  BY <1>2, TheEnds
<1> HIDE DEF w, m, q, t
<1>9. CASE m.t = "complete"
  <2>1. pc' = [pc EXCEPT !["rcv"] = "complete"] /\ expect' = expect /\ chunks' = chunks
    BY <1>1, <1>9
  <2>2. w = Len(Stream)
    BY <1>6, <1>9 DEF Passes
  <2>3. BlockInv'
    BY <1>1, <1>2, <1>3, <1>8, <2>1, <2>2 DEF BlockInv, w
  <2>4. \A b, k \in Nat : Flow(<<m>>, w, 0, b, k) => b = w /\ k = 0
    <3> SUFFICES ASSUME NEW b \in Nat, NEW k \in Nat, Flow(<<m>>, w, 0, b, k)
                 PROVE  b = w /\ k = 0
      OBVIOUS
    <3>1. Passes(m, w, 0, b, k)
      BY <1>5, FlowSingle
    <3> QED
      BY <3>1, <1>9 DEF Passes
  <2> QED
    <3>1. expect' \in 0 .. MaxBlock /\ chunks' \in Nat \X Nat
      BY <2>1, <1>2 DEF DataOK
    <3>2. /\ 1 \in 1 .. Len(inbox["rcv"]) /\ <<m>> = SubSeq(inbox["rcv"], 1, 1)
          /\ "complete" \notin {"flush", "fill"}
      BY <1>4
    <3>3. /\ cnt' \in Nat /\ written' \in Seq(1 .. Len(Stream)) /\ Read("rcv", 1)
          /\ UNCHANGED <<st, wire, up, rpos, gotPos, sendBuf, sendDone, base, progress, told>>
      BY <1>1, <1>2 DEF DataOK
    <3>4. \A b, k \in Nat : Flow(<<m>>, Len(written), expect, b, k) => b = Len(written') /\ k = expect'
      BY <2>1, <2>4, <1>1, <1>3 DEF w
    <3> QED
      BY <3>1, <3>2, <3>3, <3>4, <2>1, <2>3, <1>3, <1>7, DataReceive
<1>10. CASE m.t = "data"
  <2>1. pc' = [pc EXCEPT !["rcv"] = "chunk"] /\ expect' = m.v /\ chunks' = Plan(m.v)
    BY <1>1, <1>10
  <2>2. m.v \in Nat \ {0} /\ m.v \in 0 .. MaxBlock
    BY <1>6, <1>10, Parameters DEF Passes
  <2>3. Plan(m.v) \in Nat \X Nat /\ Divided(m.v, Plan(m.v))
    BY <2>2, PlanDivides
  <2>4. BlockInv'
    <3>1. pc'["rcv"] = "chunk" /\ cnt' <= Len(written') - base'
      BY <1>1, <1>2, <1>8, <2>1 DEF BlockInv
    <3>2. expect' > 0 /\ Divided(expect', chunks')
      BY <2>1, <2>2, <2>3
    <3> QED
      BY <3>1, <3>2 DEF BlockInv, Divided
  <2>5. \A b, k \in Nat : Flow(<<m>>, w, 0, b, k) => b = w /\ k = m.v
    <3> SUFFICES ASSUME NEW b \in Nat, NEW k \in Nat, Flow(<<m>>, w, 0, b, k)
                 PROVE  b = w /\ k = m.v
      OBVIOUS
    <3>1. Passes(m, w, 0, b, k)
      BY <1>5, FlowSingle
    <3> QED
      BY <3>1, <1>10 DEF Passes
  <2> QED
    <3>1. expect' \in 0 .. MaxBlock /\ chunks' \in Nat \X Nat
      BY <2>1, <2>2, <2>3
    <3>2. /\ 1 \in 1 .. Len(inbox["rcv"]) /\ <<m>> = SubSeq(inbox["rcv"], 1, 1)
          /\ "chunk" \notin {"flush", "fill"}
      BY <1>4
    <3>3. /\ cnt' \in Nat /\ written' \in Seq(1 .. Len(Stream)) /\ Read("rcv", 1)
          /\ UNCHANGED <<st, wire, up, rpos, gotPos, sendBuf, sendDone, base, progress, told>>
      BY <1>1, <1>2 DEF DataOK
    <3>4. \A b, k \in Nat : Flow(<<m>>, Len(written), expect, b, k) => b = Len(written') /\ k = expect'
      BY <2>1, <2>5, <1>1, <1>3 DEF w
    <3> QED
      BY <3>1, <3>2, <3>3, <3>4, <2>1, <2>4, <1>3, <1>7, DataReceive
<1> QED
  BY <1>1, <1>9, <1>10

(* One read of a divided block asks for no more than is left of the block;  *)
(* the last one asks for all of it.                                         *)
LEMMA WantDivides ==
  ASSUME NEW e \in Nat, NEW plan \in Nat \X Nat, Divided(e, plan),
         NEW w, w = IF plan[1] > 1 THEN BufSize ELSE plan[2]
  PROVE  /\ w \in 0 .. e
         /\ plan[1] > 1 => e - w > 0 /\ Divided(e - w, [plan EXCEPT ![1] = @ - 1])
         /\ plan[1] = 1 /\ w > 0 => e - w = 0
         /\ [plan EXCEPT ![1] = @ - 1] \in Nat \X Nat
<1> DEFINE c == plan[1]  r == plan[2]  B == BufSize  k == IF r = 0 THEN c ELSE c - 1
           next == [plan EXCEPT ![1] = @ - 1]
<1>1. c \in Nat /\ c > 0 /\ r \in 0 .. B - 1 /\ e = B * k + r /\ B \in Nat /\ B > 0
  BY Parameters DEF Divided
<1>2. next \in Nat \X Nat /\ next[1] = c - 1 /\ next[2] = r
  BY <1>1
<1> HIDE DEF next
<1>3. Divided(e - w, next) <=>
        c - 1 > 0 /\ e - w = B * (IF r = 0 THEN c - 1 ELSE c - 2) + r
  BY <1>1, <1>2 DEF Divided
<1>4. w = IF c > 1 THEN B ELSE r
  OBVIOUS
<1> HIDE DEF c, r, B
<1>5. CASE c > 1
  <2>1. B * (IF r = 0 THEN c - 1 ELSE c - 2) = B * k - B
    BY <1>1
  <2>2. k - 1 \in Nat /\ B * (k - 1) = B * k - B /\ B * (k - 1) \in Nat
    BY <1>1, <1>5
  <2>3. r = 0 => B * (k - 1) > 0
    <3> HAVE r = 0
    <3>1. k - 1 > 0
      BY <1>1, <1>5
    <3> QED
      BY <1>1, <2>2, <3>1, ProductGrows
  <2> DEFINE x == B * k  v == B * (k - 1)
  <2>4. x \in Int /\ v \in Nat /\ v = x - B /\ e = x + r /\ (r = 0 => v > 0) /\ w = B
    BY <1>1, <1>4, <1>5, <2>2, <2>3
  <2>5. e - w = B * (IF r = 0 THEN c - 1 ELSE c - 2) + r
    <3> DEFINE g == B * (IF r = 0 THEN c - 1 ELSE c - 2)
    <3>1. g = x - B
      BY <2>1
    <3> HIDE DEF g, x, v
    <3> QED
      BY <3>1, <2>4, <1>1
  <2> HIDE DEF x, v
  <2>6. e - w > 0 /\ w \in 0 .. e
    BY <1>1, <2>4
  <2> QED
    BY <1>2, <1>3, <1>5, <2>5, <2>6 DEF c, next
<1>6. CASE c = 1
  <2>1. (r = 0 => k = 1 /\ B * k = B) /\ (r # 0 => k = 0 /\ B * k = 0)
    BY <1>1, <1>6
  <2> DEFINE x == B * k
  <2>2. e = x + r /\ w = r /\ (r = 0 => x = B) /\ (r # 0 => x = 0)
    BY <1>1, <1>4, <1>6, <2>1
  <2> HIDE DEF x, k
  <2>3. w \in 0 .. e /\ (w > 0 => e - w = 0)
    BY <1>1, <2>2
  <2> QED
    BY <1>2, <1>6, <2>3 DEF c, next
<1> QED
  BY <1>1, <1>5, <1>6

(* What was read from the receiver's inbox is the next part of the stream.  *)
LEMMA NextPart ==
  ASSUME ControlInv, DataInv, st["rcv"] = "established", NEW n \in 1 .. Len(inbox["rcv"]),
         n <= expect
  PROVE  LET p == SubSeq(inbox["rcv"], 1, n) IN
         /\ p \in Seq(Messages) /\ Len(p) = n
         /\ \A i \in 1 .. n : p[i].v = Len(written) + i
         /\ \A b, k \in Nat : Flow(p, Len(written), expect, b, k)
                                => b = Len(written) + n /\ k = expect - n
<1> DEFINE s == inbox["rcv"]  p == SubSeq(s, 1, n)  r == SubSeq(s, n + 1, Len(s))
           q == wire["snd"]  w == Len(written)
<1>1. DataOK /\ PosInv /\ FlowInv /\ gotPos \in BOOLEAN
  BY DEF DataInv, ControlInv, ControlOK
<1>2. s \in Seq(Messages) /\ q \in Seq(Messages) /\ w \in Nat /\ expect \in Nat /\ Len(s) \in Nat
  BY <1>1, LenProperties, Parameters, TheEnds DEF DataOK
<1>3. p \in Seq(Messages) /\ r \in Seq(Messages) /\ Len(p) = n /\ p \o r = s
  <2>1. n \in 0 .. Len(s)
    BY <1>2
  <2> HIDE DEF s
  <2> QED
    BY <1>2, <2>1, CutSeq, SMTT(60)
<1>4. gotPos
  <2>1. s # <<>>
    <3>1. Len(<<>>) = 0
      OBVIOUS
    <3> QED
      BY <3>1, <1>2
  <2> QED
    BY <2>1, <1>1 DEF PosInv
<1>5. PICK y, z \in Nat : Flow(s \o q, w, expect, y, z)
  BY <1>1, <1>4 DEF FlowInv, Coming
<1> HIDE DEF s, p, r, q, w
<1>6. \E b, k \in Nat : Flow(p, w, expect, b, k) /\ Flow(r \o q, b, k, y, z)
  <2>1. Flow((p \o r) \o q, w, expect, y, z)
    BY <1>3, <1>5
  <2>2. p \in Seq(Messages) /\ r \in Seq(Messages)
    BY <1>3
  <2> QED
    BY <1>2, <2>1, <2>2, FlowTake, ZenonT(60)
<1>7. ASSUME NEW b \in Nat, NEW k \in Nat, Flow(p, w, expect, b, k)
      PROVE  /\ b = w + n /\ k = expect - n
             /\ \A i \in 1 .. n : p[i].v = w + i
  <2>1. /\ b = w + Len(p) /\ k = expect - Len(p)
        /\ \A i \in 1 .. Len(p) : p[i].t = "byte" /\ p[i].v = w + i
    <3> DEFINE e == expect
    <3>1. p \in Seq(Messages) /\ w \in Nat /\ e \in Nat /\ Flow(p, w, e, b, k) /\ Len(p) <= e
      BY <1>2, <1>3, <1>7
    <3> HIDE DEF e
    <3>2. /\ b = w + Len(p) /\ k = e - Len(p)
          /\ \A i \in 1 .. Len(p) : p[i].t = "byte" /\ p[i].v = w + i
      BY <3>1, FlowBytes, SMTT(30)
    <3> QED
      BY <3>2 DEF e
  <2> QED
    BY <2>1, <1>3
<1>8. \A i \in 1 .. n : p[i].v = w + i
  BY <1>6, <1>7
<1> QED
  BY <1>3, <1>7, <1>8 DEF s, p, w

(* Writing the next n units of the stream keeps the receiver's stream a     *)
(* beginning of it.                                                         *)
LEMMA PrefixGrows ==
  ASSUME PrefixWritten, written \in Seq(1 .. Len(Stream)), NEW n \in Nat, NEW f,
         f \in [1 .. n -> 1 .. Len(Stream)], \A i \in 1 .. n : f[i] = Len(written) + i,
         written' = written \o f
  PROVE  /\ written' \in Seq(1 .. Len(Stream)) /\ Len(written') = Len(written) + n
         /\ PrefixWritten'
<1> DEFINE S == 1 .. Len(Stream)  w == Len(written)  v == written \o f
<1>1. f \in Seq(S) /\ Len(f) = n
  OBVIOUS
<1>2. written \in Seq(S) /\ w \in Nat
  OBVIOUS
<1>3. \A i \in 1 .. w : written[i] = i
  BY <1>2 DEF PrefixWritten
<1> HIDE DEF S
<1>4. /\ v \in Seq(S) /\ Len(v) = w + n
      /\ \A i \in 1 .. w : v[i] = written[i]
      /\ \A i \in 1 .. n : v[w + i] = f[i]
  BY <1>1, <1>2, ConcatElements
<1>5. written' = v
  OBVIOUS
<1> HIDE DEF v, w
<1>6. \A i \in 1 .. w + n : v[i] = i
  <2> TAKE i \in 1 .. w + n
  <2>1. CASE i <= w
    <3>1. i \in 1 .. w
      BY <1>2, <2>1
    <3>2. v[i] = written[i] /\ written[i] = i
      BY <1>3, <1>4, <3>1, Zenon
    <3> QED
      BY <3>2
  <2>2. CASE i > w
    <3>1. i - w \in 1 .. n /\ w + (i - w) = i
      BY <1>2, <2>2
    <3>2. v[w + (i - w)] = f[i - w] /\ f[i - w] = w + (i - w)
      BY <1>4, <3>1 DEF w
    <3> QED
      BY <3>1, <3>2
  <2> QED
    BY <1>2, <2>1, <2>2
<1>7. v = [i \in 1 .. Len(v) |-> i]
  <2>1. DOMAIN v = 1 .. Len(v) /\ v = [i \in DOMAIN v |-> v[i]]
    BY <1>4
  <2> QED
    BY <2>1, <1>4, <1>6
<1> QED
  BY <1>4, <1>5, <1>7 DEF PrefixWritten, w, S

(* What a read of a block reads, and what is written of it. *)
LEMMA ChunkReads ==
  ASSUME ControlInv, DataInv, RcvChunk
  PROVE  LET s == inbox["rcv"]  n == Smaller(Want, Len(s))  p == SubSeq(s, 1, n)
             w == Len(written) IN
         /\ n \in 1 .. Len(s) /\ n \in Nat /\ n <= Want /\ n <= expect /\ Want \in 0 .. expect
         /\ chunks \in Nat \X Nat /\ Divided(expect, chunks) /\ chunks' \in Nat \X Nat
         /\ chunks[1] > 1 => expect - Want > 0 /\ Divided(expect - Want, chunks')
         /\ chunks[1] = 1 /\ Want > 0 => expect - Want = 0
         /\ p \in Seq(Messages) /\ Len(p) = n
         /\ \A i \in 1 .. n : p[i].v = w + i
         /\ \A b, k \in Nat : Flow(p, w, expect, b, k) => b = w + n /\ k = expect - n
         /\ w \in Nat /\ base \in 0 .. w
         /\ written' \in Seq(1 .. Len(Stream)) /\ Len(written') = w + n /\ PrefixWritten'
<1> DEFINE s == inbox["rcv"]  n == Smaller(Want, Len(s))  p == SubSeq(s, 1, n)
           w == Len(written)  f == [i \in 1 .. n |-> p[i].v]
<1>1. /\ pc["rcv"] = "chunk" /\ Want > 0 /\ n > 0 /\ Read("rcv", n)
      /\ expect' = expect - n /\ chunks' = [chunks EXCEPT ![1] = @ - 1]
      /\ written' = written \o f
  BY DEF RcvChunk
<1>2. /\ DataOK /\ PrefixWritten /\ BlockInv
  BY DEF DataInv, ControlInv, ControlOK
<1>3. st["rcv"] = "established"
  BY <1>1, Running
<1>4. /\ s \in Seq(Messages) /\ w \in Nat /\ Len(s) \in Nat /\ cnt \in Nat
      /\ expect \in Nat /\ expect \in 0 .. MaxBlock /\ chunks \in Nat \X Nat
      /\ Divided(expect, chunks) /\ base \in 0 .. w
  <2>1. /\ s \in Seq(Messages) /\ w \in Nat /\ cnt \in Nat /\ base \in 0 .. w
        /\ expect \in Nat /\ expect \in 0 .. MaxBlock /\ chunks \in Nat \X Nat
    BY <1>2, LenProperties, Parameters, TheEnds DEF DataOK
  <2>2. Divided(expect, chunks)
    BY <1>1, <1>2 DEF BlockInv, Divided
  <2>3. Len(s) \in Nat
    BY <2>1, LenProperties
  <2> QED
    BY <2>1, <2>2, <2>3
<1>5. /\ Want \in 0 .. expect /\ chunks' \in Nat \X Nat
      /\ chunks[1] > 1 => expect - Want > 0 /\ Divided(expect - Want, chunks')
      /\ chunks[1] = 1 /\ Want > 0 => expect - Want = 0
  <2> DEFINE a == Want
  <2>1. a = IF chunks[1] > 1 THEN BufSize ELSE chunks[2]
    BY DEF Want
  <2> HIDE DEF a
  <2>2. /\ a \in 0 .. expect
        /\ chunks[1] > 1 => expect - a > 0 /\ Divided(expect - a, [chunks EXCEPT ![1] = @ - 1])
        /\ chunks[1] = 1 /\ a > 0 => expect - a = 0
        /\ [chunks EXCEPT ![1] = @ - 1] \in Nat \X Nat
    BY <1>4, <2>1, WantDivides
  <2> QED
    BY <1>1, <2>2 DEF a
<1>6. n \in 1 .. Len(s) /\ n <= Want /\ n <= expect /\ n \in Nat
  <2> DEFINE a == Want  b == Len(s)
  <2>1. a \in Nat /\ b \in Nat /\ n = Smaller(a, b) /\ n > 0 /\ a <= expect
    BY <1>1, <1>4, <1>5
  <2> HIDE DEF a, b, n
  <2>2. n \in 0 .. a /\ n <= b
    BY <2>1, SmallerIs
  <2> QED
    BY <2>1, <2>2, <1>4 DEF a, b
<1> HIDE DEF n
<1>7. /\ p \in Seq(Messages) /\ Len(p) = n
      /\ \A i \in 1 .. n : p[i].v = w + i
      /\ \A b, k \in Nat : Flow(p, w, expect, b, k) => b = w + n /\ k = expect - n
  BY <1>3, <1>6, NextPart
<1> HIDE DEF p
<1>8. f \in [1 .. n -> 1 .. Len(Stream)] /\ \A i \in 1 .. n : f[i] = w + i
  <2>1. \A i \in 1 .. n : p[i] \in Messages /\ p[i].v = w + i
    BY <1>7, ElementOfSeq
  <2>2. \A i \in 1 .. n : p[i].v \in 0 .. Len(Stream)
    BY <2>1 DEF Messages
  <2>3. \A i \in 1 .. n : p[i].v \in 1 .. Len(Stream)
    BY <1>4, <2>1, <2>2, Parameters
  <2> QED
    BY <2>1, <2>3
<1> HIDE DEF f, w
<1>9. /\ written' \in Seq(1 .. Len(Stream)) /\ Len(written') = w + n /\ PrefixWritten'
  <2>1. /\ written \in Seq(1 .. Len(Stream)) /\ written' = written \o f
        /\ \A i \in 1 .. n : f[i] = Len(written) + i
    BY <1>1, <1>2, <1>8 DEF DataOK, w
  <2> QED
    BY <1>2, <1>6, <1>8, <2>1, PrefixGrows DEF w
<1> QED
  BY <1>4, <1>5, <1>6, <1>7, <1>9 DEF s, n, p, w

(* The receiver writes one part of the block. *)
LEMMA DataRcvChunk ==
  ASSUME ControlInv, DataInv, RcvChunk
  PROVE  DataInv'
<1> DEFINE s == inbox["rcv"]  n == Smaller(Want, Len(s))  p == SubSeq(s, 1, n)  w == Len(written)
           l == IF n < Want THEN "end" ELSE IF chunks[1] > 1 THEN "chunk" ELSE "type"
<1>1. /\ pc["rcv"] = "chunk" /\ Want > 0 /\ n > 0 /\ Read("rcv", n)
      /\ expect' = expect - n /\ chunks' = [chunks EXCEPT ![1] = @ - 1]
      /\ cnt' = cnt + Content(p)
      /\ pc' = [pc EXCEPT !["rcv"] = l]
      /\ UNCHANGED <<st, wire, up, rpos, gotPos, sendBuf, sendDone, base, progress, told>>
  BY DEF RcvChunk, Goto, snd, user
<1>2. /\ DataOK /\ PrefixWritten /\ BlockInv /\ pc \in [Ends -> Places]
  BY DEF DataInv, ControlInv, ControlOK
<1>3. st["rcv"] = "established"
  BY <1>1, Running
<1>4. /\ n \in 1 .. Len(s) /\ n \in Nat /\ n <= Want /\ n <= expect /\ Want \in 0 .. expect
      /\ chunks \in Nat \X Nat /\ Divided(expect, chunks) /\ chunks' \in Nat \X Nat
      /\ chunks[1] > 1 => expect - Want > 0 /\ Divided(expect - Want, chunks')
      /\ chunks[1] = 1 /\ Want > 0 => expect - Want = 0
  BY ChunkReads
<1>5. /\ p \in Seq(Messages) /\ Len(p) = n
      /\ \A i \in 1 .. n : p[i].v = w + i
      /\ \A b, k \in Nat : Flow(p, w, expect, b, k) => b = w + n /\ k = expect - n
      /\ w \in Nat /\ base \in 0 .. w
      /\ written' \in Seq(1 .. Len(Stream)) /\ Len(written') = w + n /\ PrefixWritten'
  BY ChunkReads
<1>6. cnt \in Nat /\ expect \in Nat /\ expect \in 0 .. MaxBlock
  BY <1>2, Parameters DEF DataOK
<1> HIDE DEF n, p, l, w
<1>10. Content(p) \in 0 .. n
  BY <1>4, <1>5, PartContent
<1>11. cnt' \in Nat /\ cnt' <= Len(written') - base'
  <2>1. cnt <= w - base
    BY <1>2 DEF BlockInv, w
  <2>2. base' = base /\ base \in Nat
    BY <1>1, <1>5
  <2> QED
    <3> DEFINE c == Content(p)  x == Len(written')
    <3>1. /\ cnt' = cnt + c /\ c \in 0 .. n /\ n \in Nat /\ w \in Nat /\ x = w + n /\ cnt \in Nat
      BY <1>1, <1>4, <1>5, <1>6, <1>10
    <3> HIDE DEF c, x
    <3>2. cnt' \in Nat /\ cnt' <= x - base
      BY <2>1, <2>2, <3>1
    <3> QED
      BY <2>2, <3>2 DEF x
<1>12. expect' \in 0 .. MaxBlock /\ expect' = expect - n
  BY <1>1, <1>4, <1>6, Parameters
<1>13. pc'["rcv"] = l /\ l \in {"end", "chunk", "type"}
  BY <1>1, <1>2, TheEnds DEF l
<1>14. BlockInv'
  <2>1. l = "type" => expect' = 0
    <3> HAVE l = "type"
    <3>1. ~(n < Want) /\ ~(chunks[1] > 1)
      BY DEF l
    <3>2. chunks[1] = 1 /\ n = Want
      BY <3>1, <1>4 DEF Divided
    <3> QED
      BY <3>2, <1>1, <1>4
  <2>2. l = "chunk" => expect' > 0 /\ Divided(expect', chunks')
    <3> HAVE l = "chunk"
    <3>1. ~(n < Want) /\ chunks[1] > 1
      BY DEF l
    <3>2. n = Want
      BY <3>1, <1>4
    <3> QED
      BY <3>1, <3>2, <1>1, <1>4
  <2> QED
    BY <2>1, <2>2, <1>11, <1>13 DEF BlockInv, Divided
<1>15. Len(written') >= Len(written)
  BY <1>4, <1>5 DEF w
<1>16. \A b, k \in Nat : Flow(p, Len(written), expect, b, k) => b = Len(written') /\ k = expect'
  BY <1>5, <1>12 DEF w
<1>17. p = SubSeq(inbox["rcv"], 1, n) /\ n \in 1 .. Len(inbox["rcv"]) /\ l \notin {"flush", "fill"}
  BY <1>4, <1>13 DEF p
<1> HIDE DEF s
<1> QED
  BY <1>1, <1>3, <1>4, <1>5, <1>11, <1>12, <1>14, <1>15, <1>16, <1>17, DataReceive

(* The receiver reports: nothing changes on the way to it. *)
LEMMA ReportIs ==
  ASSUME DataOK, PrefixWritten, BlockInv
  PROVE  /\ Report \in Seq(Messages) /\ Len(Report) \in Nat
         /\ \A m \in ToSet(Report) : m.t = "progress"
         /\ OnItsWay(Report) = cnt
<1> DEFINE w == Len(written)  m == Msg("progress", cnt)
<1>1. cnt \in 0 .. Len(Stream)
  <2>1. cnt \in Nat /\ w \in 0 .. Len(Stream) /\ base \in 0 .. w /\ cnt <= w - base
    BY WrittenBound DEF DataOK, BlockInv
  <2> HIDE DEF w
  <2> QED
    BY <2>1, Parameters
<1>2. m \in Messages /\ m.t = "progress" /\ m.v = cnt
  BY <1>1 DEF Messages, Msg, Kinds
<1>3. Report = IF cnt > 0 THEN <<m>> ELSE <<>>
  BY DEF Report
<1> HIDE DEF m
<1>4. CASE cnt > 0
  <2>1. <<m>> \in Seq(Messages) /\ Len(<<m>>) = 1 /\ ToSet(<<m>>) = {m}
    BY <1>2, OneMessage
  <2>2. OnItsWay(<<m>>) = m.v
    BY <1>2, OnItsWaySingle, Parameters
  <2> QED
    BY <1>2, <1>3, <1>4, <2>1, <2>2
<1>5. CASE cnt = 0
  <2>1. Report = <<>>
    BY <1>3, <1>5
  <2>2. <<>> \in Seq(Messages) /\ Len(<<>>) = 0
    OBVIOUS
  <2> QED
    BY <1>5, <2>1, <2>2, EmptyContents, OnItsWayEmpty
<1> QED
  BY <1>1, <1>4, <1>5

(* The receiver tells the sender how far it is; nothing of it is about      *)
(* the stream.                                                              *)
LEMMA DataReport ==
  ASSUME ControlInv, DataInv, st["rcv"] = "established",
         NEW s \in Seq(Messages), Len(s) <= Room("rcv"), Send("rcv", s),
         \A m \in ToSet(s) : m.t # "pos" /\ (m.t = "completeAck" => told'["rcv"] = "complete"),
         st'["snd"] = st["snd"], st'["rcv"] \in {"established", "none"},
         pc'["snd"] = pc["snd"], pc'["rcv"] = "idle", told'["rcv"] \in {told["rcv"], "complete"},
         progress' \in [Ends -> Nat],
         UNCHANGED <<inbox, up, rpos, gotPos, sendBuf, sendDone, expect, chunks, cnt, written, base>>
  PROVE  DataInv'
<1>1. /\ DataOK /\ PrefixWritten /\ NetInv /\ PosInv /\ BlockInv /\ FlowInv /\ up \in BOOLEAN
  BY DEF DataInv, ControlInv, ControlOK
<1>2. /\ wire' \in [Ends -> Seq(Messages)] /\ wire'["snd"] = wire["snd"]
      /\ Len(wire'["rcv"]) = Len(wire["rcv"]) + (IF up THEN Len(s) ELSE 0)
      /\ Len(wire["rcv"]) \in Nat /\ Len(s) \in Nat
      /\ ToSet(wire'["rcv"]) \subseteq ToSet(wire["rcv"]) \cup ToSet(s)
      /\ ~up => wire' = wire
  BY <1>1, Sent, TheEnds
<1>3. DataOK'
  <2>1. Room("rcv")' >= 0
    <3> DEFINE a == Len(wire["rcv"])  b == Len(inbox["snd"])  c == Len(wire'["rcv"])  k == Len(s)
    <3>1. Room("rcv")' = Cap - c - b /\ Room("rcv") = Cap - a - b
      BY TheEnds DEF Room
    <3>2. c = a + (IF up THEN k ELSE 0) /\ a \in Nat /\ b \in Nat /\ k \in Nat
      BY <1>1, <1>2, LenProperties, TheEnds DEF DataOK
    <3>3. k <= Room("rcv") /\ Room("rcv") >= 0
      BY <1>1, TheEnds DEF DataOK
    <3> HIDE DEF a, b, c, k
    <3> QED
      BY <3>1, <3>2, <3>3, Parameters
  <2>2. Room("snd")' >= 0
    BY <1>1, <1>2, TheEnds DEF DataOK, Room
  <2>3. \A f \in Ends : Room(f)' >= 0
    BY <2>1, <2>2, TheEnds
  <2> QED
    BY <2>3, <1>1, <1>2 DEF DataOK
<1>4. PrefixWritten'
  BY <1>1 DEF PrefixWritten
<1>5. NetInv'
  BY <1>1, <1>2 DEF NetInv, Handshaking
<1>6. PosInv'
  <2>1. Reports' \subseteq Reports \cup ToSet(s)
    BY <1>2 DEF Reports
  <2>2. \A m \in Reports' : m.t = "pos" => m \in Reports
    BY <2>1
  <2>3. \A m \in Reports' : m.t = "completeAck" => told'["rcv"] = "complete"
    BY <2>1, <1>1 DEF PosInv
  <2> QED
    BY <2>2, <2>3, <1>1, <1>2 DEF PosInv, Handshaking
<1>7. BlockInv'
  BY <1>1 DEF BlockInv
<1>8. FlowInv'
  BY <1>1, <1>2 DEF FlowInv, Coming
<1> QED
  BY <1>3, <1>4, <1>5, <1>6, <1>7, <1>8 DEF DataInv

(* The receiver has the last part of a block. *)
LEMMA DataRcvEnd ==
  ASSUME ControlInv, DataInv, RcvEnd
  PROVE  DataInv'
<1>1. /\ pc["rcv"] = "end" /\ Len(Report) <= Room("rcv") /\ Send("rcv", Report)
      /\ progress' = [progress EXCEPT !["rcv"] = @ + cnt] /\ pc' = [pc EXCEPT !["rcv"] = "idle"]
      /\ UNCHANGED <<st, told, inbox, up, rpos, gotPos, sendBuf, sendDone,
                     expect, chunks, cnt, written, base>>
  BY DEF RcvEnd, Goto, snd, rcv, user
<1>2. /\ DataOK /\ PrefixWritten /\ BlockInv /\ pc \in [Ends -> Places]
  BY DEF DataInv, ControlInv, ControlOK
<1>3. st["rcv"] = "established"
  BY <1>1, Running
<1>4. /\ Report \in Seq(Messages) /\ \A m \in ToSet(Report) : m.t = "progress"
  BY <1>2, ReportIs
<1>5. progress' \in [Ends -> Nat] /\ pc'["rcv"] = "idle" /\ pc'["snd"] = pc["snd"]
  <2>1. progress \in [Ends -> Nat] /\ cnt \in Nat
    BY <1>2 DEF DataOK
  <2>2. progress' \in [Ends -> Nat]
    BY <1>1, <2>1, TheEnds
  <2> QED
    BY <1>1, <1>2, <2>2, TheEnds
<1> DEFINE s == Report
<1>6. s \in Seq(Messages) /\ Len(s) <= Room("rcv") /\ Send("rcv", s)
      /\ \A m \in ToSet(s) : m.t # "pos" /\ (m.t = "completeAck" => told'["rcv"] = "complete")
  BY <1>1, <1>4
<1> HIDE DEF s
<1> QED
  BY <1>1, <1>3, <1>5, <1>6, DataReport

(* The receiver hears that the stream has come to its end. *)
LEMMA DataRcvComplete ==
  ASSUME ControlInv, DataInv, RcvComplete
  PROVE  DataInv'
<1> DEFINE m == Msg("completeAck", 0)  s == Append(Report, m)
<1>1. /\ pc["rcv"] = "complete" /\ Len(Report) < Room("rcv") /\ Send("rcv", s)
      /\ pc' = [pc EXCEPT !["rcv"] = "idle"] /\ st' = [st EXCEPT !["rcv"] = "none"]
      /\ told' = [told EXCEPT !["rcv"] = "complete"]
      /\ UNCHANGED <<inbox, up, rpos, gotPos, sendBuf, sendDone,
                     expect, chunks, cnt, written, base, progress>>
  BY DEF RcvComplete, Tell, Goto, snd, rcv
<1>2. /\ DataOK /\ PrefixWritten /\ BlockInv /\ pc \in [Ends -> Places]
      /\ st \in [Ends -> {"connected", "connect", "established", "none"}]
      /\ told \in [Ends -> {"nothing", "start", "complete", "error"}]
  BY DEF DataInv, ControlInv, ControlOK
<1>3. st["rcv"] = "established"
  BY <1>1, Running
<1>4. /\ Report \in Seq(Messages) /\ Len(Report) \in Nat /\ \A x \in ToSet(Report) : x.t = "progress"
  BY <1>2, ReportIs
<1>5. m \in Messages /\ m.t = "completeAck"
  BY Parameters DEF Messages, Msg, Kinds
<1> HIDE DEF m
<1>6. s \in Seq(Messages) /\ ToSet(s) = ToSet(Report) \cup {m} /\ Len(s) = Len(Report) + 1
  <2> DEFINE t == Report
  <2>1. t \in Seq(Messages)
    BY <1>4
  <2> HIDE DEF t
  <2>2. Append(t, m) \in Seq(Messages) /\ ToSet(Append(t, m)) = ToSet(t) \cup {m}
    BY <1>5, <2>1, AppendContents
  <2>3. Len(Append(t, m)) = Len(t) + 1
    BY <1>5, <2>1
  <2> QED
    BY <2>2, <2>3 DEF t
<1>7. /\ st'["snd"] = st["snd"] /\ st'["rcv"] = "none" /\ told'["rcv"] = "complete"
      /\ pc'["rcv"] = "idle" /\ pc'["snd"] = pc["snd"]
  BY <1>1, <1>2, TheEnds
<1>8. Len(s) <= Room("rcv")
  <2> DEFINE a == Len(Report)  b == Room("rcv")  c == Len(s)
  <2>1. a \in Nat /\ b \in Nat /\ a < b /\ c = a + 1
    BY <1>1, <1>2, <1>4, <1>6, RoomIs, TheEnds
  <2> HIDE DEF a, b, c
  <2> QED
    BY <2>1 DEF b, c
<1>9. \A x \in ToSet(s) : x.t # "pos" /\ (x.t = "completeAck" => told'["rcv"] = "complete")
  BY <1>4, <1>5, <1>6, <1>7
<1> HIDE DEF s
<1> QED
  BY <1>1, <1>2, <1>3, <1>6, <1>7, <1>8, <1>9, DataReport DEF DataOK

-----------------------------------------------------------------------------
(* Init, Next. *)

(* Nothing is on its way, and nothing was written yet. *)
LEMMA DataInit ==
  ASSUME Init
  PROVE  DataInv
<1>1. PICK c \in Ends :
        /\ st = [e \in Ends |-> IF e = c THEN "connect" ELSE "connected"]
        /\ wire = [e \in Ends |-> IF e = c THEN <<Msg("validation", 0)>> ELSE <<>>]
  BY DEF Init
<1>2. /\ pc = [e \in Ends |-> "idle"] /\ inbox = [e \in Ends |-> <<>>] /\ up = TRUE
      /\ rpos = 0 /\ gotPos = FALSE /\ sendBuf = <<>> /\ sendDone = FALSE
      /\ expect = 0 /\ chunks = <<0, 0>> /\ cnt = 0
      /\ progress = [e \in Ends |-> 0] /\ told = [e \in Ends |-> "nothing"]
  BY DEF Init
<1>3. PICK n \in 0 .. Len(Stream) : written = [i \in 1 .. n |-> i] /\ base = n
  BY DEF Init
<1> DEFINE m == Msg("validation", 0)
<1>4. m \in Messages /\ m.t = "validation"
  BY Parameters DEF Messages, Msg, Kinds
<1> HIDE DEF m
<1>5. <<m>> \in Seq(Messages) /\ Len(<<m>>) = 1 /\ ToSet(<<m>>) = {m}
  BY <1>4, OneMessage
<1>6. <<>> \in Seq(Messages) /\ Len(<<>>) = 0 /\ ToSet(<<>>) = {} /\ ToSet(<<>>) \cup ToSet(<<>>) = {}
  BY EmptyContents
<1>7. /\ wire \in [Ends -> Seq(Messages)] /\ inbox \in [Ends -> Seq(Messages)]
      /\ \A e \in Ends : /\ Len(inbox[e]) = 0 /\ inbox[e] = <<>>
                         /\ wire[e] = <<m>> \/ wire[e] = <<>>
                         /\ Len(wire[e]) \in 0 .. 1 /\ ToSet(wire[e]) \subseteq {m}
  BY <1>1, <1>2, <1>5, <1>6 DEF m
<1>8. written \in Seq(1 .. Len(Stream)) /\ Len(written) = n /\ n \in Nat
  BY <1>3, Parameters
<1>9. DataOK
  <2>1. \A e \in Ends : Room(e) >= 0
    <3> TAKE e \in Ends
    <3> DEFINE a == Len(wire[e])
    <3>1. Room(e) = Cap - a - 0 /\ a \in 0 .. 1
      BY <1>7, TheEnds DEF Room
    <3> HIDE DEF a
    <3> QED
      BY <3>1, Parameters
  <2> QED
    BY <2>1, <1>2, <1>3, <1>6, <1>7, <1>8, Parameters DEF DataOK
<1>10. PrefixWritten
  BY <1>3, <1>8 DEF PrefixWritten
<1>11. NetInv
  <2>1. st["snd"] = "connected" => wire["snd"] = <<>> /\ st["rcv"] # "established"
    BY <1>1, TheEnds
  <2>2. Len(inbox["snd"]) + Len(wire["rcv"]) <= 1 /\ Len(inbox["rcv"]) + Len(wire["snd"]) <= 1
    <3> DEFINE a == Len(inbox["snd"])  b == Len(wire["rcv"])  i == Len(inbox["rcv"])  j == Len(wire["snd"])
    <3>1. a = 0 /\ b \in 0 .. 1 /\ i = 0 /\ j \in 0 .. 1
      BY <1>7, TheEnds
    <3> HIDE DEF a, b, i, j
    <3>2. a + b <= 1 /\ i + j <= 1
      BY <3>1
    <3> QED
      BY <3>2 DEF a, b, i, j
  <2> QED
    BY <2>1, <2>2, <1>2, <1>3, <1>7, <1>8, TheEnds DEF NetInv
<1>12. PosInv
  <2>1. Reports \subseteq {m}
    BY <1>6, <1>7, TheEnds DEF Reports
  <2>2. st["rcv"] # "established"
    BY <1>1, TheEnds
  <2> QED
    BY <2>1, <2>2, <1>2, <1>4, TheEnds DEF PosInv
<1>13. BlockInv
  BY <1>2, <1>3, <1>8, TheEnds DEF BlockInv
<1>14. FlowInv
  BY <1>2 DEF FlowInv
<1> QED
  BY <1>9, <1>10, <1>11, <1>12, <1>13, <1>14 DEF DataInv

(* Every step keeps the stream together. *)
LEMMA DataNext ==
  ASSUME ControlInv, DataInv, [Next]_vars
  PROVE  DataInv'
<1>1. CASE Sender
  <2>1. SndProgress \/ SndComplete => gotPos
    BY DEF SndProgress, SndComplete
  <2>2. CASE SndPosMissing \/ SndReadAll
    BY <2>2, DataWait
  <2>3. CASE SndProgress \/ SndComplete
    BY <2>1, <2>3, DataHear
  <2> QED
    BY <1>1, <2>2, <2>3, DataSndPos, DataSndFlush, DataSndFill DEF Sender
<1>2. CASE Receiver
  <2>1. ASSUME RcvRefused PROVE DataInv'
    BY <2>1, FaultsFail, DataFail, TheEnds
  <2> QED
    BY <1>2, <2>1, DataWait, DataRcvType, DataRcvBlock, DataRcvChunk, DataRcvEnd, DataRcvComplete
       DEF Receiver
<1>3. CASE SendFails \/ StreamFails
  BY <1>3, FaultsFail, DataFail
<1>4. CASE Break
  BY <1>4, DataBreak
<1>5. CASE \E e \in Ends : Handler(e)
  <2>1. ASSUME NEW e \in Ends, OnClose(e) PROVE DataInv'
    BY <2>1, FaultsFail, DataFail
  <2> QED
    BY <1>5, <2>1, DataOnRead, DataHandshake, DataWait DEF Handler
<1>6. CASE \E e \in Ends : Arrive(e)
  BY <1>6, DataArrive
<1>7. CASE \E e \in Ends : OnTimeout(e)
  BY <1>7, FaultsFail, DataFail
<1>8. CASE UNCHANGED vars
  <2>1. /\ UNCHANGED <<st, pc, wire, inbox, up, rpos, gotPos, sendBuf, sendDone, expect, chunks,
                       cnt, written, base, progress, told>>
    BY <1>8 DEF vars, snd, rcv, net, user
  <2>2. DataOK' /\ PrefixWritten' /\ NetInv' /\ BlockInv'
    BY <2>1 DEF DataInv, DataOK, Room, PrefixWritten, NetInv, Handshaking, BlockInv
  <2>3. PosInv' /\ FlowInv'
    BY <2>1 DEF DataInv, PosInv, Reports, Handshaking, FlowInv, Coming
  <2> QED
    BY <2>2, <2>3 DEF DataInv
<1> QED
  BY <1>1, <1>2, <1>3, <1>4, <1>5, <1>6, <1>7, <1>8 DEF Next

-----------------------------------------------------------------------------
(* Both sides count the same progress. *)

Heard == OnItsWay(inbox["snd"] \o wire["rcv"])
Own == Cardinality({i \in base + 1 .. Len(written) : IsContent(i)})

AgreeInv ==
  up /\ st["snd"] # "none" /\ st["rcv"] # "none" =>
    progress["rcv"] = progress["snd"] + Heard /\ progress["rcv"] + NotReported = Own

(* The invariant of the two counts is the property. *)
LEMMA AgreeInvIs == AgreeInv <=> ProgressAgrees
BY DEF AgreeInv, ProgressAgrees, Heard, Own, IsContent

(* What is on its way to the sender is what its inbox and the wire tell. *)
LEMMA HeardIs ==
  ASSUME DataOK
  PROVE  /\ Heard = OnItsWay(inbox["snd"]) + OnItsWay(wire["rcv"])
         /\ OnItsWay(inbox["snd"]) \in Nat /\ OnItsWay(wire["rcv"]) \in Nat /\ Heard \in Nat
<1> DEFINE s == inbox["snd"]  t == wire["rcv"]
<1>1. s \in Seq(Messages) /\ t \in Seq(Messages)
  BY TheEnds DEF DataOK
<1> HIDE DEF s, t
<1>2. OnItsWay(s \o t) = OnItsWay(s) + OnItsWay(t) /\ OnItsWay(s) \in Nat /\ OnItsWay(t) \in Nat
  BY <1>1, OnItsWayConcat, Parameters
<1> QED
  BY <1>2 DEF Heard, s, t

(* A message is read by the sender. *)
LEMMA HeardRead ==
  ASSUME DataOK, inbox["snd"] # <<>>, Read("snd", 1), wire'["rcv"] = wire["rcv"]
  PROVE  LET m == Head(inbox["snd"]) IN
         /\ Heard' \in Nat
         /\ m.t = "progress" => Heard = m.v + Heard'
         /\ m.t # "progress" => Heard' = Heard
<1> DEFINE s == inbox["snd"]  m == Head(s)  r == inbox'["snd"]  t == wire["rcv"]
<1>1. /\ <<m>> \in Seq(Messages) /\ m \in Messages /\ s = <<m>> \o r
      /\ r \in Seq(Messages) /\ t \in Seq(Messages)
  BY ReadOne, TheEnds DEF DataOK
<1>2. Heard' = OnItsWay(r \o t)
  BY DEF Heard
<1>3. Heard = OnItsWay(s) + OnItsWay(t) /\ OnItsWay(s) \in Nat /\ OnItsWay(t) \in Nat
  BY HeardIs
<1> DEFINE u == <<m>>
<1>4. OnItsWay(u) = IF m.t = "progress" THEN m.v ELSE 0
  BY <1>1, OnItsWaySingle, Parameters
<1> HIDE DEF s, m, r, t, u
<1>5. u \in Seq(Messages) /\ s = u \o r
  BY <1>1 DEF u
<1>6. OnItsWay(s) = OnItsWay(u) + OnItsWay(r) /\ OnItsWay(u) \in Nat /\ OnItsWay(r) \in Nat
  BY <1>1, <1>5, OnItsWayConcat, Parameters
<1>7. OnItsWay(r \o t) = OnItsWay(r) + OnItsWay(t)
  BY <1>1, OnItsWayConcat, Parameters
<1>8. Heard' \in Nat /\ Heard = OnItsWay(u) + Heard'
  BY <1>2, <1>3, <1>6, <1>7
<1>9. OnItsWay(u) = 0 => Heard' = Heard
  BY <1>2, <1>3, <1>6, <1>7
<1> QED
  BY <1>4, <1>8, <1>9 DEF m, s

(* The receiver sends something. *)
LEMMA HeardSent ==
  ASSUME DataOK, up, NEW s \in Seq(Messages), Send("rcv", s), inbox'["snd"] = inbox["snd"]
  PROVE  Heard' = Heard + OnItsWay(s) /\ OnItsWay(s) \in Nat /\ Heard \in Nat
<1> DEFINE i == inbox["snd"]  w == wire["rcv"]
<1>1. i \in Seq(Messages) /\ w \in Seq(Messages) /\ wire'["rcv"] = w \o s
  BY Sent, TheEnds DEF DataOK
<1> DEFINE x == w \o s
<1>2. Heard' = OnItsWay(i \o x)
  BY <1>1 DEF Heard
<1>3. Heard = OnItsWay(i) + OnItsWay(w) /\ OnItsWay(i) \in Nat /\ OnItsWay(w) \in Nat
  BY HeardIs
<1> HIDE DEF i, w
<1>4. OnItsWay(x) = OnItsWay(w) + OnItsWay(s) /\ OnItsWay(s) \in Nat /\ x \in Seq(Messages)
  BY <1>1, OnItsWayConcat, ConcatProperties, Parameters
<1> HIDE DEF x
<1>5. OnItsWay(i \o x) = OnItsWay(i) + OnItsWay(x)
  BY <1>1, <1>4, OnItsWayConcat, Parameters
<1> QED
  BY <1>2, <1>3, <1>4, <1>5

(* A step that writes and reports nothing. *)
LEMMA AgreeSame ==
  ASSUME AgreeInv, up' => up, st'["snd"] # "none" => st["snd"] # "none",
         st'["rcv"] # "none" => st["rcv"] # "none",
         UNCHANGED <<progress, written, base>>, up' => Heard' = Heard, NotReported' = NotReported
  PROVE  AgreeInv'
<1>1. Own' = Own
  BY DEF Own
<1> QED
  BY <1>1 DEF AgreeInv

(* Both count nothing yet. *)
LEMMA AgreeInit ==
  ASSUME Init
  PROVE  AgreeInv
<1>1. DataOK /\ pc["rcv"] = "idle" /\ progress["snd"] = 0 /\ progress["rcv"] = 0 /\ inbox["snd"] = <<>>
  BY DataInit, TheEnds DEF DataInv, Init
<1>2. Len(written) = base /\ base \in Nat
  <2>1. PICK n \in 0 .. Len(Stream) : written = [i \in 1 .. n |-> i] /\ base = n
    BY DEF Init
  <2> QED
    BY <2>1, Parameters
<1>3. Own = 0
  <2>1. {i \in base + 1 .. Len(written) : IsContent(i)} = {}
    BY <1>2
  <2> QED
    BY <2>1, FS_EmptySet DEF Own
<1>4. OnItsWay(wire["rcv"]) = 0
  <2> DEFINE m == Msg("validation", 0)
  <2>1. m \in Messages /\ m.t # "progress"
    BY Parameters DEF Messages, Msg, Kinds
  <2>2. wire["rcv"] \in {<<m>>, <<>>}
    BY TheEnds DEF Init
  <2> HIDE DEF m
  <2>3. OnItsWay(<<m>>) = 0
    BY <2>1, OnItsWaySingle, Parameters
  <2> QED
    BY <2>2, <2>3, OnItsWayEmpty
<1>5. Heard = 0
  BY <1>1, <1>4, HeardIs, OnItsWayEmpty
<1> QED
  BY <1>1, <1>3, <1>5 DEF AgreeInv, NotReported

(* The sender counts what it hears. *)
LEMMA AgreeSender ==
  ASSUME ControlInv, DataInv, AgreeInv, Sender
  PROVE  AgreeInv'
<1>1. DataOK /\ pc \in [Ends -> Places] /\ st \in [Ends -> {"connected", "connect", "established", "none"}]
  BY DEF DataInv, ControlInv, ControlOK
<1>2. \A l : pc' = [pc EXCEPT !["snd"] = l] => pc'["rcv"] = pc["rcv"]
  BY <1>1, TheEnds
<1>3. CASE SndPosMissing \/ SndReadAll
  <2>1. /\ UNCHANGED <<st, wire, inbox, up, cnt, written, base, progress>> /\ pc'["rcv"] = pc["rcv"]
    BY <1>2, <1>3 DEF SndPosMissing, SndReadAll, Goto, net, rcv
  <2> QED
    BY <2>1, AgreeSame DEF Heard, NotReported
<1>4. CASE SndPos
  <2>1. /\ UNCHANGED <<st, wire, up, cnt, written, base, progress>> /\ pc'["rcv"] = pc["rcv"]
        /\ inbox["snd"] # <<>> /\ Read("snd", 1) /\ Head(inbox["snd"]).t = "pos"
    BY <1>2, <1>4 DEF SndPos, Goto, rcv
  <2>3. Heard' = Heard
    BY <2>1, <1>1, HeardRead
  <2>4. NotReported' = NotReported
    BY <2>1 DEF NotReported
  <2>5. UNCHANGED <<st, up, written, base, progress>>
    BY <2>1
  <2> QED
    BY <2>3, <2>4, <2>5, AgreeSame
<1>5. CASE SndProgress
  <2> DEFINE v == Head(inbox["snd"]).v
  <2>1. /\ UNCHANGED <<st, pc, wire, up, cnt, written, base>>
        /\ inbox["snd"] # <<>> /\ Read("snd", 1) /\ Head(inbox["snd"]).t = "progress"
        /\ progress' = [progress EXCEPT !["snd"] = @ + v]
    BY <1>5 DEF SndProgress, rcv
  <2>2. Heard' \in Nat /\ Heard = v + Heard'
    BY <2>1, <1>1, HeardRead
  <2>3. v \in Nat
    <3>1. Head(inbox["snd"]) \in Messages
      BY <2>1, <1>1, ReadOne, TheEnds
    <3> QED
      BY <3>1, Parameters DEF Messages
  <2>4. progress'["snd"] = progress["snd"] + v /\ progress'["rcv"] = progress["rcv"]
        /\ progress["snd"] \in Nat /\ progress["rcv"] \in Nat
    BY <2>1, <1>1, TheEnds DEF DataOK
  <2>5. Own' = Own /\ NotReported' = NotReported
    BY <2>1 DEF Own, NotReported
  <2> HIDE DEF v
  <2> QED
    BY <2>1, <2>2, <2>3, <2>4, <2>5 DEF AgreeInv
<1>6. CASE SndComplete
  <2>1. st'["snd"] = "none"
    BY <1>1, <1>6, TheEnds DEF SndComplete
  <2> QED
    BY <2>1 DEF AgreeInv
<1>7. ASSUME NEW s, NEW l, Send("snd", s), pc' = [pc EXCEPT !["snd"] = l],
             UNCHANGED <<st, inbox, up, cnt, written, base, progress>>
      PROVE  AgreeInv'
  <2>1. wire'["rcv"] = wire["rcv"]
    BY <1>1, <1>7, TheEnds DEF Send, DataOK
  <2> QED
    BY <2>1, <1>2, <1>7, AgreeSame DEF Heard, NotReported
<1>8. CASE SndFlush
  BY <1>7, <1>8 DEF SndFlush, Goto, rcv
<1>9. CASE SndFill
  BY <1>7, <1>9 DEF SndFill, Goto, rcv
<1> QED
  BY <1>3, <1>4, <1>5, <1>6, <1>8, <1>9 DEF Sender

(* The receiver counts what it writes, and tells it. *)
LEMMA AgreeReceiver ==
  ASSUME ControlInv, DataInv, AgreeInv, Receiver
  PROVE  AgreeInv'
<1>1. /\ DataOK /\ BlockInv /\ PrefixWritten /\ pc \in [Ends -> Places]
      /\ st \in [Ends -> {"connected", "connect", "established", "none"}]
  BY DEF DataInv, ControlInv, ControlOK
<1>2. \A l : pc' = [pc EXCEPT !["rcv"] = l] => pc'["rcv"] = l
  BY <1>1, TheEnds
<1>3. CASE RcvType \/ RcvBlock \/ RcvNothing
  <2>1. /\ UNCHANGED <<st, wire, up, cnt, written, base, progress>>
        /\ pc["rcv"] \in {"type", "block", "chunk"} /\ pc'["rcv"] \in {"complete", "chunk", "end"}
    BY <1>2, <1>3 DEF RcvType, RcvBlock, RcvNothing, Goto, net, rcv
  <2>2. inbox'["snd"] = inbox["snd"]
    BY <1>1, <1>3, TheEnds DEF RcvType, RcvBlock, RcvNothing, Read, net, DataOK
  <2> QED
    BY <2>1, <2>2, AgreeSame DEF Heard, NotReported
<1>4. CASE RcvChunk
  <2> DEFINE s == inbox["rcv"]  n == Smaller(Want, Len(s))  p == SubSeq(s, 1, n)  w == Len(written)
  <2>1. /\ UNCHANGED <<st, wire, up, base, progress>> /\ inbox'["snd"] = inbox["snd"]
        /\ pc["rcv"] = "chunk" /\ pc'["rcv"] \in {"end", "chunk", "type"}
        /\ cnt' = cnt + Content(p)
    BY <1>1, <1>2, <1>4, TheEnds DEF RcvChunk, Goto, Read, DataOK
  <2>2. /\ Len(written') = w + n /\ w \in Nat /\ n \in Nat /\ base \in 0 .. w
        /\ p \in Seq(Messages) /\ Len(p) = n /\ \A i \in 1 .. n : p[i].v = w + i
    BY <1>4, ChunkReads
  <2> HIDE DEF n, p, w
  <2>3. /\ Content(p) \in 0 .. n
        /\ Cardinality({i \in base + 1 .. w + n : IsContent(i)})
             = Cardinality({i \in base + 1 .. w : IsContent(i)}) + Content(p)
    BY <2>2, PartContent
  <2>4. Own' = Own + Content(p) /\ Heard' = Heard
    BY <2>1, <2>2, <2>3 DEF Own, Heard, w
  <2>5. NotReported' = cnt + Content(p) /\ NotReported = cnt
    BY <2>1 DEF NotReported
  <2>6. cnt \in Nat /\ progress["rcv"] \in Nat /\ Content(p) \in Nat
    BY <2>2, <2>3, <1>1, TheEnds DEF DataOK
  <2> QED
    BY <2>1, <2>4, <2>5, <2>6 DEF AgreeInv
<1>5. CASE RcvRefused
  BY <1>5 DEF RcvRefused, Fail, AgreeInv
<1>6. CASE RcvEnd
  <2>1. /\ UNCHANGED <<st, inbox, up, cnt, written, base>> /\ Send("rcv", Report)
        /\ progress' = [progress EXCEPT !["rcv"] = @ + cnt]
        /\ pc["rcv"] = "end" /\ pc'["rcv"] = "idle"
    BY <1>2, <1>6 DEF RcvEnd, Goto, rcv
  <2>2. Report \in Seq(Messages) /\ OnItsWay(Report) = cnt
    BY <1>1, ReportIs
  <2>3. up => Heard' = Heard + cnt /\ Heard \in Nat
    <3> DEFINE s == Report
    <3>1. s \in Seq(Messages) /\ OnItsWay(s) = cnt /\ Send("rcv", s)
      BY <2>1, <2>2
    <3> HIDE DEF s
    <3> QED
      BY <3>1, <2>1, <1>1, HeardSent
  <2>4. /\ progress'["rcv"] = progress["rcv"] + cnt /\ progress'["snd"] = progress["snd"]
        /\ progress["rcv"] \in Nat /\ progress["snd"] \in Nat /\ cnt \in Nat
    BY <2>1, <1>1, TheEnds DEF DataOK
  <2>5. Own' = Own /\ NotReported = cnt /\ NotReported' = 0
    BY <2>1 DEF Own, NotReported
  <2> QED
    BY <2>1, <2>3, <2>4, <2>5 DEF AgreeInv
<1>7. CASE RcvComplete
  <2>1. st'["rcv"] = "none"
    BY <1>1, <1>7, TheEnds DEF RcvComplete
  <2> QED
    BY <2>1 DEF AgreeInv
<1> QED
  BY <1>3, <1>4, <1>5, <1>6, <1>7 DEF Receiver

(* What arrives was on its way before. *)
LEMMA AgreeArrive ==
  ASSUME ControlInv, DataInv, AgreeInv, NEW e \in Ends, Arrive(e)
  PROVE  AgreeInv'
<1>1. /\ wire \in [Ends -> Seq(Messages)] /\ inbox \in [Ends -> Seq(Messages)]
      /\ UNCHANGED <<st, pc, up, cnt, written, base, progress>>
  BY DEF DataInv, DataOK, Arrive, rcv
<1>2. Heard' = Heard
  <2>1. CASE e = "snd"
    <3>1. wire'["rcv"] = wire["rcv"] /\ inbox'["snd"] = inbox["snd"]
      BY <1>1, <2>1, TheEnds DEF Arrive
    <3> QED
      BY <3>1 DEF Heard
  <2>2. CASE e = "rcv"
    <3> DEFINE a == inbox["snd"]  b == wire["rcv"]
    <3>1. PICK n \in 1 .. Len(b) : /\ wire' = [wire EXCEPT !["rcv"] = SubSeq(b, n + 1, Len(b))]
                                   /\ inbox' = [inbox EXCEPT !["snd"] = a \o SubSeq(b, 1, n)]
      BY <2>2, TheEnds DEF Arrive
    <3>2. /\ wire'["rcv"] = SubSeq(b, n + 1, Len(b)) /\ inbox'["snd"] = a \o SubSeq(b, 1, n)
          /\ a \in Seq(Messages) /\ b \in Seq(Messages)
      BY <1>1, <3>1, TheEnds
    <3>3. n \in 0 .. Len(b)
      BY <3>2, LenProperties
    <3> HIDE DEF a, b
    <3>4. Moved(Messages, n, a, b, a \o SubSeq(b, 1, n), SubSeq(b, n + 1, Len(b)))
      BY <3>2, <3>3, Arrives, Zenon
    <3>5. inbox'["snd"] \o wire'["rcv"] = a \o b
      BY <3>2, <3>4 DEF Moved
    <3> QED
      BY <3>5 DEF Heard, a, b
  <2> QED
    BY <2>1, <2>2, TheEnds
<1> QED
  BY <1>1, <1>2, AgreeSame DEF NotReported

(* The handshake moves no report. *)
LEMMA AgreeHandshake ==
  ASSUME ControlInv, DataInv, AgreeInv, NEW e \in Ends, Validate(e) \/ Acknowledged(e)
  PROVE  AgreeInv'
<1> DEFINE a == Msg("ack", 0)  p == Msg("pos", Len(written))
<1>1. /\ DataOK /\ PrefixWritten /\ pc \in [Ends -> Places] /\ inbox \in [Ends -> Seq(Messages)]
      /\ wire \in [Ends -> Seq(Messages)] /\ StageInv
      /\ st \in [Ends -> {"connected", "connect", "established", "none"}]
  BY DEF DataInv, ControlInv, ControlOK, DataOK
<1>2. PICK s \in {<<>>, <<a>>} : Established(e, s)
  BY DEF Validate, Acknowledged
<1>3. /\ UNCHANGED <<up, cnt, written, base, progress>> /\ inbox[e] # <<>> /\ Read(e, 1)
      /\ pc[e] \in {"validate", "ack"} /\ Head(inbox[e]).t # "progress"
      /\ Send(e, IF e = "rcv" THEN Append(s, p) ELSE s)
      /\ pc' = [pc EXCEPT ![e] = IF e = "rcv" THEN "idle" ELSE "read"]
      /\ st' = [st EXCEPT ![e] = "established"]
  <2>1. Head(inbox[e]).t = "validation" \/ Head(inbox[e]).t = "ack"
    BY <1>2 DEF Established
  <2>2. pc[e] = "validate" \/ pc[e] = "ack"
    BY <1>2 DEF Established
  <2> QED
    BY <1>2, <2>1, <2>2 DEF Established, Goto, rcv
<1>4. st'["snd"] # "none" => st["snd"] # "none"
  BY <1>1, <1>3, TheEnds DEF StageInv
<1>5. st'["rcv"] # "none" => st["rcv"] # "none"
  BY <1>1, <1>3, TheEnds DEF StageInv
<1>6. CASE e = "rcv"
  <2> DEFINE t == Append(s, p)
  <2>1. a \in Messages /\ p \in Messages /\ a.t # "progress" /\ p.t # "progress"
    BY <1>1, WrittenBound, Parameters DEF Messages, Msg, Kinds
  <2> HIDE DEF a, p
  <2>2. OnItsWay(<<a>>) = 0 /\ OnItsWay(<<p>>) = 0 /\ OnItsWay(<<>>) = 0
    BY <2>1, OnItsWaySingle, OnItsWayEmpty, Parameters
  <2> DEFINE q == <<p>>
  <2>3. s \in Seq(Messages) /\ q \in Seq(Messages) /\ OnItsWay(s) = 0 /\ t = s \o q
    <3>0. <<a>> \in Seq(Messages) /\ <<>> \in Seq(Messages) /\ (s = <<a>> \/ s = <<>>)
      BY <2>1
    <3>1. s \in Seq(Messages)
      BY <3>0, Zenon
    <3>2. OnItsWay(s) = 0
      BY <3>0, <2>2, Zenon
    <3>3. Append(s, p) = s \o <<p>> /\ <<p>> \in Seq(Messages)
      BY <2>1, <3>1
    <3> QED
      BY <3>1, <3>2, <3>3
  <2>4. OnItsWay(q) = 0
    BY <2>2
  <2> HIDE DEF q, t
  <2>5. t \in Seq(Messages) /\ OnItsWay(t) = 0
    BY <2>3, <2>4, OnItsWayConcat, ConcatProperties, Parameters
  <2>6. Send("rcv", t) /\ inbox'["snd"] = inbox["snd"]
    BY <1>1, <1>3, <1>6, TheEnds DEF t, Read
  <2>7. up => Heard' = Heard
    BY <1>1, <2>5, <2>6, HeardSent
  <2>8. pc["rcv"] \in {"validate", "ack"} /\ pc'["rcv"] = "idle"
    BY <1>1, <1>3, <1>6
  <2>9. NotReported' = NotReported
    BY <2>8 DEF NotReported
  <2> QED
    BY <1>3, <1>4, <1>5, <2>7, <2>9, AgreeSame
<1>7. CASE e = "snd"
  <2>1. wire'["rcv"] = wire["rcv"] /\ pc'["rcv"] = pc["rcv"]
    BY <1>1, <1>3, <1>7, TheEnds DEF Send
  <2>3. Heard' = Heard
    BY <1>1, <1>3, <1>7, <2>1, HeardRead
  <2>4. NotReported' = NotReported
    BY <1>3, <2>1 DEF NotReported
  <2>5. UNCHANGED <<up, written, base, progress>>
    BY <1>3
  <2> QED
    BY <1>4, <1>5, <2>3, <2>4, <2>5, AgreeSame
<1> QED
  BY <1>6, <1>7, TheEnds

(* Every step keeps the two counts in agreement. *)
LEMMA AgreeNext ==
  ASSUME ControlInv, DataInv, AgreeInv, [Next]_vars
  PROVE  AgreeInv'
<1>1. ASSUME ~up' PROVE AgreeInv'
  BY <1>1 DEF AgreeInv
<1>2. \A e \in Ends, code \in Codes : Fail(e, code) => ~up'
  BY DEF Fail
<1>3. CASE Sender
  BY <1>3, AgreeSender
<1>4. CASE Receiver
  BY <1>4, AgreeReceiver
<1>5. CASE SendFails \/ StreamFails
  BY <1>1, <1>2, <1>5, FaultsFail
<1>6. CASE Break
  BY <1>1, <1>6 DEF Break
<1>7. CASE \E e \in Ends : Handler(e)
  <2>1. PICK e \in Ends : Handler(e)
    BY <1>7
  <2>2. CASE OnRead(e)
    <3>1. /\ UNCHANGED <<st, wire, inbox, up, written, base, progress>>
          /\ pc[e] = "idle" /\ cnt' = (IF e = "rcv" THEN 0 ELSE cnt)
      BY <2>2 DEF OnRead, net
    <3>2. pc \in [Ends -> Places]
      BY DEF ControlInv, ControlOK
    <3>3. NotReported' = NotReported
      <4>1. CASE e = "snd"
        <5>1. pc'["rcv"] = pc["rcv"] /\ cnt' = cnt
          BY <2>2, <3>1, <3>2, <4>1, TheEnds DEF OnRead, Goto
        <5> QED
          BY <5>1 DEF NotReported
      <4>2. CASE e = "rcv"
        BY <3>1, <4>2 DEF NotReported
      <4> QED
        BY <4>1, <4>2, TheEnds
    <3>4. Heard' = Heard
      BY <3>1 DEF Heard
    <3>5. UNCHANGED <<st, up, written, base, progress>>
      BY <3>1
    <3> QED
      BY <3>3, <3>4, <3>5, AgreeSame
  <2>3. CASE Validate(e) \/ Acknowledged(e)
    BY <2>3, AgreeHandshake
  <2>4. CASE HandshakeNothing(e)
    <3>1. /\ UNCHANGED <<st, wire, inbox, up, cnt, written, base, progress>>
          /\ pc[e] \in {"validate", "ack"} /\ pc' = [pc EXCEPT ![e] = "idle"]
      BY <2>4 DEF HandshakeNothing, Goto, net, rcv
    <3>2. pc \in [Ends -> Places]
      BY DEF ControlInv, ControlOK
    <3>3. NotReported' = NotReported
      BY <3>1, <3>2, TheEnds DEF NotReported
    <3>4. Heard' = Heard
      BY <3>1 DEF Heard
    <3>5. UNCHANGED <<st, up, written, base, progress>>
      BY <3>1
    <3> QED
      BY <3>3, <3>4, <3>5, AgreeSame
  <2>5. CASE OnClose(e)
    BY <1>1, <1>2, <2>5, FaultsFail
  <2> QED
    BY <2>1, <2>2, <2>3, <2>4, <2>5 DEF Handler
<1>8. CASE \E e \in Ends : Arrive(e)
  BY <1>8, AgreeArrive
<1>9. CASE \E e \in Ends : OnTimeout(e)
  BY <1>1, <1>2, <1>9, FaultsFail
<1>10. CASE UNCHANGED vars
  <2>1. UNCHANGED <<st, pc, wire, inbox, up, cnt, written, base, progress>>
    BY <1>10 DEF vars, net, rcv
  <2> QED
    BY <2>1, AgreeSame DEF Heard, NotReported
<1> QED
  BY <1>3, <1>4, <1>5, <1>6, <1>7, <1>8, <1>9, <1>10 DEF Next

-----------------------------------------------------------------------------
(* The theorems. *)

(* The inductive invariant of a transfer holds in every behaviour. *)
THEOREM TransferInvariant == Spec => [](ControlInv /\ DataInv /\ AgreeInv)
<1>1. Init => ControlInv /\ DataInv /\ AgreeInv
  BY ControlInit, DataInit, AgreeInit
<1>2. ControlInv /\ DataInv /\ AgreeInv /\ [Next]_vars => (ControlInv /\ DataInv /\ AgreeInv)'
  BY ControlNext, DataNext, AgreeNext
<1> QED
  BY <1>1, <1>2, PTL DEF Spec

(* OnSocketEvent_, SendData_ and RecvData_ keep every variable in its type, *)
(* and no connection holds more than Cap, whatever the stream, the blocks   *)
(* and the buffers are.                                                     *)
THEOREM TransferTypeCorrect == Spec => []TypeOK
<1>1. ControlInv /\ DataInv => TypeOK
  BY DEF ControlInv, ControlOK, DataInv, DataOK, TypeOK, Codes
<1> QED
  BY <1>1, TransferInvariant, PTL

(* The receiver's stream is always a beginning of the sender's: RecvData_   *)
(* writes every unit once and in its place, however SendData_ and the       *)
(* connection cut the blocks and wherever the transfer was taken up again.  *)
THEOREM TransferWritesPrefix == Spec => []PrefixWritten
<1>1. DataInv => PrefixWritten
  BY DEF DataInv
<1> QED
  BY <1>1, TransferInvariant, PTL

(* dwProgress of both sides counts what WriteFileStream wrote, each unit of *)
(* content once.                                                            *)
THEOREM TransferProgressAgrees == Spec => []ProgressAgrees
<1>1. AgreeInv => ProgressAgrees
  BY AgreeInvIs
<1> QED
  BY <1>1, TransferInvariant, PTL

-----------------------------------------------------------------------------
(* What the users see. *)

WrittenIs == Len(written) \in 0 .. Len(Stream)

(* To the users nothing has happened yet. *)
LEMMA ServiceInit ==
  ASSUME Init
  PROVE  Service!Init
<1>1. Len(written) \in 0 .. Len(Stream)
  BY DataInit, WrittenBound DEF DataInv
<1> QED
  BY <1>1, TheEnds DEF Init, Service!Init, Service!Ends

(* Every step is a step of TransferService, or changes nothing that it has. *)
LEMMA ServiceNext ==
  ASSUME ControlInv, DataInv, WrittenIs, WrittenIs', [Next]_vars
  PROVE  [Service!Next]_(Service!vars)
<1> DEFINE w == Len(written)
<1>0. /\ told \in [Ends -> {"nothing", "start", "complete", "error"}] /\ StageInv /\ DataOK /\ PosInv
      /\ BlockInv /\ st \in [Ends -> {"connected", "connect", "established", "none"}]
      /\ Service!Ends = Ends
  BY DEF ControlInv, ControlOK, DataInv, Service!Ends, Ends
<1>1. ASSUME UNCHANGED <<told, written>> PROVE [Service!Next]_(Service!vars)
  BY <1>1 DEF Service!vars
<1>2. ASSUME NEW e \in Ends, NEW code \in Codes, st[e] # "none", Fail(e, code)
      PROVE  Service!Next
  <2>1. told' = [told EXCEPT ![e] = "error"] /\ written' = written
    BY <1>2 DEF Fail, Tell, rcv
  <2>2. told[e] \in {"nothing", "start"}
    BY <1>0, <1>2 DEF StageInv, Handshaking
  <2> QED
    BY <1>0, <2>1, <2>2 DEF Service!Next, Service!Fail
<1>3. CASE Sender
  <2>1. CASE SndComplete
    <3>1. /\ pc["snd"] = "read" /\ inbox["snd"] # <<>> /\ Head(inbox["snd"]).t = "completeAck"
          /\ told' = [told EXCEPT !["snd"] = "complete"] /\ written' = written /\ Read("snd", 1)
      BY <2>1 DEF SndComplete, Tell, rcv
    <3>2. told["snd"] = "start"
      BY <1>0, <3>1, Running, TheEnds DEF StageInv
    <3>3. Head(inbox["snd"]) \in Reports
      BY <1>0, <3>1, ReadOne, TheEnds DEF Reports
    <3>4. told["rcv"] = "complete"
      BY <1>0, <3>1, <3>3 DEF PosInv
    <3> QED
      BY <3>1, <3>2, <3>4 DEF Service!Next, Service!SenderCompletes
  <2>2. CASE ~SndComplete
    <3>1. UNCHANGED <<told, written>>
      BY <1>3, <2>2 DEF Sender, SndPosMissing, SndPos, SndProgress, SndReadAll, SndFlush, SndFill,
                        rcv, user
    <3> QED
      BY <1>1, <3>1
  <2> QED
    BY <2>1, <2>2
<1>4. CASE Receiver
  <2>1. CASE RcvChunk
    <3>1. told' = told /\ pc["rcv"] = "chunk"
      BY <2>1 DEF RcvChunk, user
    <3>2. told["rcv"] = "start"
      BY <1>0, <3>1, Running, TheEnds DEF StageInv
    <3> DEFINE n == Smaller(Want, Len(inbox["rcv"]))
    <3>3. Len(written') = w + n /\ w \in Nat /\ n \in Nat /\ n > 0
      <4>1. Len(written') = w + n /\ w \in Nat /\ n \in Nat
        BY <2>1, ChunkReads
      <4>2. n > 0
        BY <2>1 DEF RcvChunk
      <4> QED
        BY <4>1, <4>2
    <3> DEFINE v == Len(written')
    <3>4. v \in 0 .. Len(Stream)
      BY DEF WrittenIs
    <3> HIDE DEF n, w, v
    <3>5. v \in w + 1 .. Len(Stream)
      BY <3>3, <3>4, Parameters DEF v
    <3> QED
      BY <3>1, <3>2, <3>5 DEF Service!Next, Service!Write, v, w
  <2>2. CASE RcvComplete
    <3>1. /\ pc["rcv"] = "complete" /\ told' = [told EXCEPT !["rcv"] = "complete"] /\ written' = written
      BY <2>2 DEF RcvComplete, Tell, rcv
    <3>2. told["rcv"] = "start"
      BY <1>0, <3>1, Running, TheEnds DEF StageInv
    <3>3. Len(written) = Len(Stream)
      BY <1>0, <3>1 DEF BlockInv
    <3> QED
      BY <3>1, <3>2, <3>3 DEF Service!Next, Service!ReceiverCompletes
  <2>3. CASE RcvRefused
    BY <1>2, <2>3, FaultsFail, TheEnds
  <2>4. CASE RcvType \/ RcvBlock \/ RcvNothing \/ RcvEnd
    <3>1. UNCHANGED <<told, written>>
      BY <2>4 DEF RcvType, RcvBlock, RcvNothing, RcvEnd, rcv, user
    <3> QED
      BY <1>1, <3>1
  <2> QED
    BY <1>4, <2>1, <2>2, <2>3, <2>4 DEF Receiver
<1>5. CASE SendFails \/ StreamFails
  BY <1>2, <1>5, FaultsFail
<1>6. CASE Break
  BY <1>1, <1>6 DEF Break, rcv, user
<1>7. CASE \E e \in Ends : Handler(e)
  <2>1. PICK e \in Ends : Handler(e)
    BY <1>7
  <2>2. CASE OnRead(e) \/ HandshakeNothing(e)
    BY <1>1, <2>2 DEF OnRead, HandshakeNothing, rcv, user
  <2>3. CASE Validate(e) \/ Acknowledged(e)
    <3>1. told' = [told EXCEPT ![e] = "start"] /\ written' = written /\ Handshaking(e)
      BY <2>3 DEF Validate, Acknowledged, Established, Tell, Handshaking, rcv
    <3>2. told[e] = "nothing"
      BY <1>0, <3>1 DEF StageInv
    <3> QED
      BY <1>0, <3>1, <3>2 DEF Service!Next, Service!Start
  <2>4. CASE OnClose(e)
    BY <1>2, <2>4, FaultsFail
  <2> QED
    BY <2>1, <2>2, <2>3, <2>4 DEF Handler
<1>8. CASE \E e \in Ends : Arrive(e)
  BY <1>1, <1>8 DEF Arrive, rcv, user
<1>9. CASE \E e \in Ends : OnTimeout(e)
  BY <1>2, <1>9, FaultsFail
<1>10. CASE UNCHANGED vars
  BY <1>1, <1>10 DEF vars, rcv, user
<1> QED
  BY <1>3, <1>4, <1>5, <1>6, <1>7, <1>8, <1>9, <1>10 DEF Next

(* What OnSocketEvent_ tells through pfnOnEvent and writes to the stream is *)
(* a behaviour of TransferService: nothing is written before FSS_ON_START,  *)
(* the receiver is told FSS_ON_COMPLETE only when it has everything, the    *)
(* sender only after the receiver, and neither hears anything after that or *)
(* after an error.                                                          *)
THEOREM TransferImplementsService == Spec => ImplementsService
<1>1. ControlInv /\ DataInv => WrittenIs
  BY WrittenBound DEF DataInv, WrittenIs
<1>2. Init => Service!Init
  BY ServiceInit
<1>3. ControlInv /\ DataInv /\ WrittenIs /\ WrittenIs' /\ [Next]_vars => [Service!Next]_(Service!vars)
  BY ServiceNext
<1> QED
  BY <1>1, <1>2, <1>3, TransferInvariant, PTL DEF Spec, ImplementsService, Service!Spec

=============================================================================
