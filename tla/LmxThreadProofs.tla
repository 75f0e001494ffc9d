-------------------------- MODULE LmxThreadProofs --------------------------
(* Proofs about the message thread, for any messages, delays and width of   *)
(* the tick: the types of its variables, that no message is lost, doubled   *)
(* or freed twice between its lists, and that it is a LmxMailbox.           *)
EXTENDS LmxThread, SequenceTheorems, FiniteSetTheorems, WellFoundedInduction, TLAPS

-----------------------------------------------------------------------------
(* Numbers. *)

(* A set of positions that is not empty has a first one, ... *)
LEMMA FirstPosition ==
  ASSUME NEW P \in SUBSET Nat, P # {}
  PROVE  \E i \in P : \A j \in P : i <= j
<1> DEFINE Less == {ss \in Nat \X Nat : ss[1] < ss[2]}
<1>1. IsWellFoundedOn(Less, Nat)
  BY NatLessThanWellFounded DEF OpToRel
<1>2. \A i, j \in Nat : j < i => <<j, i>> \in Less
  OBVIOUS
<1> HIDE DEF Less
<1>3. PICK i \in P : \A j \in P : ~(<<j, i>> \in Less)
  BY <1>1, WFMin, Zenon
<1>4. ASSUME NEW j \in P PROVE i <= j
  <2>1. i \in Nat /\ j \in Nat
    OBVIOUS
  <2>2. ~(j < i)
    BY <1>2, <1>3, <2>1, Zenon
  <2> QED
    BY <2>1, <2>2
<1> QED
  BY <1>4

(* ... and a last one if there is an end. *)
LEMMA LastPosition ==
  ASSUME NEW n \in Nat, NEW P \in SUBSET (1 .. n), P # {}
  PROVE  \E i \in P : \A j \in P : j <= i
<1> DEFINE R == {n - i : i \in P}
<1>1. R \in SUBSET Nat /\ R # {}
  <2>1. \A i \in P : n - i \in Nat
    OBVIOUS
  <2> QED
    BY <2>1
<1>2. PICK r \in R : \A s \in R : r <= s
  BY <1>1, FirstPosition
<1>3. PICK i \in P : r = n - i
  BY <1>2
<1>4. \A j \in P : j <= i
  <2> TAKE j \in P
  <2>1. n - j \in R
    OBVIOUS
  <2> QED
    BY <2>1, <1>2, <1>3
<1> QED
  BY <1>4

(* Division by a positive number makes no number larger. *)
LEMMA Quotient ==
  ASSUME NEW x \in Nat, NEW c \in Nat \ {0}
  PROVE  x \div c \in 0 .. x
<1>1. x \div c \in Int
  OBVIOUS
<1>2. c * (x \div c) <= x /\ x < c * ((x \div c) + 1)
  OBVIOUS
<1> DEFINE k == x \div c
<1> HIDE DEF k
<1>3. k \in Int /\ c * k <= x /\ x < c * (k + 1)
  BY <1>1, <1>2 DEF k
<1>4. k >= 0
  BY <1>3
<1>5. k <= x
  BY <1>3, <1>4
<1> QED
  BY <1>3, <1>4, <1>5 DEF k

(* Division with remainder, and that there is only one way to write it. *)
LEMMA ProductGrows ==
  ASSUME NEW B \in Nat, NEW p \in Int, NEW w \in Int, p < w
  PROVE  B * p + B <= B * w
<1>1. w - p - 1 \in Nat
  OBVIOUS
<1>2. B * (w - p - 1) \in Nat
  BY <1>1
<1>3. B * (w - p - 1) = B * w - B * p - B
  OBVIOUS
<1> QED
  BY <1>2, <1>3

(* A number is its quotient times the divisor, and the residue. *)
LEMMA Division ==
  ASSUME NEW B \in Nat \ {0}, NEW x \in Nat
  PROVE  /\ x \div B \in Nat /\ x % B \in 0 .. B - 1 /\ x = B * (x \div B) + (x % B)
<1>1. /\ x \div B \in Int /\ x % B \in 0 .. B - 1 /\ x = B * (x \div B) + (x % B)
  OBVIOUS
<1>2. x \div B >= 0
  <2> SUFFICES ASSUME x \div B < 0 PROVE FALSE
    BY <1>1
  <2>1. B * (x \div B) + B <= B * 0
    BY <1>1, ProductGrows
  <2> QED
    BY <2>1, <1>1
<1> QED
  BY <1>1, <1>2

(* A number has one quotient and one residue. *)
LEMMA DivisionUnique ==
  ASSUME NEW B \in Nat \ {0}, NEW p \in Int, NEW w \in Int, NEW r \in 0 .. B - 1, NEW s \in 0 .. B - 1,
         B * p + r = B * w + s
  PROVE  p = w /\ r = s
<1>1. ASSUME p < w PROVE FALSE
  <2> DEFINE a == B * p  b == B * w
  <2>1. a + B <= b /\ a + r = b + s /\ a \in Int /\ b \in Int
    BY <1>1, ProductGrows
  <2> HIDE DEF a, b
  <2> QED
    BY <2>1
<1>2. ASSUME w < p PROVE FALSE
  <2> DEFINE a == B * p  b == B * w
  <2>1. b + B <= a /\ a + r = b + s /\ a \in Int /\ b \in Int
    BY <1>2, ProductGrows
  <2> HIDE DEF a, b
  <2> QED
    BY <2>1
<1>3. p = w
  BY <1>1, <1>2
<1>4. B * p = B * w /\ B * w \in Int
  BY <1>3
<1> QED
  BY <1>3, <1>4

(* The residue of a number is what any way to divide it leaves. *)
LEMMA ResidueIs ==
  ASSUME NEW M \in Nat \ {0}, NEW k \in Int, NEW r \in 0 .. M - 1
  PROVE  (M * k + r) % M = r
<1> DEFINE x == M * k + r
<1>1. x \in Int
  OBVIOUS
<1>2. x \div M \in Int /\ x % M \in 0 .. M - 1 /\ M * (x \div M) + (x % M) = x
  <2> HIDE DEF x
  <2> QED
    BY <1>1
<1> DEFINE p == x \div M  s == x % M
<1>3. p \in Int /\ s \in 0 .. M - 1 /\ M * p + s = M * k + r
  BY <1>2
<1> HIDE DEF p, s
<1>4. s = r
  BY <1>3, DivisionUnique
<1> QED
  BY <1>4 DEF s

(* The residue of a sum. *)
LEMMA ResidueSum ==
  ASSUME NEW M \in Nat \ {0}, NEW x \in Nat, NEW d \in Nat
  PROVE  ((x % M) + d) % M = (x + d) % M
<1> DEFINE p == x \div M  a == x % M  w == (x + d) \div M  r == (x + d) % M
<1>1. /\ p \in Int /\ a \in 0 .. M - 1 /\ x = M * p + a
      /\ w \in Int /\ r \in 0 .. M - 1 /\ x + d = M * w + r
  <2>1. x + d \in Nat
    OBVIOUS
  <2>2. p \in Nat /\ a \in 0 .. M - 1 /\ x = M * p + a
    BY Division
  <2>3. w \in Nat /\ r \in 0 .. M - 1 /\ x + d = M * w + r
    <3> DEFINE y == x + d
    <3> HIDE DEF y
    <3>1. y \in Nat
      BY <2>1 DEF y
    <3>2. y \div M \in Nat /\ y % M \in 0 .. M - 1 /\ y = M * (y \div M) + (y % M)
      BY <3>1, Division
    <3> QED
      BY <3>2 DEF y
  <2> QED
    BY <2>2, <2>3
<1> HIDE DEF p, a, w, r
<1>2. M * (w - p) = M * w - M * p /\ w - p \in Int
  BY <1>1
<1>3. a + d = M * (w - p) + r
  BY <1>1, <1>2
<1>4. (M * (w - p) + r) % M = r
  BY <1>1, <1>2, ResidueIs
<1>5. (a + d) % M = r
  BY <1>3, <1>4
<1> QED
  BY <1>5 DEF a, r

(* The difference of two residues whose numbers are less than M apart. *)
LEMMA ResidueDifference ==
  ASSUME NEW M \in Nat \ {0}, NEW x \in Nat, NEW y \in Nat, x - y < M, y - x < M
  PROVE  ((x % M) - (y % M)) % M = IF y <= x THEN x - y ELSE M + x - y
<1> DEFINE p == x \div M  a == x % M  w == y \div M  b == y % M
<1>1. /\ p \in Int /\ a \in 0 .. M - 1 /\ x = M * p + a
      /\ w \in Int /\ b \in 0 .. M - 1 /\ y = M * w + b
  BY Division
<1> HIDE DEF p, a, w, b
<1>2. /\ M * (w - p) = M * w - M * p /\ w - p \in Int
      /\ M * (w - p - 1) = M * w - M * p - M /\ w - p - 1 \in Int
  BY <1>1
<1>3. CASE y <= x
  <2>1. a - b = M * (w - p) + (x - y) /\ x - y \in 0 .. M - 1
    BY <1>1, <1>2, <1>3
  <2>2. (M * (w - p) + (x - y)) % M = x - y
    BY <2>1, <1>2, ResidueIs
  <2>3. (a - b) % M = x - y
    BY <2>1, <2>2
  <2> QED
    BY <2>3, <1>3 DEF a, b
<1>4. CASE ~(y <= x)
  <2>1. a - b = M * (w - p - 1) + (M + x - y) /\ M + x - y \in 0 .. M - 1
    BY <1>1, <1>2, <1>4
  <2>2. (M * (w - p - 1) + (M + x - y)) % M = M + x - y
    BY <2>1, <1>2, ResidueIs
  <2>3. (a - b) % M = M + x - y
    BY <2>1, <2>2
  <2> QED
    BY <2>3, <1>4 DEF a, b
<1> QED
  BY <1>3, <1>4

-----------------------------------------------------------------------------
(* Sequences. *)

(* The elements of a sequence, and when they are all different. *)
LEMMA Contents ==
  ASSUME NEW S, NEW s \in Seq(S)
  PROVE  /\ ToSet(s) = {s[i] : i \in 1 .. Len(s)}
         /\ ToSet(s) \subseteq S
         /\ IsInjective(s) <=> \A i, j \in 1 .. Len(s) : s[i] = s[j] => i = j
BY LenProperties DEF ToSet, IsInjective

(* The empty sequence, and one element. *)
LEMMA EmptyContents == ToSet(<<>>) = {} /\ IsInjective(<<>>)
BY DEF ToSet, IsInjective

(* A sequence of one element. *)
LEMMA SingleContents ==
  ASSUME NEW x
  PROVE  ToSet(<<x>>) = {x} /\ IsInjective(<<x>>)
BY DEF ToSet, IsInjective

(* The elements of two sequences behind one another. *)
LEMMA ConcatElements ==
  ASSUME NEW S, NEW s \in Seq(S), NEW t \in Seq(S)
  PROVE  /\ s \o t \in Seq(S) /\ Len(s \o t) = Len(s) + Len(t)
         /\ Len(s) \in Nat /\ Len(t) \in Nat
         /\ \A i \in 1 .. Len(s) : (s \o t)[i] = s[i]
         /\ \A i \in 1 .. Len(t) : (s \o t)[Len(s) + i] = t[i]
<1>1. \A i \in 1 .. Len(t) : Len(s) + i \in 1 .. Len(s) + Len(t) /\ ~(Len(s) + i <= Len(s))
                             /\ Len(s) + i - Len(s) = i
  BY LenProperties
<1> QED
  BY <1>1, ConcatProperties, LenProperties

(* What a concatenation holds, and when it repeats nothing. *)
LEMMA ConcatContents ==
  ASSUME NEW S, NEW s \in Seq(S), NEW t \in Seq(S)
  PROVE  /\ s \o t \in Seq(S)
         /\ ToSet(s \o t) = ToSet(s) \cup ToSet(t)
         /\ IsInjective(s \o t)
              <=> IsInjective(s) /\ IsInjective(t) /\ ToSet(s) \cap ToSet(t) = {}
<1>1. /\ s \o t \in Seq(S) /\ Len(s \o t) = Len(s) + Len(t)
      /\ Len(s) \in Nat /\ Len(t) \in Nat
      /\ \A i \in 1 .. Len(s) : (s \o t)[i] = s[i]
      /\ \A i \in 1 .. Len(t) : (s \o t)[Len(s) + i] = t[i]
  BY ConcatElements
<1> DEFINE u == s \o t  a == Len(s)  b == Len(t)
<1> HIDE DEF u, a, b
<1>2. /\ u \in Seq(S) /\ Len(u) = a + b /\ a \in Nat /\ b \in Nat
      /\ \A i \in 1 .. a : u[i] = s[i]
      /\ \A i \in 1 .. b : u[a + i] = t[i]
  BY <1>1 DEF u, a, b
<1>3. \A i \in 1 .. a + b : i \in 1 .. a \/ \E j \in 1 .. b : i = a + j
  <2> TAKE i \in 1 .. a + b
  <2>1. CASE i <= a
    BY <2>1, <1>2
  <2>2. CASE i > a
    <3>1. i - a \in 1 .. b /\ i = a + (i - a)
      BY <2>2, <1>2
    <3> QED
      BY <3>1
  <2> QED
    BY <2>1, <2>2, <1>2
<1>4. /\ ToSet(u) = {u[i] : i \in 1 .. a + b}
      /\ ToSet(s) = {s[i] : i \in 1 .. a}
      /\ ToSet(t) = {t[i] : i \in 1 .. b}
      /\ IsInjective(u) <=> \A i, j \in 1 .. a + b : u[i] = u[j] => i = j
      /\ IsInjective(s) <=> \A i, j \in 1 .. a : s[i] = s[j] => i = j
      /\ IsInjective(t) <=> \A i, j \in 1 .. b : t[i] = t[j] => i = j
  <2>1. s \in Seq(S) /\ t \in Seq(S) /\ Len(s) = a /\ Len(t) = b
    BY DEF a, b
  <2>2. /\ ToSet(u) = {u[i] : i \in 1 .. Len(u)}
        /\ IsInjective(u) <=> \A i, j \in 1 .. Len(u) : u[i] = u[j] => i = j
    BY <1>2, Contents, ZenonT(60)
  <2>3. /\ ToSet(s) = {s[i] : i \in 1 .. Len(s)}
        /\ IsInjective(s) <=> \A i, j \in 1 .. Len(s) : s[i] = s[j] => i = j
    BY <2>1, Contents, ZenonT(60)
  <2>4. /\ ToSet(t) = {t[i] : i \in 1 .. Len(t)}
        /\ IsInjective(t) <=> \A i, j \in 1 .. Len(t) : t[i] = t[j] => i = j
    BY <2>1, Contents, ZenonT(60)
  <2>5. Len(u) = a + b
    BY <1>2
  <2> QED
    BY <2>1, <2>2, <2>3, <2>4, <2>5, ZenonT(60)
<1>5. ToSet(u) = ToSet(s) \cup ToSet(t)
  <2>1. ToSet(s) \subseteq ToSet(u)
    BY <1>2, <1>4
  <2>2. ToSet(t) \subseteq ToSet(u)
    <3>1. \A i \in 1 .. b : a + i \in 1 .. a + b
      BY <1>2
    <3> QED
      BY <3>1, <1>2, <1>4
  <2>3. ToSet(u) \subseteq ToSet(s) \cup ToSet(t)
    <3>1. ASSUME NEW i \in 1 .. a + b PROVE u[i] \in ToSet(s) \cup ToSet(t)
      <4>1. CASE i \in 1 .. a
        <5>1. u[i] = s[i] /\ s[i] \in ToSet(s)
          BY <4>1, <1>2, <1>4
        <5> QED
          BY <5>1
      <4>2. CASE \E j \in 1 .. b : i = a + j
        <5>1. PICK j \in 1 .. b : i = a + j
          BY <4>2
        <5>2. u[i] = t[j] /\ t[j] \in ToSet(t)
          BY <5>1, <1>2, <1>4
        <5> QED
          BY <5>2
      <4> QED
        BY <4>1, <4>2, <1>3
    <3> QED
      BY <3>1, <1>4
  <2> QED
    BY <2>1, <2>2, <2>3
<1>6. ASSUME IsInjective(u)
      PROVE  IsInjective(s) /\ IsInjective(t) /\ ToSet(s) \cap ToSet(t) = {}
  <2>1. IsInjective(s)
    <3>1. \A i \in 1 .. a : i \in 1 .. a + b
      BY <1>2
    <3> QED
      BY <3>1, <1>2, <1>4, <1>6
  <2>2. IsInjective(t)
    <3>1. ASSUME NEW i \in 1 .. b, NEW j \in 1 .. b, t[i] = t[j] PROVE i = j
      <4>1. a + i \in 1 .. a + b /\ a + j \in 1 .. a + b
        BY <1>2
      <4>2. a + i = a + j
        BY <4>1, <3>1, <1>2, <1>4, <1>6
      <4> QED
        BY <4>2, <1>2
    <3> QED
      BY <3>1, <1>4
  <2>3. ASSUME NEW i \in 1 .. a, NEW j \in 1 .. b PROVE s[i] # t[j]
    <3>1. i \in 1 .. a + b /\ a + j \in 1 .. a + b /\ i # a + j
      BY <1>2
    <3> QED
      BY <3>1, <1>2, <1>4, <1>6
  <2> QED
    BY <2>1, <2>2, <2>3, <1>4
<1>7. ASSUME IsInjective(s), IsInjective(t), ToSet(s) \cap ToSet(t) = {}
      PROVE  IsInjective(u)
  <2>1. ASSUME NEW i \in 1 .. a + b, NEW j \in 1 .. a + b, u[i] = u[j] PROVE i = j
    <3>1. CASE i \in 1 .. a /\ j \in 1 .. a
      BY <3>1, <2>1, <1>2, <1>4, <1>7
    <3>2. CASE i \in 1 .. a /\ j \notin 1 .. a
      <4>1. PICK k \in 1 .. b : j = a + k
        BY <3>2, <1>3
      <4>2. s[i] = t[k] /\ s[i] \in ToSet(s) /\ t[k] \in ToSet(t)
        BY <4>1, <3>2, <2>1, <1>2, <1>4
      <4> QED
        BY <4>2, <1>7
    <3>3. CASE i \notin 1 .. a /\ j \in 1 .. a
      <4>1. PICK k \in 1 .. b : i = a + k
        BY <3>3, <1>3
      <4>2. s[j] = t[k] /\ s[j] \in ToSet(s) /\ t[k] \in ToSet(t)
        BY <4>1, <3>3, <2>1, <1>2, <1>4
      <4> QED
        BY <4>2, <1>7
    <3>4. CASE i \notin 1 .. a /\ j \notin 1 .. a
      <4>1. PICK k \in 1 .. b : i = a + k
        BY <3>4, <1>3
      <4>2. PICK l \in 1 .. b : j = a + l
        BY <3>4, <1>3
      <4>3. t[k] = t[l]
        BY <4>1, <4>2, <2>1, <1>2
      <4> QED
        BY <4>1, <4>2, <4>3, <1>4, <1>7
    <3> QED
      BY <3>1, <3>2, <3>3, <3>4
  <2> QED
    BY <2>1, <1>4
<1> QED
  BY <1>2, <1>5, <1>6, <1>7 DEF u

(* The same as one fact about the three sequences. *)
Joined(S, u, s, t) ==
  /\ u \in Seq(S) /\ ToSet(u) = ToSet(s) \cup ToSet(t)
  /\ IsInjective(u) <=> IsInjective(s) /\ IsInjective(t) /\ ToSet(s) \cap ToSet(t) = {}

(* A concatenation is its first part and then its second. *)
LEMMA ConcatJoins ==
  ASSUME NEW S, NEW s \in Seq(S), NEW t \in Seq(S)
  PROVE  Joined(S, s \o t, s, t)
BY ConcatContents DEF Joined

(* What an appended sequence holds. *)
LEMMA AppendContents ==
  ASSUME NEW S, NEW s \in Seq(S), NEW x \in S
  PROVE  /\ Append(s, x) \in Seq(S)
         /\ ToSet(Append(s, x)) = ToSet(s) \cup {x}
         /\ IsInjective(s) /\ x \notin ToSet(s) => IsInjective(Append(s, x))
<1>1. Append(s, x) = s \o <<x>> /\ <<x>> \in Seq(S)
  BY AppendIsConcat
<1> QED
  <2> DEFINE e == <<x>>
  <2>1. ToSet(e) = {x} /\ IsInjective(e) /\ e \in Seq(S)
    BY <1>1, SingleContents
  <2>2. Append(s, x) = s \o e
    BY <1>1
  <2> HIDE DEF e
  <2>3. /\ s \o e \in Seq(S) /\ ToSet(s \o e) = ToSet(s) \cup ToSet(e)
        /\ IsInjective(s \o e) <=> IsInjective(s) /\ IsInjective(e) /\ ToSet(s) \cap ToSet(e) = {}
    BY <2>1, ConcatContents
  <2> QED
    BY <2>1, <2>2, <2>3

(* What is left when the head of a sequence is taken. *)
LEMMA TailContents ==
  ASSUME NEW S, NEW s \in Seq(S), s # <<>>, IsInjective(s)
  PROVE  /\ Head(s) \in ToSet(s) /\ Head(s) \in S
         /\ Tail(s) \in Seq(S) /\ IsInjective(Tail(s))
         /\ ToSet(Tail(s)) = ToSet(s) \ {Head(s)}
<1>1. /\ <<Head(s)>> \in Seq(S) /\ Tail(s) \in Seq(S) /\ Head(s) \in S
      /\ s = <<Head(s)>> \o Tail(s)
  OBVIOUS
<1> DEFINE h == <<Head(s)>>  r == Tail(s)
<1>2. ToSet(h) = {Head(s)}
  BY SingleContents
<1> HIDE DEF h, r
<1>3. h \in Seq(S) /\ r \in Seq(S) /\ s = h \o r
  BY <1>1 DEF h, r
<1>4. ToSet(s) = ToSet(h) \cup ToSet(r) /\ IsInjective(r) /\ ToSet(h) \cap ToSet(r) = {}
  BY <1>3, ConcatContents
<1> QED
  BY <1>1, <1>2, <1>4 DEF r

(* A sequence is what is before a place and what is behind it. *)
LEMMA CutSeq ==
  ASSUME NEW S, NEW s \in Seq(S), NEW n \in 0 .. Len(s)
  PROVE  /\ SubSeq(s, 1, n) \in Seq(S) /\ SubSeq(s, n + 1, Len(s)) \in Seq(S)
         /\ Len(SubSeq(s, 1, n)) = n /\ Len(SubSeq(s, n + 1, Len(s))) = Len(s) - n
         /\ \A i \in 1 .. n : SubSeq(s, 1, n)[i] = s[i]
         /\ SubSeq(s, 1, n) \o SubSeq(s, n + 1, Len(s)) = s
<1>1. Len(s) \in Nat /\ n \in Nat /\ \A i \in 1 .. Len(s) : s[i] \in S
  BY LenProperties
<1>2. /\ SubSeq(s, 1, n) \in Seq(S) /\ Len(SubSeq(s, 1, n)) = n
      /\ \A i \in 1 .. n : SubSeq(s, 1, n)[i] = s[i]
  <2>1. \A i \in 1 .. n : s[i] \in S
    BY <1>1
  <2>2. /\ SubSeq(s, 1, n) \in Seq(S)
        /\ Len(SubSeq(s, 1, n)) = IF 1 <= n THEN n - 1 + 1 ELSE 0
        /\ \A i \in 1 .. n - 1 + 1 : SubSeq(s, 1, n)[i] = s[1 + i - 1]
    BY <2>1, <1>1, SubSeqProperties
  <2>3. n - 1 + 1 = n /\ \A i \in 1 .. n : 1 + i - 1 = i
    BY <1>1
  <2> QED
    BY <2>2, <2>3, <1>1
<1>3. SubSeq(s, n + 1, Len(s)) \in Seq(S) /\ Len(SubSeq(s, n + 1, Len(s))) = Len(s) - n
  <2>1. \A i \in n + 1 .. Len(s) : s[i] \in S
    BY <1>1
  <2>2. /\ SubSeq(s, n + 1, Len(s)) \in Seq(S)
        /\ Len(SubSeq(s, n + 1, Len(s))) =
             IF n + 1 <= Len(s) THEN Len(s) - (n + 1) + 1 ELSE 0
    BY <2>1, <1>1, SubSeqProperties
  <2> QED
    BY <2>2, <1>1
<1>4. SubSeq(s, 1, n) \o SubSeq(s, n + 1, Len(s)) = s
  <2>1. CASE Len(s) = 0
    <3>1. s = <<>> /\ n = 0
      BY <2>1, EmptySeq
    <3> QED
      BY <3>1
  <2>2. CASE Len(s) # 0
    <3>1. 1 \in 1 .. Len(s) + 1 /\ n \in 1 - 1 .. Len(s) /\ Len(s) \in n .. Len(s)
      BY <1>1
    <3> QED
      BY <3>1, ConcatAdjacentSubSeq, SubSeqFull
  <2> QED
    BY <2>1, <2>2
<1> QED
  BY <1>2, <1>3, <1>4

(* Cut in two. *)
LEMMA CutContents ==
  ASSUME NEW S, NEW s \in Seq(S), NEW n \in 0 .. Len(s)
  PROVE  /\ SubSeq(s, 1, n) \in Seq(S) /\ SubSeq(s, n + 1, Len(s)) \in Seq(S)
         /\ ToSet(s) = ToSet(SubSeq(s, 1, n)) \cup ToSet(SubSeq(s, n + 1, Len(s)))
         /\ IsInjective(s) <=>
              /\ IsInjective(SubSeq(s, 1, n)) /\ IsInjective(SubSeq(s, n + 1, Len(s)))
              /\ ToSet(SubSeq(s, 1, n)) \cap ToSet(SubSeq(s, n + 1, Len(s))) = {}
<1> DEFINE f == SubSeq(s, 1, n)  r == SubSeq(s, n + 1, Len(s))
<1>1. f \in Seq(S) /\ r \in Seq(S) /\ f \o r = s
  BY CutSeq
<1> HIDE DEF f, r
<1>2. /\ ToSet(s) = ToSet(f) \cup ToSet(r)
      /\ IsInjective(s) <=> IsInjective(f) /\ IsInjective(r) /\ ToSet(f) \cap ToSet(r) = {}
  <2>1. f \in Seq(S) /\ r \in Seq(S)
    BY <1>1
  <2>2. /\ ToSet(f \o r) = ToSet(f) \cup ToSet(r)
        /\ IsInjective(f \o r) <=> IsInjective(f) /\ IsInjective(r) /\ ToSet(f) \cap ToSet(r) = {}
    <3>1. Joined(S, f \o r, f, r)
      BY <2>1, ConcatJoins, Zenon
    <3> QED
      BY <3>1 DEF Joined
  <2> QED
    BY <2>2, <1>1
<1> QED
  BY <1>1, <1>2 DEF f, r

(* What a sequence holds after an insertion. *)
LEMMA InsertContents ==
  ASSUME NEW S, NEW s \in Seq(S), NEW n \in 0 .. Len(s), NEW x \in S,
         IsInjective(s), x \notin ToSet(s)
  PROVE  /\ InsertAt(s, n + 1, x) \in Seq(S)
         /\ ToSet(InsertAt(s, n + 1, x)) = ToSet(s) \cup {x}
         /\ IsInjective(InsertAt(s, n + 1, x))
<1> DEFINE f == SubSeq(s, 1, n)  r == SubSeq(s, n + 1, Len(s))  e == <<x>>
<1>1. InsertAt(s, n + 1, x) = f \o e \o r
  <2>1. (n + 1) - 1 = n
    OBVIOUS
  <2> QED
    BY <2>1 DEF InsertAt
<1>2. e \in Seq(S) /\ ToSet(e) = {x} /\ IsInjective(e)
  BY SingleContents
<1>3. /\ f \in Seq(S) /\ r \in Seq(S) /\ ToSet(s) = ToSet(f) \cup ToSet(r)
      /\ IsInjective(f) /\ IsInjective(r) /\ ToSet(f) \cap ToSet(r) = {}
  BY CutContents
<1> HIDE DEF f, r, e
<1>4. /\ f \o e \in Seq(S) /\ ToSet(f \o e) = ToSet(f) \cup {x} /\ IsInjective(f \o e)
  BY <1>2, <1>3, ConcatContents
<1>5. /\ f \o e \o r \in Seq(S) /\ ToSet(f \o e \o r) = ToSet(f) \cup {x} \cup ToSet(r)
      /\ IsInjective(f \o e \o r)
  <2> DEFINE fe == f \o e
  <2> HIDE DEF fe
  <2>1. fe \in Seq(S) /\ ToSet(fe) = ToSet(f) \cup {x} /\ IsInjective(fe)
    BY <1>4 DEF fe
  <2>2. /\ fe \o r \in Seq(S) /\ ToSet(fe \o r) = ToSet(fe) \cup ToSet(r)
        /\ IsInjective(fe \o r) <=> IsInjective(fe) /\ IsInjective(r) /\ ToSet(fe) \cap ToSet(r) = {}
    <3>1. Joined(S, fe \o r, fe, r)
      BY <2>1, <1>3, ConcatJoins, Zenon
    <3> QED
      BY <3>1 DEF Joined
  <2>3. ToSet(fe) \cap ToSet(r) = {}
    BY <2>1, <1>3
  <2>4. fe \o r \in Seq(S) /\ ToSet(fe \o r) = ToSet(f) \cup {x} \cup ToSet(r) /\ IsInjective(fe \o r)
    BY <2>1, <2>2, <2>3, <1>3
  <2> QED
    BY <2>4 DEF fe
<1> QED
  BY <1>1, <1>3, <1>5


-----------------------------------------------------------------------------
(* Lists in the order of a number that belongs to each element. *)

Ascending(f, s) == \A i, j \in 1 .. Len(s) : i <= j => f[s[i]] <= f[s[j]]

(* No elements, or one. *)
LEMMA AscendingShort ==
  ASSUME NEW S, NEW f \in [S -> Nat], NEW x \in S
  PROVE  Ascending(f, <<>>) /\ Ascending(f, <<x>>)
<1>1. f[x] <= f[x]
  OBVIOUS
<1> QED
  BY <1>1 DEF Ascending

(* Numbers that agree on the list put it in the same order. *)
LEMMA AscendingSame ==
  ASSUME NEW S, NEW s \in Seq(S), NEW f, NEW g, \A x \in ToSet(s) : f[x] = g[x], Ascending(f, s)
  PROVE  Ascending(g, s)
<1>1. \A i \in 1 .. Len(s) : f[s[i]] = g[s[i]]
  BY Contents
<1> QED
  BY <1>1 DEF Ascending

(* The elements of the part behind a place. *)
LEMMA CutBehind ==
  ASSUME NEW S, NEW s \in Seq(S), NEW n \in 0 .. Len(s)
  PROVE  \A i \in 1 .. Len(s) - n : SubSeq(s, n + 1, Len(s))[i] = s[n + i]
<1>1. \A i \in n + 1 .. Len(s) : s[i] \in S
  BY LenProperties
<1>2. \A i \in 1 .. Len(s) - (n + 1) + 1 : SubSeq(s, n + 1, Len(s))[i] = s[n + 1 + i - 1]
  BY <1>1, LenProperties, SubSeqProperties
<1>3. Len(s) - (n + 1) + 1 = Len(s) - n /\ \A i \in 1 .. Len(s) - n : n + 1 + i - 1 = n + i
  BY LenProperties
<1> QED
  BY <1>2, <1>3

(* Both parts of a list in order are in order, ... *)
LEMMA AscendingCut ==
  ASSUME NEW S, NEW s \in Seq(S), NEW n \in 0 .. Len(s), NEW f, Ascending(f, s)
  PROVE  Ascending(f, SubSeq(s, 1, n)) /\ Ascending(f, SubSeq(s, n + 1, Len(s)))
<1> DEFINE a == SubSeq(s, 1, n)  b == SubSeq(s, n + 1, Len(s))
<1>1. /\ a \in Seq(S) /\ b \in Seq(S) /\ Len(a) = n /\ Len(b) = Len(s) - n /\ Len(s) \in Nat
      /\ \A i \in 1 .. n : a[i] = s[i]
      /\ \A i \in 1 .. Len(s) - n : b[i] = s[n + i]
  BY CutSeq, CutBehind, LenProperties
<1> HIDE DEF a, b
<1>2. /\ \A i \in 1 .. n : a[i] = s[i] /\ i \in 1 .. Len(s)
      /\ \A i \in 1 .. Len(s) - n : b[i] = s[n + i] /\ n + i \in 1 .. Len(s)
  BY <1>1
<1>3. Ascending(f, a)
  BY <1>1, <1>2 DEF Ascending
<1>4. Ascending(f, b)
  <2> SUFFICES ASSUME NEW i \in 1 .. Len(b), NEW j \in 1 .. Len(b), i <= j
               PROVE  f[b[i]] <= f[b[j]]
    BY DEF Ascending
  <2>1. b[i] = s[n + i] /\ n + i \in 1 .. Len(s) /\ b[j] = s[n + j] /\ n + j \in 1 .. Len(s)
        /\ n + i <= n + j
    BY <1>1, <1>2
  <2> QED
    BY <2>1 DEF Ascending
<1> QED
  BY <1>3, <1>4 DEF a, b

(* ... and two lists in order are in order behind one another when the      *)
(* second has nothing smaller than the first.                               *)
LEMMA AscendingConcat ==
  ASSUME NEW S, NEW s \in Seq(S), NEW t \in Seq(S), NEW f, Ascending(f, s), Ascending(f, t),
         \A x \in ToSet(s), y \in ToSet(t) : f[x] <= f[y]
  PROVE  Ascending(f, s \o t)
<1> DEFINE u == s \o t  a == Len(s)  b == Len(t)
<1>1. /\ Len(u) = a + b /\ a \in Nat /\ b \in Nat
      /\ \A i \in 1 .. a : u[i] = s[i]
      /\ \A i \in 1 .. b : u[a + i] = t[i]
  BY ConcatElements
<1>2. /\ \A i, j \in 1 .. a : i <= j => f[s[i]] <= f[s[j]]
      /\ \A i, j \in 1 .. b : i <= j => f[t[i]] <= f[t[j]]
  BY DEF Ascending
<1>3. \A i \in 1 .. a, j \in 1 .. b : f[s[i]] <= f[t[j]]
  <2>1. \A i \in 1 .. a : s[i] \in ToSet(s)
    BY Contents
  <2>2. \A j \in 1 .. b : t[j] \in ToSet(t)
    BY Contents
  <2> QED
    BY <2>1, <2>2
<1> HIDE DEF u, a, b
<1>4. ASSUME NEW i \in 1 .. a + b, NEW j \in 1 .. a + b, i <= j PROVE f[u[i]] <= f[u[j]]
  <2>1. CASE j <= a
    <3>1. i \in 1 .. a /\ j \in 1 .. a
      BY <2>1, <1>1, <1>4
    <3> QED
      BY <3>1, <1>1, <1>2, <1>4
  <2>2. CASE i <= a /\ ~(j <= a)
    <3> DEFINE k == j - a
    <3>1. i \in 1 .. a /\ k \in 1 .. b /\ j = a + k
      BY <2>2, <1>1
    <3> HIDE DEF k
    <3>2. u[i] = s[i] /\ u[j] = t[k]
      BY <3>1, <1>1
    <3> QED
      BY <3>1, <3>2, <1>3
  <2>3. CASE ~(i <= a)
    <3> DEFINE k == i - a  l == j - a
    <3>1. k \in 1 .. b /\ l \in 1 .. b /\ i = a + k /\ j = a + l /\ k <= l
      BY <2>3, <1>1, <1>4
    <3> HIDE DEF k, l
    <3>2. u[i] = t[k] /\ u[j] = t[l]
      BY <3>1, <1>1
    <3> QED
      BY <3>1, <3>2, <1>2
  <2> QED
    BY <2>1, <2>2, <2>3
<1> QED
  BY <1>1, <1>4 DEF Ascending, u

(* The rest behind the head, which is the smallest. *)
LEMMA AscendingTail ==
  ASSUME NEW S, NEW s \in Seq(S), s # <<>>, NEW f, Ascending(f, s)
  PROVE  Ascending(f, Tail(s)) /\ \A x \in ToSet(s) : f[Head(s)] <= f[x]
<1>1. Len(s) \in Nat \ {0} /\ Head(s) = s[1]
  BY EmptySeq, LenProperties
<1>2. /\ Tail(s) \in Seq(S) /\ Len(Tail(s)) = Len(s) - 1
      /\ \A i \in 1 .. Len(Tail(s)) : Tail(s)[i] = s[i + 1]
  BY HeadTailProperties
<1>3. Ascending(f, Tail(s))
  <2> SUFFICES ASSUME NEW i \in 1 .. Len(Tail(s)), NEW j \in 1 .. Len(Tail(s)), i <= j
               PROVE  f[Tail(s)[i]] <= f[Tail(s)[j]]
    BY DEF Ascending
  <2>1. i + 1 \in 1 .. Len(s) /\ j + 1 \in 1 .. Len(s) /\ i + 1 <= j + 1
    BY <1>1, <1>2
  <2> QED
    BY <2>1, <1>2 DEF Ascending
<1>4. ASSUME NEW x \in ToSet(s) PROVE f[Head(s)] <= f[x]
  <2>1. PICK i \in 1 .. Len(s) : x = s[i]
    BY Contents
  <2>2. 1 \in 1 .. Len(s) /\ 1 <= i
    BY <1>1
  <2> QED
    BY <2>1, <2>2, <1>1 DEF Ascending
<1> QED
  BY <1>3, <1>4

(* An insertion is what was before the place, the element, and the rest. *)
LEMMA InsertParts ==
  ASSUME NEW S, NEW s \in Seq(S), NEW n \in 0 .. Len(s), NEW x
  PROVE  InsertAt(s, n + 1, x) = SubSeq(s, 1, n) \o <<x>> \o SubSeq(s, n + 1, Len(s))
<1>1. (n + 1) - 1 = n
  OBVIOUS
<1> QED
  BY <1>1 DEF InsertAt

Extended(S, t, s, x) == t \in Seq(S) /\ ToSet(t) = ToSet(s) \cup {x}

(* It adds the element to what the list holds. *)
LEMMA InsertAdds ==
  ASSUME NEW S, NEW s \in Seq(S), NEW n \in 0 .. Len(s), NEW x \in S
  PROVE  Extended(S, InsertAt(s, n + 1, x), s, x)
<1> DEFINE f == SubSeq(s, 1, n)  r == SubSeq(s, n + 1, Len(s))  e == <<x>>
<1>1. InsertAt(s, n + 1, x) = f \o e \o r
  BY InsertParts
<1>2. e \in Seq(S) /\ ToSet(e) = {x}
  BY SingleContents
<1>3. f \in Seq(S) /\ r \in Seq(S) /\ ToSet(s) = ToSet(f) \cup ToSet(r)
  BY CutContents
<1> HIDE DEF f, r, e
<1>4. f \o e \in Seq(S) /\ ToSet(f \o e) = ToSet(f) \cup {x}
  BY <1>2, <1>3, ConcatContents
<1> DEFINE fe == f \o e
<1>5. fe \in Seq(S) /\ ToSet(fe) = ToSet(f) \cup {x} /\ InsertAt(s, n + 1, x) = fe \o r
  BY <1>1, <1>4
<1> HIDE DEF fe
<1>6. fe \o r \in Seq(S) /\ ToSet(fe \o r) = ToSet(fe) \cup ToSet(r)
  <2>1. Joined(S, fe \o r, fe, r)
    BY <1>3, <1>5, ConcatJoins, Zenon
  <2> QED
    BY <2>1 DEF Joined
<1> QED
  BY <1>3, <1>5, <1>6 DEF Extended

(* An insertion between the smaller and the greater keeps the order. *)
LEMMA AscendingInsert ==
  ASSUME NEW S, NEW s \in Seq(S), NEW n \in 0 .. Len(s), NEW x \in S, NEW f \in [S -> Nat],
         Ascending(f, s),
         \A i \in 1 .. n : f[s[i]] <= f[x],
         \A i \in n + 1 .. Len(s) : f[x] <= f[s[i]]
  PROVE  Ascending(f, InsertAt(s, n + 1, x))
<1> DEFINE a == SubSeq(s, 1, n)  b == SubSeq(s, n + 1, Len(s))  e == <<x>>
<1>1. /\ a \in Seq(S) /\ b \in Seq(S) /\ Len(a) = n /\ Len(b) = Len(s) - n
      /\ Ascending(f, a) /\ Ascending(f, b) /\ Len(s) \in Nat
  BY CutSeq, AscendingCut, LenProperties
<1>2. InsertAt(s, n + 1, x) = a \o e \o b
  BY InsertParts
<1>3. e \in Seq(S) /\ ToSet(e) = {x} /\ Ascending(f, e)
  BY SingleContents, AscendingShort
<1>4. /\ \A i \in 1 .. n : a[i] = s[i]
      /\ \A i \in 1 .. Len(s) - n : b[i] = s[n + i]
  BY CutSeq, CutBehind
<1> HIDE DEF a, b, e
<1>5. \A y \in ToSet(a) : f[y] <= f[x] /\ y \in S
  <2> TAKE y \in ToSet(a)
  <2>1. PICK i \in 1 .. Len(a) : y = a[i]
    BY <1>1, Contents
  <2>2. y \in S
    BY <2>1, <1>1, LenProperties
  <2> QED
    BY <2>1, <2>2, <1>1, <1>4
<1>6. \A y \in ToSet(b) : f[x] <= f[y] /\ y \in S
  <2> TAKE y \in ToSet(b)
  <2>1. PICK i \in 1 .. Len(b) : y = b[i]
    BY <1>1, Contents
  <2>2. y \in S
    BY <2>1, <1>1, LenProperties
  <2>3. n + i \in n + 1 .. Len(s) /\ s[n + i] = b[i]
    BY <1>1, <1>4
  <2> QED
    BY <2>1, <2>2, <2>3
<1>7. a \o e \in Seq(S) /\ ToSet(a \o e) = ToSet(a) \cup {x}
  BY <1>1, <1>3, ConcatContents
<1>8. Ascending(f, a \o e)
  BY <1>1, <1>3, <1>5, AscendingConcat
<1> DEFINE ae == a \o e
<1>9. ae \in Seq(S) /\ ToSet(ae) = ToSet(a) \cup {x} /\ Ascending(f, ae)
      /\ InsertAt(s, n + 1, x) = ae \o b
  BY <1>2, <1>7, <1>8
<1> HIDE DEF ae
<1>10. \A y \in ToSet(ae), z \in ToSet(b) : f[y] <= f[z]
  <2> TAKE y \in ToSet(ae), z \in ToSet(b)
  <2>1. f[y] \in Nat /\ f[x] \in Nat /\ f[z] \in Nat /\ f[y] <= f[x] /\ f[x] <= f[z]
    BY <1>5, <1>6, <1>9
  <2> QED
    BY <2>1
<1>11. Ascending(f, ae \o b)
  BY <1>1, <1>9, <1>10, AscendingConcat
<1> QED
  BY <1>9, <1>11
-----------------------------------------------------------------------------
(* Ticks, and positions in the delayed list. *)

(* A tick count is a DWORD. *)
LEMMA TickType ==
  ASSUME now \in Nat
  PROVE  LmnGetTickCount \in 0 .. TickMod - 1
<1> USE ThreadAssumption DEF ThreadAssumption
<1>1. (Start + now) * Clk \in Nat
  OBVIOUS
<1>2. TickMod \in Nat \ {0}
  OBVIOUS
<1>3. ((Start + now) * Clk) % TickMod \in 0 .. TickMod - 1
  BY <1>1, <1>2
<1> QED
  BY <1>3, Quotient DEF LmnGetTickCount

(* The place of an insertion is one of the list. *)
LEMMA InsertAfterType ==
  ASSUME NEW trigger, Len(dq) \in Nat
  PROVE  InsertAfter(trigger) \in 0 .. Len(dq)
<1> DEFINE behind == {i \in 1 .. Len(dq) : NotBefore(trigger, dq[i].trigger)}
           last == CHOOSE i \in behind : \A j \in behind : j <= i
<1>1. behind \subseteq 1 .. Len(dq)
  OBVIOUS
<1>2. InsertAfter(trigger) = IF behind = {} THEN 0 ELSE last
  BY DEF InsertAfter
<1> HIDE DEF behind
<1>3. ASSUME behind # {} PROVE last \in behind
  <2>1. \E i \in behind : \A j \in behind : j <= i
    BY <1>1, <1>3, LastPosition
  <2> QED
    BY <2>1, Zenon
<1> HIDE DEF last
<1>4. CASE behind = {}
  BY <1>2, <1>4
<1>5. CASE behind # {}
  <2>1. last \in 1 .. Len(dq)
    BY <1>1, <1>3, <1>5
  <2>2. InsertAfter(trigger) = last
    BY <1>2, <1>5
  <2> QED
    BY <2>1, <2>2
<1> QED
  BY <1>4, <1>5

(* No more is taken out than the list has. *)
LEMMA ExpiredCountType ==
  ASSUME Len(dq) \in Nat
  PROVE  ExpiredCount \in 0 .. Len(dq)
<1> DEFINE waiting == {i \in 1 .. Len(dq) : ~Expired(dq[i])}
           first == CHOOSE i \in waiting : \A j \in waiting : i <= j
<1>1. waiting \subseteq 1 .. Len(dq)
  OBVIOUS
<1>2. ExpiredCount = IF waiting = {} THEN Len(dq) ELSE first - 1
  BY DEF ExpiredCount
<1> HIDE DEF waiting
<1>3. ASSUME waiting # {} PROVE first \in waiting
  <2>1. \E i \in waiting : \A j \in waiting : i <= j
    BY <1>1, <1>3, FirstPosition
  <2> QED
    BY <2>1, Zenon
<1> HIDE DEF first
<1>4. CASE waiting = {}
  BY <1>2, <1>4
<1>5. CASE waiting # {}
  <2>1. first \in 1 .. Len(dq)
    BY <1>1, <1>3, <1>5
  <2>2. ExpiredCount = first - 1
    BY <1>2, <1>5
  <2> QED
    BY <2>1, <2>2
<1> QED
  BY <1>4, <1>5

-----------------------------------------------------------------------------
(* The messages of a list of delayed messages. *)

Named(s) == [i \in 1 .. Len(s) |-> s[i].msg]

(* The messages of a list are in its order. *)
LEMMA NamedType ==
  ASSUME NEW s \in Seq(Entries)
  PROVE  /\ Named(s) \in Seq(Delayed)
         /\ Len(Named(s)) = Len(s)
         /\ \A i \in 1 .. Len(s) : Named(s)[i] = s[i].msg
<1>1. Len(s) \in Nat /\ \A i \in 1 .. Len(s) : s[i].msg \in Delayed
  <2>1. Len(s) \in Nat /\ \A i \in 1 .. Len(s) : s[i] \in Entries
    BY LenProperties
  <2> QED
    BY <2>1 DEF Entries
<1>2. Named(s) \in Seq(Delayed)
  BY <1>1 DEF Named
<1>3. Len(Named(s)) = Len(s)
  BY <1>1 DEF Named
<1> QED
  BY <1>1, <1>2, <1>3 DEF Named

(* The messages of two lists behind one another. *)
LEMMA NamedConcat ==
  ASSUME NEW s \in Seq(Entries), NEW t \in Seq(Entries)
  PROVE  Named(s \o t) = Named(s) \o Named(t)
<1>1. s \o t \in Seq(Entries) /\ Len(s \o t) = Len(s) + Len(t) /\ Len(s) \in Nat /\ Len(t) \in Nat
  BY ConcatProperties, LenProperties
<1> DEFINE a == Named(s \o t)  b == Named(s) \o Named(t)
<1>2. Named(s) \in Seq(Delayed) /\ Named(t) \in Seq(Delayed) /\ a \in Seq(Delayed)
      /\ Len(Named(s)) = Len(s) /\ Len(Named(t)) = Len(t) /\ Len(a) = Len(s) + Len(t)
  BY <1>1, NamedType
<1>3. b \in Seq(Delayed) /\ Len(b) = Len(s) + Len(t)
  <2> DEFINE x == Named(s)  y == Named(t)
  <2> HIDE DEF x, y
  <2>1. x \in Seq(Delayed) /\ y \in Seq(Delayed) /\ Len(x) = Len(s) /\ Len(y) = Len(t)
    BY <1>2 DEF x, y
  <2>2. x \o y \in Seq(Delayed) /\ Len(x \o y) = Len(x) + Len(y)
    BY <2>1, ConcatProperties
  <2> QED
    BY <2>1, <2>2 DEF x, y
<1>4. ASSUME NEW i \in 1 .. Len(s) + Len(t) PROVE a[i] = b[i]
  <2>1. a[i] = (s \o t)[i].msg
    BY <1>1 DEF Named
  <2>2. CASE i <= Len(s)
    <3>1. i \in 1 .. Len(s)
      BY <2>2, <1>1
    <3>2. (s \o t)[i] = s[i] /\ b[i] = Named(s)[i]
      BY <3>1, <1>1, <1>2
    <3> QED
      BY <3>1, <3>2, <2>1, NamedType
  <2>3. CASE i > Len(s)
    <3>1. i - Len(s) \in 1 .. Len(t)
      BY <2>3, <1>1
    <3>2. (s \o t)[i] = t[i - Len(s)] /\ b[i] = Named(t)[i - Len(s)]
      BY <3>1, <2>3, <1>1, <1>2
    <3> QED
      BY <3>1, <3>2, <2>1, NamedType
  <2>4. i <= Len(s) \/ i > Len(s)
    BY <1>1
  <2> QED
    BY <2>2, <2>3, <2>4, Zenon
<1> HIDE DEF a, b
<1>5. a = b
  BY <1>2, <1>3, <1>4, SeqEqual
<1> QED
  BY <1>5 DEF a, b

(* The messages of a part of a list. *)
LEMMA NamedSubSeq ==
  ASSUME NEW s \in Seq(Entries), NEW m \in 1 .. Len(s) + 1, NEW n \in 0 .. Len(s)
  PROVE  /\ SubSeq(s, m, n) \in Seq(Entries)
         /\ Named(SubSeq(s, m, n)) = SubSeq(Named(s), m, n)
<1>1. Len(s) \in Nat /\ \A i \in m .. n : s[i] \in Entries
  BY LenProperties
<1> DEFINE k == IF m <= n THEN n - m + 1 ELSE 0
<1>2. k \in Nat /\ \A i \in 1 .. k : i \in 1 .. n - m + 1 /\ m + i - 1 \in 1 .. Len(s)
  BY <1>1
<1>3. SubSeq(s, m, n) \in Seq(Entries) /\ Len(SubSeq(s, m, n)) = k
      /\ \A i \in 1 .. n - m + 1 : SubSeq(s, m, n)[i] = s[m + i - 1]
  BY <1>1, SubSeqProperties
<1>4. /\ Named(s) \in Seq(Delayed) /\ Len(Named(s)) = Len(s)
      /\ \A i \in 1 .. Len(s) : Named(s)[i] = s[i].msg
  BY NamedType
<1>5. \A i \in m .. n : Named(s)[i] \in Delayed
  BY <1>1, <1>4, LenProperties
<1>6. SubSeq(Named(s), m, n) \in Seq(Delayed) /\ Len(SubSeq(Named(s), m, n)) = k
      /\ \A i \in 1 .. n - m + 1 : SubSeq(Named(s), m, n)[i] = Named(s)[m + i - 1]
  BY <1>1, <1>5, SubSeqProperties
<1> DEFINE a == Named(SubSeq(s, m, n))  b == SubSeq(Named(s), m, n)  t == SubSeq(s, m, n)
<1>7. a \in Seq(Delayed) /\ Len(a) = k /\ \A i \in 1 .. k : a[i] = t[i].msg
  BY <1>3, NamedType
<1>8. \A i \in 1 .. k : a[i] = b[i]
  BY <1>2, <1>3, <1>4, <1>6, <1>7
<1> HIDE DEF a, b, k
<1>9. a = b
  BY <1>6, <1>7, <1>8, SeqEqual DEF b
<1> QED
  BY <1>3, <1>9 DEF a, b

(* The messages of a list after an insertion. *)
LEMMA NamedInsertAt ==
  ASSUME NEW s \in Seq(Entries), NEW n \in 0 .. Len(s), NEW e \in Entries
  PROVE  /\ InsertAt(s, n + 1, e) \in Seq(Entries)
         /\ Named(InsertAt(s, n + 1, e)) = InsertAt(Named(s), n + 1, e.msg)
<1> DEFINE f == SubSeq(s, 1, n)  r == SubSeq(s, n + 1, Len(s))  one == <<e>>
<1>1. InsertAt(s, n + 1, e) = f \o one \o r
  <2>1. (n + 1) - 1 = n
    OBVIOUS
  <2> QED
    BY <2>1 DEF InsertAt
<1>2. Len(s) \in Nat /\ Len(Named(s)) = Len(s)
  BY LenProperties, NamedType
<1>3. /\ f \in Seq(Entries) /\ Named(f) = SubSeq(Named(s), 1, n)
      /\ r \in Seq(Entries) /\ Named(r) = SubSeq(Named(s), n + 1, Len(Named(s)))
  <2>1. 1 \in 1 .. Len(s) + 1 /\ n + 1 \in 1 .. Len(s) + 1 /\ Len(s) \in 0 .. Len(s)
    BY <1>2
  <2> QED
    BY <2>1, <1>2, NamedSubSeq
<1>4. one \in Seq(Entries) /\ Named(one) = <<e.msg>>
  BY DEF Named
<1>5. InsertAt(Named(s), n + 1, e.msg) = Named(f) \o Named(one) \o Named(r)
  <2>1. (n + 1) - 1 = n
    OBVIOUS
  <2> HIDE DEF f, r, one
  <2> QED
    BY <2>1, <1>3, <1>4 DEF InsertAt
<1> HIDE DEF f, r, one
<1>6. f \o one \in Seq(Entries) /\ Named(f \o one) = Named(f) \o Named(one)
  BY <1>3, <1>4, ConcatProperties, NamedConcat
<1>7. f \o one \o r \in Seq(Entries)
      /\ Named(f \o one \o r) = Named(f) \o Named(one) \o Named(r)
  <2> DEFINE g == f \o one
  <2>1. g \in Seq(Entries) /\ Named(g) = Named(f) \o Named(one)
    BY <1>6
  <2> HIDE DEF g
  <2>2. g \o r \in Seq(Entries) /\ Named(g \o r) = Named(g) \o Named(r)
    BY <2>1, <1>3, ConcatProperties, NamedConcat
  <2>3. g \o r \in Seq(Entries) /\ Named(g \o r) = (Named(f) \o Named(one)) \o Named(r)
    BY <2>1, <2>2
  <2> QED
    BY <2>3 DEF g
<1> QED
  BY <1>1, <1>5, <1>7

(* The messages handed out by Collect are the first of the list. *)
LEMMA NamedPrefix ==
  ASSUME NEW s \in Seq(Entries), NEW n \in 0 .. Len(s)
  PROVE  [i \in 1 .. n |-> s[i].msg] = SubSeq(Named(s), 1, n)
<1> DEFINE a == [i \in 1 .. n |-> s[i].msg]  b == SubSeq(Named(s), 1, n)
<1>1. /\ Len(s) \in Nat /\ Named(s) \in Seq(Delayed) /\ Len(Named(s)) = Len(s)
      /\ \A i \in 1 .. Len(s) : Named(s)[i] = s[i].msg /\ Named(s)[i] \in Delayed
  BY LenProperties, NamedType
<1>2. a \in Seq(Delayed) /\ Len(a) = n
  <2>1. \A i \in 1 .. n : s[i].msg \in Delayed
    BY <1>1
  <2> QED
    BY <2>1
<1>3. b \in Seq(Delayed) /\ Len(b) = n /\ \A i \in 1 .. n : b[i] = Named(s)[i]
  <2>1. \A i \in 1 .. n : Named(s)[i] \in Delayed
    BY <1>1
  <2>2. b \in Seq(Delayed) /\ Len(b) = (IF 1 <= n THEN n - 1 + 1 ELSE 0)
        /\ \A i \in 1 .. n - 1 + 1 : b[i] = Named(s)[1 + i - 1]
    BY <2>1, SubSeqProperties
  <2> HIDE DEF b
  <2>3. n - 1 + 1 = n /\ \A i \in 1 .. n : 1 + i - 1 = i
    OBVIOUS
  <2> QED
    BY <2>2, <2>3
<1>4. \A i \in 1 .. n : a[i] = b[i]
  <2> HIDE DEF b
  <2> QED
    BY <1>1, <1>3
<1> HIDE DEF a, b
<1>5. a = b
  BY <1>2, <1>3, <1>4, SeqEqual
<1> QED
  BY <1>5 DEF a, b

-----------------------------------------------------------------------------
(* Types. *)

(* The types hold at the start ... *)
LEMMA TypeInit == Init => TypeOK
<1> USE ThreadAssumption DEF ThreadAssumption
<1> SUFFICES ASSUME Init PROVE TypeOK
  OBVIOUS
<1>1. 0 \in 0 .. TickMod - 1
  OBVIOUS
<1>2. q \in Seq(Normal) /\ dq \in Seq(Entries) /\ batch \in Seq(Msgs) /\ log \in Seq(Msgs)
  BY EmptySeq DEF Init
<1>3. /\ fate \in [Msgs -> {"unposted", "posting", "posted", "refused", "delivered", "dropped"}]
      /\ due \in [Delayed -> Nat]
  BY DEF Init
<1>4. asked \in 0 .. now /\ polled \in 0 .. asked /\ curTick \in 0 .. TickMod - 1 /\ now \in Nat
  BY <1>1 DEF Init
<1>5. posting \subseteq [msg: Delayed, trigger: 0 .. TickMod - 1, at: 0 .. now]
  BY DEF Init
<1> QED
  BY <1>2, <1>3, <1>4, <1>5 DEF Init, TypeOK

(* What Collect takes out, and what it leaves. *)
LEMMA Collected ==
  ASSUME TypeOK, Collect
  PROVE  \E n \in 0 .. Len(dq) :
           /\ dq' = SubSeq(dq, n + 1, Len(dq)) /\ dq' \in Seq(Entries)
           /\ Named(dq') = SubSeq(Named(dq), n + 1, Len(Named(dq)))
           /\ Named(dq) \in Seq(Delayed) /\ n \in 0 .. Len(Named(dq))
           /\ \/ n > 0 /\ batch' = SubSeq(Named(dq), 1, n) /\ q' = q
              \/ n = 0 /\ dq' = dq /\ q # <<>> /\ batch' = <<Head(q)>> /\ q' = Tail(q)
              \/ n = 0 /\ dq' = dq /\ q = <<>> /\ q' = q /\ batch' = batch
<1> DEFINE n == ExpiredCount
<1>1. dq \in Seq(Entries) /\ Len(dq) \in Nat
  BY LenProperties DEF TypeOK
<1>2. n \in 0 .. Len(dq)
  BY <1>1, ExpiredCountType
<1>3. /\ dq' = SubSeq(dq, n + 1, Len(dq))
      /\ \/ n > 0 /\ batch' = [i \in 1 .. n |-> dq[i].msg] /\ q' = q
         \/ n = 0 /\ q # <<>> /\ batch' = <<Head(q)>> /\ q' = Tail(q)
         \/ n = 0 /\ q = <<>> /\ q' = q /\ batch' = batch
  BY DEF Collect
<1> HIDE DEF n
<1>4. dq' \in Seq(Entries) /\ Named(dq') = SubSeq(Named(dq), n + 1, Len(dq))
  <2>1. n + 1 \in 1 .. Len(dq) + 1 /\ Len(dq) \in 0 .. Len(dq)
    BY <1>1, <1>2
  <2> QED
    BY <2>1, <1>1, <1>3, NamedSubSeq
<1>5. Named(dq) \in Seq(Delayed) /\ Len(Named(dq)) = Len(dq)
  BY <1>1, NamedType
<1>6. [i \in 1 .. n |-> dq[i].msg] = SubSeq(Named(dq), 1, n)
  BY <1>1, <1>2, NamedPrefix
<1>7. n = 0 => dq' = dq
  BY <1>1, <1>3, SubSeqFull
<1>8. \/ n > 0 /\ batch' = SubSeq(Named(dq), 1, n) /\ q' = q
      \/ n = 0 /\ dq' = dq /\ q # <<>> /\ batch' = <<Head(q)>> /\ q' = Tail(q)
      \/ n = 0 /\ dq' = dq /\ q = <<>> /\ q' = q /\ batch' = batch
  BY <1>3, <1>6, <1>7
<1> QED
  BY <1>2, <1>3, <1>4, <1>5, <1>8

(* ... and every step keeps them. *)
LEMMA TypeStep == TypeOK /\ [Next]_vars => TypeOK'
<1> SUFFICES ASSUME TypeOK, [Next]_vars PROVE TypeOK'
  OBVIOUS
<1> USE ThreadAssumption DEF ThreadAssumption, TypeOK
<1>1. ASSUME NEW m \in Normal, LmxPostMessage(m) PROVE TypeOK'
  BY <1>1, AppendProperties DEF LmxPostMessage, Msgs
<1>2. ASSUME NEW m \in Normal, LmxPostRefused(m) PROVE TypeOK'
  BY <1>2 DEF LmxPostRefused, Msgs
<1>3. ASSUME NEW m \in Delayed, NEW d \in Delays, LmxPostDelayMessage(m, d) PROVE TypeOK'
  <2>1. now \in Nat /\ d \in Nat /\ TickMod \in Nat \ {0} /\ now \in 0 .. now
    OBVIOUS
  <2>2. LmnGetTickCount \in 0 .. TickMod - 1
    BY TickType
  <2>3. (LmnGetTickCount + d) % TickMod \in 0 .. TickMod - 1
    BY <2>1, <2>2
  <2> DEFINE p == [msg |-> m, trigger |-> (LmnGetTickCount + d) % TickMod, at |-> now]
  <2>4. p \in [msg: Delayed, trigger: 0 .. TickMod - 1, at: 0 .. now]
    BY <2>1, <2>3
  <2>5. posting' = posting \cup {p}
    BY <1>3 DEF LmxPostDelayMessage
  <2> HIDE DEF p
  <2>6. posting' \subseteq [msg: Delayed, trigger: 0 .. TickMod - 1, at: 0 .. now']
    BY <2>4, <2>5, <1>3 DEF LmxPostDelayMessage
  <2>7. due' \in [Delayed -> Nat]
    BY <2>1, <1>3 DEF LmxPostDelayMessage
  <2>8. fate' \in [Msgs -> {"unposted", "posting", "posted", "refused", "delivered", "dropped"}]
    BY <1>3 DEF LmxPostDelayMessage, Msgs
  <2> QED
    BY <2>6, <2>7, <2>8, <1>3 DEF LmxPostDelayMessage
<1>4. ASSUME NEW p \in posting, InsertDelayed(p) PROVE TypeOK'
  <2> DEFINE e == [msg |-> p.msg, trigger |-> p.trigger]
  <2>1. e \in Entries /\ p.msg \in Msgs
    BY DEF Entries, Msgs
  <2>2. Len(dq) \in Nat /\ InsertAfter(p.trigger) \in 0 .. Len(dq)
    BY LenProperties, InsertAfterType
  <2>3. dq' = InsertAt(dq, InsertAfter(p.trigger) + 1, e)
    BY <1>4 DEF InsertDelayed
  <2> HIDE DEF e
  <2>4. dq' \in Seq(Entries)
    BY <2>1, <2>2, <2>3, NamedInsertAt
  <2>5. fate' \in [Msgs -> {"unposted", "posting", "posted", "refused", "delivered", "dropped"}]
    BY <2>1, <1>4 DEF InsertDelayed
  <2> QED
    BY <2>4, <2>5, <1>4 DEF InsertDelayed
<1>5. CASE LmxDestroyThread
  BY <1>5 DEF LmxDestroyThread
<1>6. CASE LoopTop
  <2>1. LmnGetTickCount \in 0 .. TickMod - 1 /\ now \in 0 .. now
    BY TickType
  <2>2. polled \in 0 .. now
    OBVIOUS
  <2> QED
    BY <2>1, <2>2, <1>6 DEF LoopTop
<1>7. CASE Collect
  <2>1. dq' \in Seq(Entries) /\ q' \in Seq(Normal) /\ batch' \in Seq(Msgs)
    <3>1. PICK n \in 0 .. Len(dq) :
            /\ dq' \in Seq(Entries) /\ Named(dq) \in Seq(Delayed) /\ n \in 0 .. Len(Named(dq))
            /\ \/ batch' = SubSeq(Named(dq), 1, n) /\ q' = q
               \/ q # <<>> /\ batch' = <<Head(q)>> /\ q' = Tail(q)
               \/ q' = q /\ batch' = batch
      BY <1>7, Collected
    <3>2. SubSeq(Named(dq), 1, n) \in Seq(Delayed)
      BY <3>1, CutContents
    <3>3. SubSeq(Named(dq), 1, n) \in Seq(Msgs)
      BY <3>2, SeqMonotonic DEF Msgs
    <3>4. q # <<>> => Head(q) \in Normal /\ Tail(q) \in Seq(Normal)
      BY HeadTailProperties
    <3>5. q # <<>> => <<Head(q)>> \in Seq(Msgs)
      BY <3>4 DEF Msgs
    <3> QED
      BY <3>1, <3>3, <3>4, <3>5
  <2>2. /\ pc' = (IF batch' # <<>> THEN "deliver" ELSE IF bQuit THEN "free" ELSE "top")
        /\ polled' = asked
        /\ UNCHANGED <<bRun, bQuit, curTick, fate, due, now, posting, asked, log>>
    BY <1>7 DEF Collect
  <2>3. asked \in 0 .. asked
    OBVIOUS
  <2> QED
    BY <2>1, <2>2, <2>3
<1>8. ASSUME Deliver \/ DeliverLast PROVE TypeOK'
  <2>1. batch # <<>>
    BY <1>8 DEF Deliver, DeliverLast
  <2>2. Head(batch) \in Msgs /\ Tail(batch) \in Seq(Msgs)
    BY <2>1, HeadTailProperties
  <2>3. Append(log, Head(batch)) \in Seq(Msgs)
    BY <2>2, AppendProperties
  <2>4. CASE Deliver
    BY <2>2, <2>3, <2>4 DEF Deliver
  <2>5. CASE DeliverLast
    BY <2>2, <2>3, <2>5 DEF DeliverLast
  <2> QED
    BY <1>8, <2>4, <2>5
<1>9. CASE FreeThread
  BY <1>9, EmptySeq DEF FreeThread
<1>10. CASE Tick
  <2>1. now' \in Nat /\ asked' \in 0 .. now' /\ polled' \in 0 .. asked'
    BY <1>10 DEF Tick
  <2>2. posting' \subseteq [msg: Delayed, trigger: 0 .. TickMod - 1, at: 0 .. now']
    <3>1. \A p \in posting : p.at \in 0 .. now'
      BY <1>10 DEF Tick
    <3> QED
      BY <3>1, <1>10 DEF Tick
  <2> QED
    BY <2>1, <2>2, <1>10 DEF Tick
<1>11. CASE UNCHANGED vars
  BY <1>11 DEF vars
<1> QED
  BY <1>1, <1>2, <1>3, <1>4, <1>5, <1>6, <1>7, <1>8, <1>9, <1>10, <1>11 DEF Next, Posts, Loop

-----------------------------------------------------------------------------
(* The inductive invariant.  PostedOnce speaks of the three lists behind    *)
(* one another; to be inductive it must know that a list is in order by     *)
(* itself, that the loop has no batch but where it hands it out, and that   *)
(* the posts that wait for the lock are for different messages.             *)

WithFate(f) == {m \in Msgs : fate[m] = f}

ListsOnce ==
  /\ IsInjective(q) /\ IsInjective(Named(dq)) /\ IsInjective(batch)
  /\ ToSet(batch) \cap ToSet(q) = {} /\ ToSet(batch) \cap ToSet(Named(dq)) = {}
  /\ ToSet(q) \cup ToSet(Named(dq)) \cup ToSet(batch) = WithFate("posted")

LogOnce == IsInjective(log) /\ ToSet(log) = WithFate("delivered")

PostingOnce ==
  /\ \A p \in posting : fate[p.msg] = "posting"
  /\ \A p, r \in posting : p.msg = r.msg => p = r

BatchInHand == pc # "deliver" => batch = <<>>

ThreadInv == TypeOK /\ ListsOnce /\ LogOnce /\ PostingOnce /\ BatchInHand

(* The types, as facts about what is in the lists. *)
LEMMA ListTypes ==
  ASSUME TypeOK
  PROVE  /\ Named(dq) \in Seq(Delayed)
         /\ ToSet(q) \subseteq Normal /\ ToSet(Named(dq)) \subseteq Delayed
         /\ ToSet(batch) \subseteq Msgs /\ ToSet(q) \subseteq Msgs /\ ToSet(Named(dq)) \subseteq Msgs
         /\ ToSet(q) \cap ToSet(Named(dq)) = {}
<1>1. Named(dq) \in Seq(Delayed)
  BY NamedType DEF TypeOK
<1>2. ToSet(q) \subseteq Normal
  BY Contents DEF TypeOK
<1>3. ToSet(Named(dq)) \subseteq Delayed
  BY <1>1, Contents
<1>4. ToSet(batch) \subseteq Msgs
  BY Contents DEF TypeOK
<1> QED
  BY <1>1, <1>2, <1>3, <1>4, ThreadAssumption DEF ThreadAssumption, Msgs

(* The invariant says at least what PostedOnce does. *)
LEMMA InvImpliesOnce == ThreadInv => PostedOnce
<1> SUFFICES ASSUME ThreadInv PROVE PostedOnce
  OBVIOUS
<1>1. q \in Seq(Msgs) /\ Named(dq) \in Seq(Msgs) /\ batch \in Seq(Msgs)
  <2>1. q \in Seq(Normal) /\ Named(dq) \in Seq(Delayed) /\ batch \in Seq(Msgs)
    BY ListTypes DEF ThreadInv, TypeOK
  <2> QED
    BY <2>1, SeqMonotonic DEF Msgs
<1> DEFINE d == Named(dq)
<1>2. Everywhere = q \o d \o batch
  BY DEF Everywhere, Named
<1>3. /\ IsInjective(q) /\ IsInjective(d) /\ IsInjective(batch)
      /\ ToSet(q) \cap ToSet(d) = {}
      /\ ToSet(batch) \cap ToSet(q) = {} /\ ToSet(batch) \cap ToSet(d) = {}
      /\ ToSet(q) \cup ToSet(d) \cup ToSet(batch) = WithFate("posted")
  BY ListTypes DEF ThreadInv, ListsOnce
<1> HIDE DEF d
<1>4. q \o d \in Seq(Msgs) /\ IsInjective(q \o d) /\ ToSet(q \o d) = ToSet(q) \cup ToSet(d)
  <2>1. d \in Seq(Msgs)
    BY <1>1 DEF d
  <2> QED
    BY <2>1, <1>1, <1>3, ConcatContents
<1> DEFINE e == q \o d
<1>5. e \in Seq(Msgs) /\ IsInjective(e) /\ ToSet(e) = ToSet(q) \cup ToSet(d)
  BY <1>4
<1>6. Everywhere = e \o batch
  BY <1>2
<1> HIDE DEF e
<1>7. ToSet(e) \cap ToSet(batch) = {}
  BY <1>3, <1>5
<1>8. IsInjective(e \o batch) /\ ToSet(e \o batch) = ToSet(e) \cup ToSet(batch)
  BY <1>1, <1>3, <1>5, <1>7, ConcatContents
<1> QED
  BY <1>3, <1>5, <1>6, <1>8 DEF ThreadInv, LogOnce, PostedOnce, WithFate

(* It holds at the start ... *)
LEMMA OnceInit == Init => ThreadInv
<1> SUFFICES ASSUME Init PROVE ThreadInv
  OBVIOUS
<1>1. TypeOK
  BY TypeInit
<1>2. Named(dq) = <<>>
  BY DEF Init, Named
<1>3. WithFate("posted") = {} /\ WithFate("delivered") = {}
  BY DEF Init, WithFate
<1> QED
  BY <1>1, <1>2, <1>3, EmptyContents
     DEF Init, ThreadInv, ListsOnce, LogOnce, PostingOnce, BatchInHand

(* ... and every step keeps it: a message goes from one list to the next. *)
LEMMA OnceStep == ThreadInv /\ [Next]_vars => ThreadInv'
<1> SUFFICES ASSUME ThreadInv, [Next]_vars PROVE ThreadInv'
  OBVIOUS
<1>t. TypeOK /\ TypeOK'
  BY TypeStep DEF ThreadInv
<1>f. fate \in [Msgs -> {"unposted", "posting", "posted", "refused", "delivered", "dropped"}]
  BY <1>t DEF TypeOK
<1>g. \A p \in posting : p.msg \in Delayed /\ p.msg \in Msgs
  BY <1>t DEF TypeOK, Msgs
<1>1. ASSUME NEW m \in Normal, LmxPostMessage(m) PROVE ThreadInv'
  <2>1. /\ fate[m] = "unposted" /\ m \in Msgs /\ q' = Append(q, m)
        /\ fate' = [fate EXCEPT ![m] = "posted"]
        /\ UNCHANGED <<dq, batch, pc, posting, log>>
    BY <1>1 DEF LmxPostMessage, Msgs
  <2>2. WithFate("posted")' = WithFate("posted") \cup {m} /\ m \notin WithFate("posted")
        /\ WithFate("delivered")' = WithFate("delivered")
    BY <2>1, <1>f DEF WithFate
  <2>3. m \notin ToSet(q) /\ m \notin ToSet(batch)
    BY <2>2 DEF ThreadInv, ListsOnce
  <2>4. IsInjective(q') /\ ToSet(q') = ToSet(q) \cup {m}
    <3>1. q \in Seq(Normal) /\ IsInjective(q)
      BY <1>t DEF TypeOK, ThreadInv, ListsOnce
    <3> QED
      BY <3>1, <2>1, <2>3, AppendContents
  <2>5. ListsOnce'
    <3>1. Named(dq)' = Named(dq)
      BY <2>1
    <3> QED
      BY <3>1, <2>1, <2>2, <2>3, <2>4 DEF ThreadInv, ListsOnce
  <2>6. PostingOnce'
    BY <2>1, <1>f, <1>g DEF ThreadInv, PostingOnce
  <2> QED
    BY <2>1, <2>2, <2>5, <2>6, <1>t DEF ThreadInv, LogOnce, BatchInHand
<1>2. ASSUME NEW m \in Normal, LmxPostRefused(m) PROVE ThreadInv'
  <2>1. /\ fate[m] = "unposted" /\ m \in Msgs /\ fate' = [fate EXCEPT ![m] = "refused"]
        /\ UNCHANGED <<q, dq, batch, pc, posting, log>>
    BY <1>2 DEF LmxPostRefused, Msgs
  <2>2. WithFate("posted")' = WithFate("posted") /\ WithFate("delivered")' = WithFate("delivered")
    BY <2>1, <1>f DEF WithFate
  <2>3. PostingOnce'
    BY <2>1, <1>f, <1>g DEF ThreadInv, PostingOnce
  <2>4. Named(dq)' = Named(dq)
    BY <2>1
  <2> QED
    BY <2>1, <2>2, <2>3, <2>4, <1>t DEF ThreadInv, ListsOnce, LogOnce, BatchInHand
<1>3. ASSUME NEW m \in Delayed, NEW d \in Delays, LmxPostDelayMessage(m, d) PROVE ThreadInv'
  <2> DEFINE p == [msg |-> m, trigger |-> (LmnGetTickCount + d) % TickMod, at |-> now]
  <2>1. /\ fate[m] = "unposted" /\ m \in Msgs /\ fate' = [fate EXCEPT ![m] = "posting"]
        /\ posting' = posting \cup {p} /\ p.msg = m
        /\ UNCHANGED <<q, dq, batch, pc, log>>
    BY <1>3 DEF LmxPostDelayMessage, Msgs
  <2> HIDE DEF p
  <2>2. WithFate("posted")' = WithFate("posted") /\ WithFate("delivered")' = WithFate("delivered")
    BY <2>1, <1>f DEF WithFate
  <2>3. \A r \in posting : r.msg # m
    BY <2>1 DEF ThreadInv, PostingOnce
  <2>4. PostingOnce'
    BY <2>1, <2>3, <1>f, <1>g DEF ThreadInv, PostingOnce
  <2>5. Named(dq)' = Named(dq)
    BY <2>1
  <2> QED
    BY <2>1, <2>2, <2>4, <2>5, <1>t DEF ThreadInv, ListsOnce, LogOnce, BatchInHand
<1>4. ASSUME NEW p \in posting, InsertDelayed(p) PROVE ThreadInv'
  <2> DEFINE e == [msg |-> p.msg, trigger |-> p.trigger]
             n == InsertAfter(p.trigger)
  <2>1. /\ fate[p.msg] = "posting" /\ p.msg \in Msgs /\ p.msg \in Delayed
        /\ fate' = [fate EXCEPT ![p.msg] = "posted"]
        /\ posting' = posting \ {p} /\ dq' = InsertAt(dq, n + 1, e)
        /\ UNCHANGED <<q, batch, pc, log>>
    BY <1>4, <1>g DEF InsertDelayed, ThreadInv, PostingOnce
  <2>2. e \in Entries /\ e.msg = p.msg
    BY <1>t DEF TypeOK, Entries
  <2>3. dq \in Seq(Entries) /\ Len(dq) \in Nat /\ n \in 0 .. Len(dq)
    BY <1>t, LenProperties, InsertAfterType DEF TypeOK
  <2> HIDE DEF e, n
  <2>4. Named(dq') = InsertAt(Named(dq), n + 1, p.msg)
    BY <2>1, <2>2, <2>3, NamedInsertAt
  <2>5. /\ WithFate("posted")' = WithFate("posted") \cup {p.msg} /\ p.msg \notin WithFate("posted")
        /\ WithFate("delivered")' = WithFate("delivered")
    BY <2>1, <1>f DEF WithFate
  <2>6. p.msg \notin ToSet(Named(dq)) /\ p.msg \notin ToSet(batch)
    BY <2>5 DEF ThreadInv, ListsOnce
  <2>7. IsInjective(Named(dq')) /\ ToSet(Named(dq')) = ToSet(Named(dq)) \cup {p.msg}
    <3>1. Named(dq) \in Seq(Delayed) /\ n \in 0 .. Len(Named(dq)) /\ IsInjective(Named(dq))
      BY <2>3, NamedType DEF ThreadInv, ListsOnce
    <3> QED
      BY <3>1, <2>1, <2>4, <2>6, InsertContents
  <2>8. ListsOnce'
    <3>1. Named(dq)' = Named(dq')
      BY DEF Named
    <3> QED
      BY <3>1, <2>1, <2>5, <2>6, <2>7 DEF ThreadInv, ListsOnce
  <2>9. PostingOnce'
    BY <2>1, <1>f, <1>g DEF ThreadInv, PostingOnce
  <2> QED
    BY <2>1, <2>5, <2>8, <2>9, <1>t DEF ThreadInv, LogOnce, BatchInHand
<1>5. ASSUME LmxDestroyThread \/ LoopTop \/ Tick \/ UNCHANGED vars PROVE ThreadInv'
  <2>1. UNCHANGED <<q, dq, batch, fate, posting, log>> /\ (pc' = pc \/ pc # "deliver")
    BY <1>5 DEF LmxDestroyThread, LoopTop, Tick, vars
  <2>2. /\ WithFate("posted")' = WithFate("posted") /\ WithFate("delivered")' = WithFate("delivered")
        /\ Named(dq)' = Named(dq)
    BY <2>1 DEF WithFate
  <2> QED
    BY <2>1, <2>2, <1>t DEF ThreadInv, ListsOnce, LogOnce, PostingOnce, BatchInHand
<1>6. CASE Collect
  <2>1. /\ pc = "collect" /\ UNCHANGED <<fate, posting, log>> /\ batch = <<>>
        /\ pc' # "deliver" => batch' = <<>>
    BY <1>6 DEF Collect, ThreadInv, BatchInHand
  <2>2. WithFate("posted")' = WithFate("posted") /\ WithFate("delivered")' = WithFate("delivered")
    BY <2>1 DEF WithFate
  <2> DEFINE d == Named(dq)
  <2>3. PICK n \in 0 .. Len(dq) :
          /\ Named(dq') = SubSeq(d, n + 1, Len(d)) /\ d \in Seq(Delayed) /\ n \in 0 .. Len(d)
          /\ \/ n > 0 /\ batch' = SubSeq(d, 1, n) /\ q' = q
             \/ n = 0 /\ dq' = dq /\ q # <<>> /\ batch' = <<Head(q)>> /\ q' = Tail(q)
             \/ n = 0 /\ dq' = dq /\ q = <<>> /\ q' = q /\ batch' = batch
    BY <1>6, <1>t, Collected
  <2>4. /\ IsInjective(q) /\ IsInjective(d) /\ ToSet(batch) = {}
        /\ ToSet(q) \cap ToSet(d) = {} /\ ToSet(q) \cup ToSet(d) = WithFate("posted")
    BY <2>1, <1>t, ListTypes, EmptyContents DEF ThreadInv, ListsOnce
  <2>5. Named(dq)' = Named(dq')
    BY DEF Named
  <2>6. CASE n > 0 /\ batch' = SubSeq(d, 1, n) /\ q' = q
    <3>1. /\ ToSet(d) = ToSet(batch') \cup ToSet(Named(dq'))
          /\ IsInjective(batch') /\ IsInjective(Named(dq'))
          /\ ToSet(batch') \cap ToSet(Named(dq')) = {}
      <4> HIDE DEF d
      <4> QED
        BY <2>3, <2>4, <2>6, CutContents
    <3> HIDE DEF d
    <3>2. ListsOnce'
      BY <3>1, <2>2, <2>4, <2>5, <2>6 DEF ListsOnce
    <3> QED
      BY <3>2, <2>1, <2>2, <1>t DEF ThreadInv, LogOnce, PostingOnce, BatchInHand
  <2>7. CASE n = 0 /\ dq' = dq /\ q # <<>> /\ batch' = <<Head(q)>> /\ q' = Tail(q)
    <3>1. /\ Head(q) \in ToSet(q) /\ IsInjective(q') /\ ToSet(q') = ToSet(q) \ {Head(q)}
          /\ ToSet(batch') = {Head(q)} /\ IsInjective(batch')
      BY <2>4, <2>7, <1>t, TailContents, SingleContents DEF TypeOK
    <3>2. Named(dq') = d
      BY <2>7
    <3> HIDE DEF d
    <3>3. ListsOnce'
      BY <3>1, <3>2, <2>2, <2>4, <2>5 DEF ListsOnce
    <3> QED
      BY <3>3, <2>1, <2>2, <1>t DEF ThreadInv, LogOnce, PostingOnce, BatchInHand
  <2>8. CASE n = 0 /\ dq' = dq /\ q = <<>> /\ q' = q /\ batch' = batch
    <3>1. ListsOnce'
      BY <2>2, <2>5, <2>8 DEF ThreadInv, ListsOnce
    <3> QED
      BY <3>1, <2>1, <2>2, <1>t DEF ThreadInv, LogOnce, PostingOnce, BatchInHand
  <2> QED
    BY <2>3, <2>6, <2>7, <2>8
<1>7. ASSUME Deliver \/ DeliverLast PROVE ThreadInv'
  <2> DEFINE m == Head(batch)
  <2>1. /\ batch # <<>> /\ log' = Append(log, m)
        /\ UNCHANGED <<q, dq, posting>>
    BY <1>7, <1>t DEF Deliver, DeliverLast, TypeOK
  <2>2. /\ m \in ToSet(batch) /\ m \in Msgs
        /\ IsInjective(Tail(batch)) /\ ToSet(Tail(batch)) = ToSet(batch) \ {m}
    BY <2>1, <1>t, TailContents DEF TypeOK, ThreadInv, ListsOnce
  <2>3. fate[m] = "posted" /\ m \notin ToSet(log)
    BY <2>2 DEF ThreadInv, ListsOnce, LogOnce, WithFate
  <2>4. IsInjective(log') /\ ToSet(log') = ToSet(log) \cup {m}
    BY <2>1, <2>2, <2>3, <1>t, AppendContents DEF TypeOK, ThreadInv, LogOnce
  <2>5. Named(dq)' = Named(dq)
    BY <2>1
  <2>6. CASE Deliver
    <3>1. /\ batch' = Tail(batch) /\ fate' = [fate EXCEPT ![m] = "delivered"]
          /\ pc' # "deliver" => batch' = <<>>
      BY <2>6 DEF Deliver
    <3> HIDE DEF m
    <3>2. /\ WithFate("posted")' = WithFate("posted") \ {m}
          /\ WithFate("delivered")' = WithFate("delivered") \cup {m}
      BY <3>1, <2>2, <1>f DEF WithFate
    <3>3. ListsOnce'
      BY <3>1, <3>2, <2>1, <2>2, <2>5 DEF ThreadInv, ListsOnce
    <3>4. PostingOnce'
      BY <3>1, <2>1, <2>2, <2>3, <1>f, <1>g DEF ThreadInv, PostingOnce
    <3> QED
      BY <3>1, <3>2, <3>3, <3>4, <2>4, <1>t DEF ThreadInv, LogOnce, BatchInHand
  <2>7. CASE DeliverLast
    <3>1. /\ batch' = <<>> /\ pc' = "free"
          /\ fate' = [n \in Msgs |-> IF n = m THEN "delivered"
                                     ELSE IF n \in ToSet(batch) THEN "dropped" ELSE fate[n]]
      BY <2>7 DEF DeliverLast
    <3> HIDE DEF m
    <3>2. ToSet(batch) \subseteq WithFate("posted")
      BY DEF ThreadInv, ListsOnce
    <3>3. /\ WithFate("posted")' = WithFate("posted") \ ToSet(batch)
          /\ WithFate("delivered")' = WithFate("delivered") \cup {m}
      BY <3>1, <3>2, <2>2, <1>f DEF WithFate
    <3>4. ListsOnce'
      BY <3>1, <3>3, <2>1, <2>5, EmptyContents DEF ThreadInv, ListsOnce
    <3>5. PostingOnce'
      BY <3>1, <3>2, <2>1, <2>2, <1>f, <1>g DEF ThreadInv, PostingOnce, WithFate
    <3> QED
      BY <3>1, <3>3, <3>4, <3>5, <2>4, <1>t DEF ThreadInv, LogOnce, BatchInHand
  <2> QED
    BY <1>7, <2>6, <2>7
<1>8. CASE FreeThread
  <2>1. /\ pc = "free" /\ pc' = "gone" /\ q' = <<>> /\ dq' = <<>>
        /\ fate' = [m \in Msgs |-> IF fate[m] = "posted" THEN "dropped" ELSE fate[m]]
        /\ batch = <<>> /\ UNCHANGED <<batch, posting, log>>
    BY <1>8 DEF FreeThread, ThreadInv, BatchInHand
  <2>2. WithFate("posted")' = {} /\ WithFate("delivered")' = WithFate("delivered")
    BY <2>1, <1>f DEF WithFate
  <2>3. Named(dq)' = <<>>
    BY <2>1 DEF Named
  <2>4. ListsOnce'
    BY <2>1, <2>2, <2>3, EmptyContents DEF ListsOnce
  <2>5. PostingOnce'
    BY <2>1, <1>f, <1>g DEF ThreadInv, PostingOnce
  <2> QED
    BY <2>1, <2>2, <2>4, <2>5, <1>t DEF ThreadInv, LogOnce, BatchInHand
<1> QED
  BY <1>1, <1>2, <1>3, <1>4, <1>5, <1>6, <1>7, <1>8 DEF Next, Posts, Loop

-----------------------------------------------------------------------------
(* The variables of the thread keep their types, for any messages, delays,  *)
(* start and width of the tick: the lists that LmxPostMessage,              *)
(* LmxPostDelayMessage and the loop share hold entries only.                *)
THEOREM LmxTypeCorrect == Spec => []TypeOK
<1>1. Init => TypeOK
  BY TypeInit
<1>2. TypeOK /\ [Next]_vars => TypeOK'
  BY TypeStep
<1> QED
  BY <1>1, <1>2, PTL DEF Spec

(* A message that LmxPostMessage or LmxPostDelayMessage accepted is in one  *)
(* of the three lists of the thread, once, until the callback has got it or *)
(* it was freed, and the callback gets no message twice: whoever posts,     *)
(* destroys or stops the loop, and however the ticks wrap.                  *)
THEOREM LmxPostedOnce == Spec => []PostedOnce
<1>1. Init => ThreadInv
  BY OnceInit
<1>2. ThreadInv /\ [Next]_vars => ThreadInv'
  BY OnceStep
<1>3. ThreadInv => PostedOnce
  BY InvImpliesOnce
<1> QED
  BY <1>1, <1>2, <1>3, PTL DEF Spec


-----------------------------------------------------------------------------
(* Ticks stand for times.  The product of the POSIX tick count wraps before *)
(* the division where Clk > 1; up to then, and always where Clk is 1, the   *)
(* tick is the time modulo TickMod.                                         *)

TicksSteady == Clk = 1 \/ (Start + Horizon) * Clk < TickMod

TickAt(t) == (Start + t) % TickMod

(* The tick that is read is the tick of the time. *)
LEMMA TickIsTime ==
  ASSUME TicksSteady, now \in 0 .. Horizon
  PROVE  LmnGetTickCount = TickAt(now)
<1> USE ThreadAssumption DEF ThreadAssumption
<1> DEFINE x == Start + now
<1>1. x \in Nat /\ Clk \in Nat \ {0} /\ TickMod \in Nat \ {0} /\ x <= Start + Horizon
  OBVIOUS
<1>2. LmnGetTickCount = ((x * Clk) % TickMod) \div Clk /\ TickAt(now) = x % TickMod
  BY DEF LmnGetTickCount, TickAt
<1> HIDE DEF x
<1>3. CASE Clk = 1
  <2>1. x * Clk = x /\ x % TickMod \in Nat
    BY <1>1, <1>3
  <2>2. (x % TickMod) \div 1 = x % TickMod
    BY <2>1
  <2> QED
    BY <1>2, <1>3, <2>1, <2>2
<1>4. CASE (Start + Horizon) * Clk < TickMod
  <2>1. x * Clk \in Nat /\ x * Clk <= (Start + Horizon) * Clk /\ x <= x * Clk
    <3> DEFINE y == Start + Horizon - x
    <3>1. y \in Nat /\ Clk - 1 \in Nat
      BY <1>1
    <3>2. y * Clk \in Nat /\ x * (Clk - 1) \in Nat /\ x * Clk \in Nat
      BY <3>1, <1>1
    <3>3. y * Clk = (Start + Horizon) * Clk - x * Clk /\ x * (Clk - 1) = x * Clk - x
      BY <1>1
    <3>4. (Start + Horizon) * Clk \in Nat
      BY <1>1
    <3> HIDE DEF y
    <3> QED
      BY <3>2, <3>3, <3>4, <1>1
  <2> DEFINE z == x * Clk
  <2>2. z \in 0 .. TickMod - 1 /\ x \in 0 .. TickMod - 1
    <3>1. (Start + Horizon) * Clk \in Nat
      BY <1>1
    <3> QED
      BY <2>1, <3>1, <1>1, <1>4
  <2>3. z % TickMod = z /\ x % TickMod = x
    <3> HIDE DEF z
    <3>1. TickMod * 0 + z = z /\ TickMod * 0 + x = x
      BY <1>1, <2>2
    <3>2. (TickMod * 0 + z) % TickMod = z /\ (TickMod * 0 + x) % TickMod = x
      BY <1>1, <2>2, ResidueIs
    <3> QED
      BY <3>1, <3>2
  <2>4. z \div Clk = x
    <3>1. z \in Nat
      BY <2>1
    <3>2. z = Clk * x + 0 /\ 0 \in 0 .. Clk - 1 /\ x \in Int
      BY <1>1
    <3> DEFINE k == z \div Clk  r == z % Clk
    <3> HIDE DEF z
    <3>3. k \in Int /\ r \in 0 .. Clk - 1 /\ Clk * k + r = Clk * x + 0
      <4>1. Clk \in Nat \ {0}
        BY <1>1
      <4>2. z \div Clk \in Nat /\ z % Clk \in 0 .. Clk - 1 /\ z = Clk * (z \div Clk) + (z % Clk)
        BY ONLY <3>1, <4>1, Division
      <4> QED
        BY <3>2, <4>2
    <3> HIDE DEF k, r
    <3>4. k = x
      BY <3>2, <3>3, <1>1, DivisionUnique
    <3> QED
      BY <3>4 DEF k
  <2> QED
    BY <1>2, <2>3, <2>4
<1> QED
  BY <1>3, <1>4 DEF TicksSteady

(* The trigger of a delayed post is the tick of the time it is due. *)
LEMMA TriggerIsDue ==
  ASSUME NEW t \in Nat, NEW d \in Nat
  PROVE  (TickAt(t) + d) % TickMod = TickAt(t + d)
<1>1. Start + t \in Nat /\ TickMod \in Nat \ {0} /\ (Start + t) + d = Start + (t + d)
  BY ThreadAssumption DEF ThreadAssumption
<1>2. (((Start + t) % TickMod) + d) % TickMod = ((Start + t) + d) % TickMod
  BY <1>1, ResidueSum
<1> QED
  BY <1>1, <1>2 DEF TickAt

(* Two ticks of times that are not far apart compare as the times do. *)
LEMMA TicksCompare ==
  ASSUME NEW s \in Nat, NEW t \in Nat, t - s <= MaxPost + MaxCheck
  PROVE  /\ s - t <= MaxPost + MaxCheck => (NotBefore(TickAt(s), TickAt(t)) <=> t <= s)
         /\ s - t <= MaxCheck => (Minus(TickAt(s), TickAt(t)) <= MaxCheck <=> t <= s)
<1> USE ThreadAssumption DEF ThreadAssumption
<1> SUFFICES ASSUME s - t <= MaxPost + MaxCheck
             PROVE  /\ NotBefore(TickAt(s), TickAt(t)) <=> t <= s
                    /\ s - t <= MaxCheck => (Minus(TickAt(s), TickAt(t)) <= MaxCheck <=> t <= s)
  OBVIOUS
<1> DEFINE x == Start + s  y == Start + t
<1>1. x \in Nat /\ y \in Nat /\ x - y = s - t /\ TickMod \in Nat \ {0}
      /\ x - y < TickMod /\ y - x < TickMod /\ (y <= x <=> t <= s)
  OBVIOUS
<1> DEFINE m == Minus(TickAt(s), TickAt(t))
<1>2. m = IF t <= s THEN s - t ELSE TickMod + (s - t)
  <2>1. ((x % TickMod) - (y % TickMod)) % TickMod = IF y <= x THEN x - y ELSE TickMod + x - y
    <3> HIDE DEF x, y
    <3> QED
      BY <1>1, ResidueDifference
  <2>2. m = ((x % TickMod) - (y % TickMod)) % TickMod
    BY DEF Minus, TickAt
  <2> HIDE DEF m, x, y
  <2> QED
    BY <1>1, <2>1, <2>2
<1>3. NotBefore(TickAt(s), TickAt(t)) <=> m <= MaxPost + MaxCheck
  BY DEF NotBefore
<1> HIDE DEF m
<1>4. m <= MaxPost + MaxCheck <=> t <= s
  BY <1>2
<1>5. s - t <= MaxCheck => (m <= MaxCheck <=> t <= s)
  BY <1>2
<1> QED
  BY <1>3, <1>4, <1>5 DEF m


-----------------------------------------------------------------------------
(* What the order of deliveries rests on.  The delayed list is in the order *)
(* of its times and no time in it is far from now, so the comparisons of    *)
(* ticks that the code makes are comparisons of times; the batch is one     *)
(* normal message, or delayed ones that were due at the last look, in order.*)

InTime == now <= Horizon /\ (pc # "gone" => now < polled + MaxCheck)

LoopKnows == (bQuit => ~bRun) /\ (pc = "collect" => curTick = TickAt(asked))

PostsTimed ==
  \A p \in posting :
    /\ p.trigger = TickAt(due[p.msg])
    /\ due[p.msg] \in p.at .. p.at + MaxPost
    /\ pc # "gone" => now <= p.at + 1

ListTimed ==
  /\ \A e \in ToSet(dq) : e.trigger = TickAt(due[e.msg])
  /\ \A m \in ToSet(Named(dq)) : due[m] \in polled - 1 .. now + MaxPost
  /\ Ascending(due, Named(dq))

BatchTimed ==
  \/ \E m \in Normal : batch = <<m>>
  \/ /\ batch \in Seq(Delayed) /\ Ascending(due, batch)
     /\ \A m \in ToSet(batch) : due[m] <= polled

MailInv == InTime /\ LoopKnows /\ PostsTimed /\ ListTimed /\ BatchTimed

(* The numbers that the proofs about time need. *)
LEMMA TimesAreNumbers ==
  ASSUME TypeOK
  PROVE  /\ MaxCheck \in Nat /\ MaxCheck > 1 /\ MaxPost \in Nat /\ MaxCheck <= MaxPost
         /\ Horizon \in Nat /\ Delays \subseteq Nat
         /\ now \in Nat /\ asked \in 0 .. now /\ polled \in 0 .. asked
         /\ polled \in Nat /\ asked \in Nat
         /\ due \in [Delayed -> Nat]
         /\ \A p \in posting : p.at \in 0 .. now /\ p.msg \in Delayed
BY ThreadAssumption DEF ThreadAssumption, TypeOK

(* An entry of the delayed list and its message. *)
LEMMA EntryOf ==
  ASSUME TypeOK, NEW i \in 1 .. Len(dq)
  PROVE  /\ dq[i] \in ToSet(dq) /\ dq[i] \in Entries /\ dq[i].msg \in Delayed
         /\ Named(dq)[i] = dq[i].msg /\ dq[i].msg \in ToSet(Named(dq))
<1>1. dq \in Seq(Entries) /\ dq[i] \in Entries
  BY LenProperties DEF TypeOK
<1>2. dq[i] \in ToSet(dq)
  BY <1>1, Contents
<1>3. Named(dq) \in Seq(Delayed) /\ Len(Named(dq)) = Len(dq) /\ Named(dq)[i] = dq[i].msg
  BY <1>1, NamedType
<1>4. Named(dq)[i] \in ToSet(Named(dq))
  BY <1>3, Contents
<1> QED
  BY <1>1, <1>2, <1>3, <1>4 DEF Entries

(* Where a delayed post is inserted: behind all that are due no later. *)
LEMMA InsertAfterIs ==
  ASSUME TypeOK, MailInv, pc # "gone", NEW p \in posting
  PROVE  /\ InsertAfter(p.trigger) \in 0 .. Len(dq)
         /\ \A i \in 1 .. InsertAfter(p.trigger) : due[dq[i].msg] <= due[p.msg]
         /\ \A i \in InsertAfter(p.trigger) + 1 .. Len(dq) : due[p.msg] <= due[dq[i].msg]
<1> DEFINE behind == {i \in 1 .. Len(dq) : NotBefore(p.trigger, dq[i].trigger)}
           last == CHOOSE i \in behind : \A j \in behind : j <= i
           k == InsertAfter(p.trigger)
<1>0. Len(dq) \in Nat /\ dq \in Seq(Entries)
  BY LenProperties DEF TypeOK
<1>1. ASSUME NEW i \in 1 .. Len(dq)
      PROVE  NotBefore(p.trigger, dq[i].trigger) <=> due[dq[i].msg] <= due[p.msg]
  <2> DEFINE s == due[p.msg]  t == due[dq[i].msg]
  <2>1. p.trigger = TickAt(s) /\ dq[i].trigger = TickAt(t)
    BY EntryOf DEF MailInv, PostsTimed, ListTimed
  <2>2. s \in Nat /\ t \in Nat
    BY EntryOf, TimesAreNumbers
  <2>3. t - s <= MaxPost + MaxCheck /\ s - t <= MaxPost + MaxCheck
    <3>1. s \in p.at .. p.at + MaxPost /\ now <= p.at + 1 /\ p.at \in 0 .. now
      BY TimesAreNumbers DEF MailInv, PostsTimed
    <3>2. t \in polled - 1 .. now + MaxPost
      BY EntryOf DEF MailInv, ListTimed
    <3>3. now < polled + MaxCheck
      BY DEF MailInv, InTime
    <3>4. /\ MaxCheck \in Nat /\ MaxCheck > 1 /\ MaxPost \in Nat /\ now \in Nat /\ polled \in 0 .. now
          /\ p.at \in Nat
      BY <3>1, TimesAreNumbers
    <3> HIDE DEF s, t
    <3>5. p.at <= s /\ s <= p.at + MaxPost /\ polled - 1 <= t /\ t <= now + MaxPost
      BY <3>1, <3>2, <3>4, <2>2
    <3> QED
      BY ONLY <2>2, <3>1, <3>3, <3>4, <3>5
  <2> HIDE DEF s, t
  <2>4. NotBefore(TickAt(s), TickAt(t)) <=> t <= s
    BY <2>2, <2>3, TicksCompare
  <2> QED
    BY <2>1, <2>4 DEF s, t
<1>2. k = IF behind = {} THEN 0 ELSE last
  BY DEF InsertAfter
<1>3. behind \subseteq 1 .. Len(dq)
  OBVIOUS
<1>4. \A i \in 1 .. Len(dq) : i \in behind <=> due[dq[i].msg] <= due[p.msg]
  BY <1>1
<1>5. ASSUME NEW i \in 1 .. Len(dq), NEW j \in 1 .. Len(dq), i <= j
      PROVE  due[dq[i].msg] <= due[dq[j].msg]
  <2>1. Named(dq)[i] = dq[i].msg /\ Named(dq)[j] = dq[j].msg /\ Len(Named(dq)) = Len(dq)
    BY <1>0, NamedType
  <2> QED
    BY <2>1, <1>5 DEF MailInv, ListTimed, Ascending
<1>6. /\ \A i \in 1 .. Len(dq) : due[dq[i].msg] \in Nat
      /\ due[p.msg] \in Nat
  BY EntryOf, TimesAreNumbers
<1> HIDE DEF behind, k
<1>7. ASSUME behind # {} PROVE last \in behind /\ \A j \in behind : j <= last
  <2>1. \E i \in behind : \A j \in behind : j <= i
    BY <1>0, <1>3, <1>7, LastPosition
  <2> QED
    BY <2>1, Zenon
<1> HIDE DEF last
<1>8. k \in 0 .. Len(dq) /\ (k = 0 \/ k \in behind) /\ \A j \in behind : j <= k
  BY <1>0, <1>2, <1>3, <1>7
<1>9. ASSUME NEW i \in 1 .. k PROVE due[dq[i].msg] <= due[p.msg]
  <2>1. k \in behind /\ k \in 1 .. Len(dq) /\ i \in 1 .. Len(dq) /\ i <= k
    BY <1>0, <1>8
  <2>2. due[dq[k].msg] <= due[p.msg]
    BY <2>1, <1>4
  <2>3. due[dq[i].msg] <= due[dq[k].msg]
    BY <2>1, <1>5
  <2> QED
    BY <2>1, <2>2, <2>3, <1>6
<1>10. ASSUME NEW i \in k + 1 .. Len(dq) PROVE due[p.msg] <= due[dq[i].msg]
  <2>1. i \in 1 .. Len(dq) /\ i \notin behind
    BY <1>0, <1>8
  <2> QED
    BY <2>1, <1>4, <1>6
<1> QED
  BY <1>8, <1>9, <1>10 DEF k

(* What is taken out at a look is what is due by then. *)
LEMMA ExpiredCountIs ==
  ASSUME TypeOK, MailInv, pc = "collect"
  PROVE  /\ ExpiredCount \in 0 .. Len(dq)
         /\ \A i \in 1 .. ExpiredCount : due[dq[i].msg] <= asked
         /\ \A i \in ExpiredCount + 1 .. Len(dq) : asked < due[dq[i].msg]
<1> DEFINE waiting == {i \in 1 .. Len(dq) : ~Expired(dq[i])}
           first == CHOOSE i \in waiting : \A j \in waiting : i <= j
           n == ExpiredCount
<1>0. Len(dq) \in Nat /\ dq \in Seq(Entries)
  BY LenProperties DEF TypeOK
<1>1. ASSUME NEW i \in 1 .. Len(dq)
      PROVE  Expired(dq[i]) <=> due[dq[i].msg] <= asked
  <2> DEFINE t == due[dq[i].msg]
  <2>1. curTick = TickAt(asked) /\ dq[i].trigger = TickAt(t)
    BY EntryOf DEF MailInv, LoopKnows, ListTimed
  <2>2. t \in Nat /\ asked \in Nat
    BY EntryOf, TimesAreNumbers
  <2>3. t - asked <= MaxPost + MaxCheck /\ asked - t <= MaxCheck
    <3>1. t \in polled - 1 .. now + MaxPost
      BY EntryOf DEF MailInv, ListTimed
    <3>2. now < polled + MaxCheck
      BY DEF MailInv, InTime
    <3>3. /\ MaxCheck \in Nat /\ MaxCheck > 1 /\ MaxPost \in Nat /\ now \in Nat
          /\ polled \in 0 .. asked /\ asked \in 0 .. now
      BY TimesAreNumbers
    <3> HIDE DEF t
    <3> QED
      BY ONLY <2>2, <3>1, <3>2, <3>3
  <2> HIDE DEF t
  <2>4. Minus(TickAt(asked), TickAt(t)) <= MaxCheck <=> t <= asked
    <3>1. asked - t <= MaxPost + MaxCheck
      BY <2>2, <2>3, TimesAreNumbers
    <3> QED
      BY <3>1, <2>2, <2>3, TicksCompare
  <2> QED
    BY <2>1, <2>4 DEF t, Expired
<1>2. n = IF waiting = {} THEN Len(dq) ELSE first - 1
  BY DEF ExpiredCount
<1>3. waiting \subseteq 1 .. Len(dq)
  OBVIOUS
<1>4. \A i \in 1 .. Len(dq) : i \in waiting <=> ~(due[dq[i].msg] <= asked)
  BY <1>1
<1>5. ASSUME NEW i \in 1 .. Len(dq), NEW j \in 1 .. Len(dq), i <= j
      PROVE  due[dq[i].msg] <= due[dq[j].msg]
  <2>1. Named(dq)[i] = dq[i].msg /\ Named(dq)[j] = dq[j].msg /\ Len(Named(dq)) = Len(dq)
    BY <1>0, NamedType
  <2> QED
    BY <2>1, <1>5 DEF MailInv, ListTimed, Ascending
<1>6. asked \in Nat /\ \A i \in 1 .. Len(dq) : due[dq[i].msg] \in Nat
  BY EntryOf, TimesAreNumbers
<1> HIDE DEF waiting, n
<1>7. ASSUME waiting # {} PROVE first \in waiting /\ \A j \in waiting : first <= j
  <2>1. \E i \in waiting : \A j \in waiting : i <= j
    BY <1>3, <1>7, FirstPosition
  <2> QED
    BY <2>1, Zenon
<1> HIDE DEF first
<1>8. n \in 0 .. Len(dq) /\ (n = Len(dq) \/ n + 1 \in waiting) /\ \A j \in waiting : n < j
  <2>1. CASE waiting = {}
    BY <2>1, <1>0, <1>2
  <2>2. CASE waiting # {}
    <3>1. first \in 1 .. Len(dq) /\ n = first - 1
      BY <2>2, <1>2, <1>3, <1>7
    <3>2. first - 1 \in 0 .. Len(dq) /\ first = (first - 1) + 1
      BY <3>1, <1>0
    <3>3. \A j \in waiting : first - 1 < j
      BY <3>1, <2>2, <1>3, <1>7
    <3> QED
      BY <3>1, <3>2, <3>3, <2>2, <1>7
  <2> QED
    BY <2>1, <2>2
<1>9. ASSUME NEW i \in 1 .. n PROVE due[dq[i].msg] <= asked
  <2>1. i \in 1 .. Len(dq) /\ i \notin waiting
    BY <1>0, <1>8
  <2> QED
    BY <2>1, <1>4
<1>10. ASSUME NEW i \in n + 1 .. Len(dq) PROVE asked < due[dq[i].msg]
  <2>1. n + 1 \in waiting /\ n + 1 \in 1 .. Len(dq) /\ i \in 1 .. Len(dq) /\ n + 1 <= i
    BY <1>0, <1>8
  <2>2. ~(due[dq[n + 1].msg] <= asked) /\ due[dq[n + 1].msg] <= due[dq[i].msg]
    BY <2>1, <1>4, <1>5
  <2> DEFINE a == due[dq[n + 1].msg]  b == due[dq[i].msg]
  <2>3. a \in Nat /\ b \in Nat /\ ~(a <= asked) /\ a <= b
    BY <2>1, <2>2, <1>6
  <2> HIDE DEF a, b
  <2>4. asked < b
    BY <2>3, <1>6
  <2> QED
    BY <2>4 DEF b
<1> QED
  BY <1>8, <1>9, <1>10 DEF n


(* All of this holds at the start. *)
LEMMA MailInit == Init => MailInv
<1> SUFFICES ASSUME Init PROVE MailInv
  OBVIOUS
<1>1. dq = <<>> /\ batch = <<>> /\ posting = {} /\ now = 0 /\ polled = 0 /\ pc = "top"
      /\ bQuit = FALSE /\ due \in [Delayed -> Nat]
  BY DEF Init
<1>2. Named(dq) = <<>>
  BY <1>1 DEF Named
<1>3. Ascending(due, <<>>)
  BY DEF Ascending
<1>4. <<>> \in Seq(Delayed)
  BY EmptySeq
<1>5. InTime
  BY <1>1, TimesAreNumbers, TypeInit DEF InTime
<1>6. LoopKnows /\ PostsTimed
  BY <1>1 DEF LoopKnows, PostsTimed
<1>7. ListTimed
  BY <1>1, <1>2, <1>3, EmptyContents DEF ListTimed
<1>8. BatchTimed
  BY <1>1, <1>3, <1>4, EmptyContents DEF BatchTimed
<1> QED
  BY <1>5, <1>6, <1>7, <1>8 DEF MailInv

(* A delayed post takes its tick; what waits already keeps its time. *)
LEMMA MailPostDelay ==
  ASSUME TicksSteady, ThreadInv, ThreadInv', MailInv, NEW m \in Delayed, NEW d \in Delays,
         LmxPostDelayMessage(m, d)
  PROVE  MailInv'
<1> DEFINE p == [msg |-> m, trigger |-> (LmnGetTickCount + d) % TickMod, at |-> now]
<1>1. /\ fate[m] = "unposted" /\ d <= MaxPost /\ due' = [due EXCEPT ![m] = now + d]
      /\ posting' = posting \cup {p}
      /\ UNCHANGED <<bRun, dq, batch, pc, bQuit, curTick, now, asked, polled>>
  BY DEF LmxPostDelayMessage
<1>2. TypeOK /\ d \in Nat
  BY TimesAreNumbers DEF ThreadInv
<1>3. due[m]' = now + d /\ \A n \in Delayed : n # m => due'[n] = due[n]
  BY <1>1, <1>2, TimesAreNumbers
<1>4. p.trigger = TickAt(now + d)
  <2>1. now \in 0 .. Horizon
    BY <1>2, TimesAreNumbers DEF MailInv, InTime
  <2>2. LmnGetTickCount = TickAt(now)
    BY <2>1, TickIsTime
  <2> QED
    BY <2>1, <2>2, <1>2, TriggerIsDue
<1>5. p.msg = m /\ p.at = now
  OBVIOUS
<1> HIDE DEF p
<1>6. /\ \A r \in posting : r.msg # m /\ r.msg \in Delayed
      /\ \A n \in ToSet(Named(dq)) : n # m /\ n \in Delayed
      /\ \A n \in ToSet(batch) : n # m
  <2>1. \A r \in posting : r.msg # m /\ r.msg \in Delayed
    BY <1>1, <1>2, TimesAreNumbers DEF ThreadInv, PostingOnce
  <2>2. \A n \in ToSet(Named(dq)) \cup ToSet(batch) : n # m
    BY <1>1 DEF ThreadInv, ListsOnce, WithFate
  <2> QED
    BY <1>2, <2>1, <2>2, ListTypes
<1>7. InTime' /\ LoopKnows'
  BY <1>1 DEF MailInv, InTime, LoopKnows, TickAt
<1>8. PostsTimed'
  <2> SUFFICES ASSUME NEW r \in posting'
               PROVE  /\ r.trigger = TickAt(due'[r.msg])
                      /\ due'[r.msg] \in r.at .. r.at + MaxPost
                      /\ pc' # "gone" => now' <= r.at + 1
    BY DEF PostsTimed, TickAt
  <2>1. CASE r = p
    BY <2>1, <1>1, <1>2, <1>3, <1>4, <1>5, TimesAreNumbers
  <2>2. CASE r \in posting
    BY <2>2, <1>1, <1>3, <1>6 DEF MailInv, PostsTimed
  <2> QED
    BY <2>1, <2>2, <1>1
<1>9. ListTimed'
  <2>1. Named(dq) \in Seq(Delayed)
    BY <1>2, NamedType DEF TypeOK
  <2>2. \A n \in ToSet(Named(dq)) : due[n] = due'[n]
    BY <1>3, <1>6
  <2>3. Ascending(due', Named(dq))
    BY <2>1, <2>2, AscendingSame DEF MailInv, ListTimed
  <2>4. \A e \in ToSet(dq) : e.msg \in ToSet(Named(dq))
    <3> TAKE e \in ToSet(dq)
    <3>1. PICK i \in 1 .. Len(dq) : e = dq[i]
      BY <1>2, Contents DEF TypeOK
    <3> QED
      BY <3>1, <1>2, EntryOf
  <2>5. Named(dq)' = Named(dq)
    BY <1>1
  <2> QED
    BY <2>2, <2>3, <2>4, <2>5, <1>1 DEF MailInv, ListTimed, TickAt
<1>10. BatchTimed'
  <2>1. CASE \E n \in Normal : batch = <<n>>
    BY <2>1, <1>1 DEF BatchTimed
  <2>2. CASE /\ batch \in Seq(Delayed) /\ Ascending(due, batch)
             /\ \A n \in ToSet(batch) : due[n] <= polled
    <3>1. \A n \in ToSet(batch) : due[n] = due'[n]
      BY <2>2, <1>3, <1>6, Contents
    <3>2. Ascending(due', batch)
      BY <2>2, <3>1, AscendingSame
    <3> QED
      BY <2>2, <3>1, <3>2, <1>1 DEF BatchTimed
  <2> QED
    BY <2>1, <2>2 DEF MailInv, BatchTimed
<1> QED
  BY <1>7, <1>8, <1>9, <1>10 DEF MailInv

(* It is inserted where the list stays in order. *)
LEMMA MailInsert ==
  ASSUME ThreadInv, MailInv, NEW p \in posting, InsertDelayed(p)
  PROVE  MailInv'
<1> DEFINE e == [msg |-> p.msg, trigger |-> p.trigger]
           n == InsertAfter(p.trigger)
<1>1. /\ pc # "gone" /\ posting' = posting \ {p} /\ dq' = InsertAt(dq, n + 1, e)
      /\ UNCHANGED <<bRun, batch, pc, bQuit, curTick, due, now, asked, polled>>
  BY DEF InsertDelayed
<1>2. TypeOK /\ dq \in Seq(Entries) /\ Len(dq) \in Nat /\ p.msg \in Delayed
  BY TimesAreNumbers, LenProperties DEF ThreadInv, TypeOK
<1>3. e \in Entries /\ e.msg = p.msg /\ e.trigger = TickAt(due[p.msg])
  BY <1>2 DEF TypeOK, Entries, MailInv, PostsTimed
<1>4. /\ n \in 0 .. Len(dq)
      /\ \A i \in 1 .. n : due[dq[i].msg] <= due[p.msg]
      /\ \A i \in n + 1 .. Len(dq) : due[p.msg] <= due[dq[i].msg]
  BY <1>1, <1>2, InsertAfterIs
<1> HIDE DEF e, n
<1>5. /\ dq' \in Seq(Entries) /\ ToSet(dq') = ToSet(dq) \cup {e}
      /\ Named(dq') = InsertAt(Named(dq), n + 1, p.msg)
  <2>1. dq' \in Seq(Entries) /\ Named(dq') = InsertAt(Named(dq), n + 1, p.msg)
    BY <1>1, <1>2, <1>3, <1>4, NamedInsertAt
  <2>2. ToSet(dq') = ToSet(dq) \cup {e}
    <3>1. Extended(Entries, InsertAt(dq, n + 1, e), dq, e)
      BY <1>2, <1>3, <1>4, InsertAdds, Zenon
    <3> QED
      BY <3>1, <1>1 DEF Extended
  <2> QED
    BY <2>1, <2>2
<1>6. /\ Named(dq) \in Seq(Delayed) /\ Len(Named(dq)) = Len(dq)
      /\ \A i \in 1 .. Len(dq) : Named(dq)[i] = dq[i].msg
  BY <1>2, NamedType
<1>7. ToSet(Named(dq')) = ToSet(Named(dq)) \cup {p.msg} /\ Ascending(due, Named(dq'))
  <2> DEFINE s == Named(dq)
  <2>1. s \in Seq(Delayed) /\ n \in 0 .. Len(s) /\ Ascending(due, s) /\ due \in [Delayed -> Nat]
    BY <1>2, <1>4, <1>6, TimesAreNumbers DEF MailInv, ListTimed
  <2>2. /\ \A i \in 1 .. n : due[s[i]] <= due[p.msg]
        /\ \A i \in n + 1 .. Len(s) : due[p.msg] <= due[s[i]]
    <3>1. \A i \in 1 .. n : i \in 1 .. Len(dq)
      BY <1>2, <1>4
    <3>2. \A i \in n + 1 .. Len(s) : i \in 1 .. Len(dq) /\ i \in n + 1 .. Len(dq)
      BY <1>2, <1>4, <1>6
    <3> QED
      BY <3>1, <3>2, <1>4, <1>6
  <2> HIDE DEF s
  <2>3. ToSet(InsertAt(s, n + 1, p.msg)) = ToSet(s) \cup {p.msg}
    <3>1. Extended(Delayed, InsertAt(s, n + 1, p.msg), s, p.msg)
      BY <2>1, <1>2, InsertAdds, Zenon
    <3> QED
      BY <3>1 DEF Extended
  <2>4. Ascending(due, InsertAt(s, n + 1, p.msg))
    BY <2>1, <2>2, <1>2, AscendingInsert
  <2> QED
    BY <2>3, <2>4, <1>5 DEF s
<1>8. ListTimed'
  <2>1. Named(dq)' = Named(dq')
    BY DEF Named
  <2>2. due[p.msg] \in polled - 1 .. now + MaxPost
    <3>1. /\ due[p.msg] \in p.at .. p.at + MaxPost /\ now <= p.at + 1
          /\ p.at \in 0 .. now /\ now \in Nat /\ polled \in 0 .. now /\ MaxPost \in Nat
      BY <1>1, <1>2, TimesAreNumbers DEF MailInv, PostsTimed
    <3> QED
      BY <3>1
  <2>3. \A x \in ToSet(dq') : x.trigger = TickAt(due[x.msg])
    BY <1>3, <1>5 DEF MailInv, ListTimed
  <2>4. \A x \in ToSet(Named(dq')) : due[x] \in polled - 1 .. now + MaxPost
    BY <2>2, <1>7 DEF MailInv, ListTimed
  <2> QED
    BY <2>1, <2>3, <2>4, <1>1, <1>7 DEF ListTimed, TickAt
<1>9. InTime' /\ LoopKnows' /\ PostsTimed' /\ BatchTimed'
  BY <1>1 DEF MailInv, InTime, LoopKnows, PostsTimed, BatchTimed, TickAt
<1> QED
  BY <1>8, <1>9 DEF MailInv


(* A look at the lists: what is due goes into the batch, in order, and what *)
(* stays is due later than the look.                                        *)
LEMMA MailCollect ==
  ASSUME ThreadInv, MailInv, Collect
  PROVE  MailInv'
<1> DEFINE n == ExpiredCount  d == Named(dq)
<1>1. /\ pc = "collect" /\ dq' = SubSeq(dq, n + 1, Len(dq)) /\ polled' = asked
      /\ \/ n > 0 /\ batch' = [i \in 1 .. n |-> dq[i].msg] /\ q' = q
         \/ n = 0 /\ q # <<>> /\ batch' = <<Head(q)>> /\ q' = Tail(q)
         \/ n = 0 /\ q = <<>> /\ q' = q /\ batch' = batch
      /\ pc' \in {"deliver", "free", "top"}
      /\ UNCHANGED <<bRun, bQuit, curTick, due, now, posting, asked>>
  BY DEF Collect
<1>2. /\ TypeOK /\ dq \in Seq(Entries) /\ Len(dq) \in Nat /\ q \in Seq(Normal)
      /\ polled \in 0 .. asked /\ asked \in 0 .. now /\ now \in Nat /\ MaxPost \in Nat
      /\ MaxCheck \in Nat /\ due \in [Delayed -> Nat]
  BY TimesAreNumbers, LenProperties DEF ThreadInv, TypeOK
<1>3. /\ n \in 0 .. Len(dq)
      /\ \A i \in 1 .. n : due[dq[i].msg] <= asked
      /\ \A i \in n + 1 .. Len(dq) : asked < due[dq[i].msg]
  BY <1>1, <1>2, ExpiredCountIs
<1>4. /\ d \in Seq(Delayed) /\ Len(d) = Len(dq)
      /\ \A i \in 1 .. Len(dq) : d[i] = dq[i].msg
  BY <1>2, NamedType
<1>5. [i \in 1 .. n |-> dq[i].msg] = SubSeq(d, 1, n)
  BY <1>2, <1>3, NamedPrefix
<1>6. dq' \in Seq(Entries) /\ Named(dq') = SubSeq(d, n + 1, Len(d))
  <2>1. n + 1 \in 1 .. Len(dq) + 1 /\ Len(dq) \in 0 .. Len(dq)
    BY <1>2, <1>3
  <2> QED
    BY <2>1, <1>1, <1>2, <1>4, NamedSubSeq
<1>7. \A e \in ToSet(dq') : e \in ToSet(dq)
  BY <1>1, <1>2, <1>3, CutContents
<1>8. Ascending(due, d) /\ n \in 0 .. Len(d)
  BY <1>3, <1>4 DEF MailInv, ListTimed
<1> HIDE DEF n, d
<1> DEFINE a == SubSeq(d, 1, n)  b == SubSeq(d, n + 1, Len(d))
<1>9. /\ a \in Seq(Delayed) /\ b \in Seq(Delayed)
      /\ Ascending(due, a) /\ Ascending(due, b)
      /\ Len(a) = n /\ Len(b) = Len(d) - n
      /\ \A i \in 1 .. n : a[i] = d[i]
      /\ \A i \in 1 .. Len(d) - n : b[i] = d[n + i]
      /\ ToSet(b) \subseteq ToSet(d)
  BY <1>4, <1>8, CutSeq, CutBehind, CutContents, AscendingCut
<1> HIDE DEF a, b
<1>10. \A m \in ToSet(a) : due[m] <= asked
  <2> TAKE m \in ToSet(a)
  <2>1. PICK i \in 1 .. Len(a) : m = a[i]
    BY <1>9, Contents
  <2>2. i \in 1 .. n /\ i \in 1 .. Len(dq)
    BY <2>1, <1>2, <1>3, <1>9
  <2> QED
    BY <2>1, <2>2, <1>3, <1>4, <1>9
<1>11. \A m \in ToSet(b) : due[m] \in asked - 1 .. now + MaxPost
  <2> TAKE m \in ToSet(b)
  <2>1. PICK i \in 1 .. Len(b) : m = b[i]
    BY <1>9, Contents
  <2>2. n + i \in n + 1 .. Len(dq) /\ n + i \in 1 .. Len(dq) /\ i \in 1 .. Len(d) - n
    BY <2>1, <1>2, <1>3, <1>4, <1>9
  <2>3. m = dq[n + i].msg /\ asked < due[m]
    BY <2>1, <2>2, <1>3, <1>4, <1>9
  <2>4. due[m] \in polled - 1 .. now + MaxPost
    BY <1>9 DEF MailInv, ListTimed, d
  <2> QED
    BY <2>3, <2>4, <1>2
<1>12. ListTimed'
  <2>1. Named(dq)' = b
    BY <1>6 DEF Named, b
  <2>2. \A e \in ToSet(dq') : e.trigger = TickAt(due[e.msg])
    BY <1>7 DEF MailInv, ListTimed
  <2> QED
    BY <2>1, <2>2, <1>1, <1>9, <1>11 DEF ListTimed, TickAt
<1>13. BatchTimed'
  <2>1. CASE n > 0 /\ batch' = [i \in 1 .. n |-> dq[i].msg]
    <3>1. batch' = a
      BY <2>1, <1>5 DEF a
    <3> QED
      BY <3>1, <1>1, <1>9, <1>10 DEF BatchTimed
  <2>2. CASE q # <<>> /\ batch' = <<Head(q)>>
    <3>1. Head(q) \in Normal
      BY <2>2, <1>2, HeadTailProperties
    <3> QED
      BY <3>1, <2>2 DEF BatchTimed
  <2>3. CASE batch' = batch
    <3>1. batch = <<>>
      BY <1>1 DEF ThreadInv, BatchInHand
    <3>2. <<>> \in Seq(Delayed) /\ Ascending(due', <<>>) /\ ToSet(<<>>) = {}
      BY EmptySeq, EmptyContents DEF Ascending
    <3> QED
      BY <3>1, <3>2, <2>3 DEF BatchTimed
  <2> QED
    BY <1>1, <2>1, <2>2, <2>3
<1>14. InTime'
  BY <1>1, <1>2 DEF MailInv, InTime
<1>15. LoopKnows' /\ PostsTimed'
  BY <1>1 DEF MailInv, LoopKnows, PostsTimed, TickAt
<1> QED
  BY <1>12, <1>13, <1>14, <1>15 DEF MailInv

(* The batch gets shorter from its head. *)
LEMMA MailDeliver ==
  ASSUME ThreadInv, MailInv, Deliver \/ DeliverLast
  PROVE  MailInv'
<1>1. /\ pc = "deliver" /\ pc' # "collect" /\ pc' # "gone" /\ (batch' = Tail(batch) \/ batch' = <<>>)
      /\ UNCHANGED <<bRun, dq, bQuit, curTick, due, now, posting, asked, polled>>
  BY DEF Deliver, DeliverLast
<1>2. batch # <<>> /\ batch \in Seq(Msgs)
  BY <1>1 DEF ThreadInv, TypeOK
<1>3. InTime' /\ LoopKnows' /\ PostsTimed'
  BY <1>1 DEF MailInv, InTime, LoopKnows, PostsTimed, TickAt
<1>4. ListTimed'
  <2>1. Named(dq)' = Named(dq)
    BY <1>1
  <2> QED
    BY <2>1, <1>1 DEF MailInv, ListTimed, TickAt
<1>5. BatchTimed'
  <2>1. ASSUME batch' = <<>> PROVE BatchTimed'
    <3>1. <<>> \in Seq(Delayed) /\ Ascending(due', <<>>) /\ ToSet(<<>>) = {}
      BY EmptySeq, EmptyContents DEF Ascending
    <3> QED
      BY <3>1, <2>1 DEF BatchTimed
  <2>2. CASE batch' = Tail(batch)
    <3>1. CASE \E m \in Normal : batch = <<m>>
      BY <3>1, <2>1, <2>2
    <3>2. CASE /\ batch \in Seq(Delayed) /\ Ascending(due, batch)
               /\ \A m \in ToSet(batch) : due[m] <= polled
      <4>1. Tail(batch) \in Seq(Delayed) /\ Ascending(due, Tail(batch))
        BY <3>2, <1>2, HeadTailProperties, AscendingTail
      <4>2. ToSet(Tail(batch)) \subseteq ToSet(batch)
        <5>1. IsInjective(batch)
          BY DEF ThreadInv, ListsOnce
        <5> QED
          BY <5>1, <3>2, <1>2, TailContents
      <4> QED
        BY <4>1, <4>2, <3>2, <2>2, <1>1 DEF BatchTimed
    <3> QED
      BY <3>1, <3>2 DEF MailInv, BatchTimed
  <2> QED
    BY <2>1, <2>2, <1>1
<1> QED
  BY <1>3, <1>4, <1>5 DEF MailInv

(* Every step keeps it, as long as the ticks are those of the times. *)
LEMMA MailStep ==
  ASSUME TicksSteady, ThreadInv, ThreadInv', MailInv, [Next]_vars
  PROVE  MailInv'
<1>t. TypeOK
  BY DEF ThreadInv
<1>1. CASE \/ \E m \in Normal : LmxPostMessage(m) \/ LmxPostRefused(m)
           \/ LmxDestroyThread
           \/ UNCHANGED vars
  <2>1. /\ UNCHANGED <<dq, batch, pc, bQuit, curTick, due, now, posting, asked, polled>>
        /\ bRun' = bRun \/ bRun' = FALSE
    BY <1>1 DEF LmxPostMessage, LmxPostRefused, LmxDestroyThread, vars
  <2>2. Named(dq)' = Named(dq)
    BY <2>1
  <2>3. InTime' /\ LoopKnows' /\ PostsTimed'
    BY <2>1 DEF MailInv, InTime, LoopKnows, PostsTimed, TickAt
  <2>4. ListTimed' /\ BatchTimed'
    BY <2>1, <2>2 DEF MailInv, ListTimed, BatchTimed, TickAt
  <2> QED
    BY <2>3, <2>4 DEF MailInv
<1>2. CASE \E m \in Delayed, d \in Delays : LmxPostDelayMessage(m, d)
  BY <1>2, MailPostDelay
<1>3. CASE \E p \in posting : InsertDelayed(p)
  BY <1>3, MailInsert
<1>4. CASE LoopTop
  <2>1. /\ pc # "gone" /\ bQuit' = ~bRun /\ curTick' = LmnGetTickCount /\ asked' = now
        /\ pc' = "collect"
        /\ UNCHANGED <<bRun, dq, batch, due, now, posting, polled>>
    BY <1>4 DEF LoopTop
  <2>2. LmnGetTickCount = TickAt(now)
    <3>1. now \in 0 .. Horizon
      BY <1>t, TimesAreNumbers DEF MailInv, InTime
    <3> QED
      BY <3>1, TickIsTime
  <2>3. Named(dq)' = Named(dq)
    BY <2>1
  <2>4. InTime' /\ LoopKnows' /\ PostsTimed'
    BY <2>1, <2>2 DEF MailInv, InTime, LoopKnows, PostsTimed, TickAt
  <2>5. ListTimed' /\ BatchTimed'
    BY <2>1, <2>3 DEF MailInv, ListTimed, BatchTimed, TickAt
  <2> QED
    BY <2>4, <2>5 DEF MailInv
<1>5. CASE Collect
  BY <1>5, MailCollect
<1>6. CASE Deliver \/ DeliverLast
  BY <1>6, MailDeliver
<1>7. CASE FreeThread
  <2>1. /\ pc = "free" /\ pc' = "gone" /\ dq' = <<>>
        /\ UNCHANGED <<bRun, batch, bQuit, curTick, due, now, posting, asked, polled>>
    BY <1>7 DEF FreeThread
  <2>2. Named(dq)' = <<>> /\ Ascending(due', <<>>)
    BY <2>1 DEF Named, Ascending
  <2>3. InTime' /\ LoopKnows' /\ PostsTimed'
    BY <2>1 DEF MailInv, InTime, LoopKnows, PostsTimed, TickAt
  <2>4. ListTimed' /\ BatchTimed'
    BY <2>1, <2>2, EmptyContents DEF MailInv, ListTimed, BatchTimed
  <2> QED
    BY <2>3, <2>4 DEF MailInv
<1>8. CASE Tick
  <2>1. /\ now < Horizon /\ now' = now + 1
        /\ pc # "gone" => now + 1 < polled + MaxCheck /\ \A p \in posting : p.at = now
        /\ UNCHANGED <<bRun, dq, batch, pc, bQuit, curTick, due, posting, asked, polled>>
    BY <1>8 DEF Tick
  <2>2. Named(dq)' = Named(dq)
    BY <2>1
  <2>3. InTime' /\ LoopKnows' /\ PostsTimed'
    <3>1. InTime'
      BY <2>1, <1>t, TimesAreNumbers DEF InTime
    <3>2. LoopKnows'
      BY <2>1 DEF MailInv, LoopKnows, TickAt
    <3>3. PostsTimed'
      BY <2>1, <1>t, TimesAreNumbers DEF MailInv, PostsTimed, TickAt
    <3> QED
      BY <3>1, <3>2, <3>3
  <2>4. ListTimed'
    <3>1. \A m \in ToSet(Named(dq)) : due[m] \in polled - 1 .. (now + 1) + MaxPost
      <4> TAKE m \in ToSet(Named(dq))
      <4>1. due[m] \in polled - 1 .. now + MaxPost
        BY DEF MailInv, ListTimed
      <4> QED
        BY <4>1, <1>t, TimesAreNumbers
    <3> QED
      BY <3>1, <2>1, <2>2 DEF MailInv, ListTimed, TickAt
  <2>5. BatchTimed'
    BY <2>1 DEF MailInv, BatchTimed
  <2> QED
    BY <2>3, <2>4, <2>5 DEF MailInv
<1> QED
  BY <1>1, <1>2, <1>3, <1>4, <1>5, <1>6, <1>7, <1>8 DEF Next, Posts, Loop


-----------------------------------------------------------------------------
(* The thread as a mailbox. *)

Normals == IF batch # <<>> /\ Head(batch) \in Normal THEN batch \o q ELSE q

Waiting == {m \in Delayed : fate[m] = "posted"}

Stage == IF pc = "gone" THEN "closed" ELSE IF pc = "free" THEN "stopped"
         ELSE IF bRun THEN "open" ELSE "closing"

(* What is in the batch, and what is in hand at a delivery. *)
LEMMA BatchIs ==
  ASSUME ThreadInv, MailInv
  PROVE  /\ \/ \E m \in Normal : batch = <<m>> /\ Normals = <<m>> \o q
            \/ /\ batch \in Seq(Delayed) /\ ToSet(batch) \subseteq Waiting /\ Normals = q
               /\ batch # <<>> => Head(batch) \in ToSet(batch)
         /\ batch = <<>> => Normals = q
<1>1. batch = <<>> => Normals = q
  BY DEF Normals
<1>2. CASE \E m \in Normal : batch = <<m>>
  <2>1. PICK m \in Normal : batch = <<m>>
    BY <1>2
  <2>2. batch # <<>> /\ Head(batch) = m
    BY <2>1
  <2>3. Normals = <<m>> \o q
    BY <2>1, <2>2 DEF Normals
  <2> QED
    BY <1>1, <2>1, <2>3
<1>3. CASE batch \in Seq(Delayed)
  <2>1. ToSet(batch) \subseteq Delayed /\ ToSet(batch) \subseteq WithFate("posted")
    BY <1>3, Contents DEF ThreadInv, ListsOnce
  <2>2. ToSet(batch) \subseteq Waiting
    BY <2>1 DEF Waiting, WithFate
  <2>3. batch # <<>> => Head(batch) \in ToSet(batch)
    BY <1>3, TailContents DEF ThreadInv, ListsOnce
  <2>4. batch # <<>> => Head(batch) \notin Normal
    BY <2>1, <2>3, ThreadAssumption DEF ThreadAssumption
  <2>5. Normals = q
    BY <2>4 DEF Normals
  <2> QED
    BY <1>1, <1>3, <2>2, <2>3, <2>5
<1> QED
  BY <1>1, <1>2, <1>3 DEF MailInv, BatchTimed

(* The delayed message at the head of the batch may be delivered: its time  *)
(* has come, and nothing that waits was due more than a tick before it.     *)
LEMMA HeadIsNext ==
  ASSUME ThreadInv, MailInv, batch \in Seq(Delayed), batch # <<>>
  PROVE  /\ Head(batch) \in Waiting /\ due[Head(batch)] <= now
         /\ \A n \in Waiting : due[Head(batch)] <= due[n] + 1
<1> DEFINE m == Head(batch)
<1>1. /\ TypeOK /\ polled \in Nat /\ polled <= now /\ now \in Nat /\ due \in [Delayed -> Nat]
  BY TimesAreNumbers DEF ThreadInv
<1>2. m \in ToSet(batch) /\ ToSet(batch) \subseteq Waiting /\ ToSet(batch) \subseteq Delayed
  <2>1. IsInjective(batch)
    BY DEF ThreadInv, ListsOnce
  <2>2. m \in ToSet(batch) /\ ToSet(batch) \subseteq Delayed
    BY <2>1, TailContents, Contents
  <2>3. ToSet(batch) \subseteq WithFate("posted")
    BY DEF ThreadInv, ListsOnce
  <2> QED
    BY <2>2, <2>3 DEF Waiting, WithFate
<1>3. Ascending(due, batch) /\ \A n \in ToSet(batch) : due[n] <= polled
  <2>1. ASSUME NEW n \in Normal, batch = <<n>> PROVE FALSE
    <3>1. m = n
      BY <2>1
    <3> QED
      BY <3>1, <1>2, ThreadAssumption DEF ThreadAssumption
  <2> QED
    BY <2>1 DEF MailInv, BatchTimed
<1>4. \A n \in ToSet(batch) : due[m] <= due[n]
  BY <1>3, AscendingTail
<1>5. m \in Waiting /\ due[m] \in Nat /\ due[m] <= polled
  BY <1>1, <1>2, <1>3
<1> HIDE DEF m
<1>6. ASSUME NEW n \in Waiting PROVE due[m] <= due[n] + 1
  <2>1. n \in Delayed /\ due[n] \in Nat /\ fate[n] = "posted" /\ n \in Msgs
    BY <1>1 DEF Waiting, Msgs
  <2>2. n \in ToSet(Named(dq)) \/ n \in ToSet(batch)
    <3>1. n \in ToSet(q) \cup ToSet(Named(dq)) \cup ToSet(batch)
      BY <2>1 DEF ThreadInv, ListsOnce, WithFate
    <3>2. n \notin ToSet(q)
      BY <2>1, <1>1, ListTypes, ThreadAssumption DEF ThreadAssumption
    <3> QED
      BY <3>1, <3>2
  <2>3. CASE n \in ToSet(batch)
    <3>1. due[m] <= due[n]
      BY <2>3, <1>4
    <3> QED
      BY <3>1, <2>1, <1>5
  <2>4. CASE n \in ToSet(Named(dq))
    <3>1. polled - 1 <= due[n]
      BY <2>4 DEF MailInv, ListTimed
    <3> QED
      BY <3>1, <2>1, <1>1, <1>5
  <2> QED
    BY <2>2, <2>3, <2>4
<1>7. due[m] <= now
  BY <1>1, <1>5
<1> QED
  BY <1>5, <1>6, <1>7 DEF m

(* The thread starts as an open, empty mailbox. *)
LEMMA MailboxInit ==
  ASSUME Init
  PROVE  Mailbox!Init
BY DEF Init, Mailbox!Init, Msgs

(* A step that the mailbox does not see. *)
LEMMA MailboxStutter ==
  ASSUME Stage' = Stage, Normals' = Normals, Waiting' = Waiting, UNCHANGED <<due, now, log>>
  PROVE  [Mailbox!Next]_(Mailbox!vars)
BY DEF Mailbox!vars, Stage, Normals, Waiting


(* The steps of the mailbox, in the thread's terms. *)

LaterTaken(m) ==
  \/ Waiting' = Waiting \ {m}
  \/ Waiting' \in SUBSET (Waiting \ {m}) /\ Stage' = "stopped"

(* A post appends. *)
LEMMA MailboxPosts ==
  ASSUME NEW m \in Normal, Stage \in {"open", "stopped"}, Normals' = Append(Normals, m),
         Stage' = Stage, Waiting' = Waiting, UNCHANGED <<due, now, log>>
  PROVE  Mailbox!Next
<1>1. Mailbox!Post(m)
  BY DEF Mailbox!Post, Stage, Normals, Waiting
<1> QED
  BY <1>1 DEF Mailbox!Next

(* A delayed post takes its time, ... *)
LEMMA MailboxAsks ==
  ASSUME NEW m \in Delayed, NEW d \in 0 .. MaxPost, Stage # "closed",
         due' = [due EXCEPT ![m] = now + d],
         Stage' = Stage, Normals' = Normals, Waiting' = Waiting, UNCHANGED <<now, log>>
  PROVE  Mailbox!Next
<1>1. Mailbox!Ask(m)
  BY DEF Mailbox!Ask, Stage, Normals, Waiting
<1> QED
  BY <1>1 DEF Mailbox!Next

(* ... and waits. *)
LEMMA MailboxPostsDelayed ==
  ASSUME NEW m \in Delayed, Stage # "closed", Waiting' = Waiting \cup {m},
         Stage' = Stage, Normals' = Normals, UNCHANGED <<due, now, log>>
  PROVE  Mailbox!Next
<1>1. Mailbox!PostDelay(m)
  BY DEF Mailbox!PostDelay, Stage, Normals, Waiting
<1> QED
  BY <1>1 DEF Mailbox!Next

(* A delivery takes the next normal message or a delayed one that may go. *)
LEMMA MailboxDelivers ==
  ASSUME NEW m \in Msgs, Stage \in {"open", "closing"}, Stage' \in {Stage, "stopped"},
         \/ /\ Normals # <<>> /\ m = Head(Normals) /\ Normals' = Tail(Normals)
            /\ Waiting' = Waiting
         \/ /\ m \in Waiting /\ due[m] <= now /\ \A n \in Waiting : due[m] <= due[n] + 1
            /\ Normals' = Normals
            /\ LaterTaken(m),
         log' = Append(log, m), UNCHANGED <<due, now>>
  PROVE  Mailbox!Next
<1>1. CASE Stage' = Stage
  <2>1. Mailbox!TakeMail(m) \/ Mailbox!TakeLater(m)
    <3>1. CASE /\ Normals # <<>> /\ m = Head(Normals) /\ Normals' = Tail(Normals)
               /\ Waiting' = Waiting
      BY <3>1 DEF Mailbox!TakeMail, Normals, Waiting
    <3>2. CASE /\ m \in Waiting /\ due[m] <= now /\ \A n \in Waiting : due[m] <= due[n] + 1
               /\ Normals' = Normals
               /\ LaterTaken(m)
      <4>1. Waiting' = Waiting \ {m}
        BY <1>1, <3>2 DEF LaterTaken
      <4> QED
        BY <3>2, <4>1 DEF Mailbox!TakeLater, Mailbox!IsNext, Normals, Waiting
    <3> QED
      BY <3>1, <3>2
  <2>2. Mailbox!Deliver(m)
    BY <1>1, <2>1 DEF Mailbox!Deliver, Stage
  <2> QED
    BY <2>2 DEF Mailbox!Next, Msgs
<1>2. CASE Stage' = "stopped"
  <2>1. \/ Mailbox!TakeMail(m)
        \/ Mailbox!IsNext(m) /\ Waiting' \in SUBSET (Waiting \ {m}) /\ Normals' = Normals
    <3>1. CASE /\ Normals # <<>> /\ m = Head(Normals) /\ Normals' = Tail(Normals)
               /\ Waiting' = Waiting
      BY <3>1 DEF Mailbox!TakeMail, Normals, Waiting
    <3>2. CASE /\ m \in Waiting /\ due[m] <= now /\ \A n \in Waiting : due[m] <= due[n] + 1
               /\ Normals' = Normals
               /\ LaterTaken(m)
      <4>1. Waiting' \in SUBSET (Waiting \ {m})
        BY <3>2 DEF LaterTaken
      <4> QED
        BY <3>2, <4>1 DEF Mailbox!IsNext, Waiting
    <3> QED
      BY <3>1, <3>2
  <2>2. Mailbox!Last(m)
    BY <1>2, <2>1 DEF Mailbox!Last, Stage, Normals, Waiting
  <2> QED
    BY <2>2 DEF Mailbox!Next, Msgs
<1> QED
  BY <1>1, <1>2

(* The mailbox closes in three steps. *)
LEMMA MailboxMoves ==
  ASSUME \/ Stage = "open" /\ Stage' = "closing" /\ Normals' = Normals /\ Waiting' = Waiting
         \/ Stage = "closing" /\ Stage' = "stopped" /\ Normals' = Normals /\ Waiting' = Waiting
         \/ Stage = "stopped" /\ Stage' = "closed" /\ Normals' = <<>> /\ Waiting' = {},
         UNCHANGED <<due, now, log>>
  PROVE  Mailbox!Next
<1>1. Mailbox!Closing \/ Mailbox!Stopping \/ Mailbox!Closed
  BY DEF Mailbox!Closing, Mailbox!Stopping, Mailbox!Closed, Stage, Normals, Waiting
<1> QED
  BY <1>1 DEF Mailbox!Next

(* Time passes. *)
LEMMA MailboxTicks ==
  ASSUME now' = now + 1, Stage' = Stage, Normals' = Normals, Waiting' = Waiting,
         UNCHANGED <<due, log>>
  PROVE  Mailbox!Next
<1>1. Mailbox!Tick
  BY DEF Mailbox!Tick, Stage, Normals, Waiting
<1> QED
  BY <1>1 DEF Mailbox!Next


(* Posts, with or without a delay. *)
LEMMA PostsMapped ==
  ASSUME ThreadInv, MailInv, Posts
  PROVE  [Mailbox!Next]_(Mailbox!vars)
<1>1. /\ TypeOK /\ Normal \cap Delayed = {} /\ q \in Seq(Normal)
      /\ fate \in [Msgs -> {"unposted", "posting", "posted", "refused", "delivered", "dropped"}]
  BY ThreadAssumption DEF ThreadAssumption, ThreadInv, TypeOK
<1>2. ASSUME NEW m \in Normal, LmxPostMessage(m) PROVE Mailbox!Next
  <2>1. /\ pc # "gone" /\ bRun /\ q' = Append(q, m) /\ fate' = [fate EXCEPT ![m] = "posted"]
        /\ UNCHANGED <<bRun, batch, pc, due, now, log>>
    BY <1>2 DEF LmxPostMessage
  <2>2. Stage \in {"open", "stopped"} /\ Stage' = Stage
    BY <2>1 DEF Stage
  <2>3. Waiting' = Waiting
    BY <2>1, <1>1 DEF Waiting, Msgs
  <2>4. Normals' = Append(Normals, m)
    <3>1. CASE batch # <<>> /\ Head(batch) \in Normal
      <4>1. PICK n \in Normal : batch = <<n>>
        <5>1. batch \notin Seq(Delayed)
          BY <3>1, <1>1, HeadTailProperties
        <5> QED
          BY <5>1 DEF MailInv, BatchTimed
      <4>2. Normals = <<n>> \o q /\ Normals' = <<n>> \o Append(q, m)
        BY <2>1, <3>1, <4>1 DEF Normals
      <4>3. <<n>> \in Seq(Normal) /\ <<m>> \in Seq(Normal)
        OBVIOUS
      <4>4. <<n>> \o Append(q, m) = Append(<<n>> \o q, m)
        BY <4>3, <1>1, AppendIsConcat, ConcatAssociative, ConcatProperties
      <4> QED
        BY <4>2, <4>4
    <3>2. CASE ~(batch # <<>> /\ Head(batch) \in Normal)
      BY <2>1, <3>2 DEF Normals
    <3> QED
      BY <3>1, <3>2
  <2> QED
    BY <2>1, <2>2, <2>3, <2>4, MailboxPosts
<1>3. ASSUME NEW m \in Normal, LmxPostRefused(m) PROVE [Mailbox!Next]_(Mailbox!vars)
  <2>1. /\ fate' = [fate EXCEPT ![m] = "refused"] /\ UNCHANGED <<bRun, q, batch, pc, due, now, log>>
    BY <1>3 DEF LmxPostRefused
  <2>2. Waiting' = Waiting
    BY <2>1, <1>1 DEF Waiting, Msgs
  <2>3. Stage' = Stage /\ Normals' = Normals
    BY <2>1 DEF Stage, Normals
  <2> QED
    BY <2>1, <2>2, <2>3, MailboxStutter
<1>4. ASSUME NEW m \in Delayed, NEW d \in Delays, LmxPostDelayMessage(m, d) PROVE Mailbox!Next
  <2>1. /\ pc # "gone" /\ fate[m] = "unposted" /\ d <= MaxPost
        /\ fate' = [fate EXCEPT ![m] = "posting"] /\ due' = [due EXCEPT ![m] = now + d]
        /\ UNCHANGED <<bRun, q, batch, pc, now, log>>
    BY <1>4 DEF LmxPostDelayMessage
  <2>2. Waiting' = Waiting
    BY <2>1, <1>1 DEF Waiting, Msgs
  <2>3. Stage # "closed" /\ Stage' = Stage /\ Normals' = Normals
    BY <2>1 DEF Stage, Normals
  <2>4. d \in 0 .. MaxPost
    BY <2>1, <1>1, TimesAreNumbers
  <2> QED
    BY <2>1, <2>2, <2>3, <2>4, MailboxAsks
<1>5. ASSUME NEW p \in posting, InsertDelayed(p) PROVE Mailbox!Next
  <2>1. /\ pc # "gone" /\ fate' = [fate EXCEPT ![p.msg] = "posted"]
        /\ UNCHANGED <<bRun, q, batch, pc, due, now, log>> /\ p.msg \in Delayed
    BY <1>5, <1>1, TimesAreNumbers DEF InsertDelayed
  <2>2. Waiting' = Waiting \cup {p.msg}
    BY <2>1, <1>1 DEF Waiting, Msgs
  <2>3. Stage # "closed" /\ Stage' = Stage /\ Normals' = Normals
    BY <2>1 DEF Stage, Normals
  <2> QED
    BY <2>1, <2>2, <2>3, MailboxPostsDelayed
<1> QED
  BY <1>2, <1>3, <1>4, <1>5 DEF Posts

(* A look at the lists moves messages that wait already, or ends the loop. *)
LEMMA CollectMapped ==
  ASSUME ThreadInv, MailInv, Collect
  PROVE  [Mailbox!Next]_(Mailbox!vars)
<1>1. /\ pc = "collect" /\ batch = <<>>
      /\ pc' = (IF batch' # <<>> THEN "deliver" ELSE IF bQuit THEN "free" ELSE "top")
      /\ UNCHANGED <<bRun, bQuit, fate, due, now, log>>
  BY DEF Collect, ThreadInv, BatchInHand
<1>2. Waiting' = Waiting /\ Normals = q
  BY <1>1 DEF Waiting, Normals
<1>3. q \in Seq(Normal) /\ TypeOK /\ Normal \cap Delayed = {}
  BY ThreadAssumption DEF ThreadAssumption, ThreadInv, TypeOK
<1>4. Normals' = Normals
  <2>1. PICK n \in 0 .. Len(dq) :
          /\ Named(dq) \in Seq(Delayed) /\ n \in 0 .. Len(Named(dq))
          /\ \/ n > 0 /\ batch' = SubSeq(Named(dq), 1, n) /\ q' = q
             \/ q # <<>> /\ batch' = <<Head(q)>> /\ q' = Tail(q)
             \/ q' = q /\ batch' = batch
    BY <1>3, Collected
  <2>2. CASE batch' = SubSeq(Named(dq), 1, n) /\ q' = q
    <3>1. batch' \in Seq(Delayed)
      BY <2>1, <2>2, CutContents
    <3>2. ~(batch' # <<>> /\ Head(batch') \in Normal)
      BY <3>1, <1>3, HeadTailProperties
    <3> QED
      BY <3>2, <2>2, <1>2 DEF Normals
  <2>3. CASE q # <<>> /\ batch' = <<Head(q)>> /\ q' = Tail(q)
    <3>1. Head(q) \in Normal /\ <<Head(q)>> \o Tail(q) = q
      BY <2>3, <1>3
    <3>2. batch' # <<>> /\ Head(batch') = Head(q)
      BY <2>3
    <3> QED
      BY <3>1, <3>2, <2>3, <1>2 DEF Normals
  <2>4. CASE q' = q /\ batch' = batch
    BY <2>4, <1>1 DEF Normals
  <2> QED
    BY <2>1, <2>2, <2>3, <2>4
<1>5. CASE pc' # "free"
  <2>1. Stage' = Stage
    BY <1>1, <1>5 DEF Stage
  <2> QED
    BY <2>1, <1>1, <1>2, <1>4, MailboxStutter
<1>6. CASE pc' = "free"
  <2>1. bQuit /\ ~bRun
    BY <1>1, <1>6 DEF MailInv, LoopKnows
  <2>2. Stage = "closing" /\ Stage' = "stopped"
    BY <2>1, <1>1, <1>6 DEF Stage
  <2> QED
    BY <2>2, <1>1, <1>2, <1>4, MailboxMoves
<1> QED
  BY <1>5, <1>6

(* A delivery takes the next message of the mailbox. *)
LEMMA DeliverMapped ==
  ASSUME ThreadInv, MailInv, Deliver \/ DeliverLast
  PROVE  Mailbox!Next
<1> DEFINE m == Head(batch)
<1>1. /\ pc = "deliver" /\ log' = Append(log, m) /\ pc' \in {"deliver", "free", "top"}
      /\ UNCHANGED <<bRun, q, due, now>>
      /\ \/ batch' = Tail(batch) /\ fate' = [fate EXCEPT ![m] = "delivered"]
            /\ (pc' = "free" => batch' = <<>>)
         \/ batch' = <<>> /\ pc' = "free"
            /\ fate' = [n \in Msgs |-> IF n = m THEN "delivered"
                                       ELSE IF n \in ToSet(batch) THEN "dropped" ELSE fate[n]]
  BY DEF Deliver, DeliverLast
<1>2. /\ TypeOK /\ batch # <<>> /\ batch \in Seq(Msgs) /\ Normal \cap Delayed = {}
      /\ q \in Seq(Normal)
      /\ fate \in [Msgs -> {"unposted", "posting", "posted", "refused", "delivered", "dropped"}]
  BY <1>1, ThreadAssumption DEF ThreadAssumption, ThreadInv, TypeOK
<1>3. m \in Msgs
  BY <1>2, HeadTailProperties
<1>4. Stage \in {"open", "closing"} /\ Stage' \in {Stage, "stopped"}
      /\ (pc' = "free" => Stage' = "stopped")
  BY <1>1 DEF Stage
<1>5. CASE \E n \in Normal : batch = <<n>> /\ Normals = <<n>> \o q
  <2>1. PICK n \in Normal : batch = <<n>> /\ Normals = <<n>> \o q
    BY <1>5
  <2>2. m = n /\ Tail(batch) = <<>> /\ batch' = <<>>
    BY <2>1, <1>1
  <2>3. Normals # <<>> /\ n = Head(Normals) /\ Tail(Normals) = q
    BY <2>1, <1>2
  <2>4. Normals' = q
    BY <2>2, <1>1 DEF Normals
  <2>5. Waiting' = Waiting
    <3>1. ToSet(batch) = {n} /\ n \notin Delayed
      BY <2>1, <1>2, SingleContents
    <3> QED
      BY <3>1, <2>2, <1>1, <1>2 DEF Waiting, Msgs
  <2> QED
    BY <2>2, <2>3, <2>4, <2>5, <1>1, <1>3, <1>4, MailboxDelivers
<1>6. CASE batch \in Seq(Delayed) /\ ToSet(batch) \subseteq Waiting /\ Normals = q
  <2>1. m \in Waiting /\ due[m] <= now /\ \A n \in Waiting : due[m] <= due[n] + 1
    BY <1>2, <1>6, HeadIsNext
  <2>2. Normals' = Normals
    <3>1. batch' \in Seq(Delayed)
      <4>1. Tail(batch) \in Seq(Delayed) /\ <<>> \in Seq(Delayed)
        BY <1>2, <1>6, EmptySeq, HeadTailProperties
      <4> QED
        BY <4>1, <1>1
    <3>2. ~(batch' # <<>> /\ Head(batch') \in Normal)
      BY <3>1, <1>2, HeadTailProperties
    <3> QED
      BY <3>2, <1>1, <1>6 DEF Normals
  <2>3. LaterTaken(m)
    <3> HIDE DEF m
    <3>1. CASE fate' = [fate EXCEPT ![m] = "delivered"]
      BY <3>1, <1>2, <1>3 DEF Waiting, Msgs, LaterTaken
    <3>2. CASE /\ pc' = "free"
               /\ fate' = [n \in Msgs |-> IF n = m THEN "delivered"
                                          ELSE IF n \in ToSet(batch) THEN "dropped" ELSE fate[n]]
      <4>1. Waiting' \in SUBSET (Waiting \ {m})
        BY <3>2, <1>2, <1>3 DEF Waiting, Msgs
      <4> QED
        BY <4>1, <3>2, <1>4 DEF LaterTaken
    <3> QED
      BY <3>1, <3>2, <1>1
  <2> HIDE DEF m
  <2> QED
    BY <2>1, <2>2, <2>3, <1>1, <1>3, <1>4, MailboxDelivers
<1> QED
  BY <1>5, <1>6, BatchIs

(* Every step is a step of LmxMailbox, or changes nothing that it has. *)
LEMMA MailboxNext ==
  ASSUME ThreadInv, MailInv, [Next]_vars
  PROVE  [Mailbox!Next]_(Mailbox!vars)
<1>1. CASE Posts
  BY <1>1, PostsMapped
<1>2. CASE LmxDestroyThread
  <2>1. pc # "gone" /\ bRun /\ bRun' = FALSE /\ UNCHANGED <<q, batch, pc, fate, due, now, log>>
    BY <1>2 DEF LmxDestroyThread
  <2>2. Normals' = Normals /\ Waiting' = Waiting
    BY <2>1 DEF Normals, Waiting
  <2>3. Stage' = Stage \/ (Stage = "open" /\ Stage' = "closing")
    BY <2>1 DEF Stage
  <2> QED
    BY <2>1, <2>2, <2>3, MailboxStutter, MailboxMoves
<1>3. CASE LoopTop \/ UNCHANGED vars
  <2>1. UNCHANGED <<bRun, q, batch, fate, due, now, log>>
        /\ (pc' = pc \/ (pc = "top" /\ pc' = "collect"))
    BY <1>3 DEF LoopTop, vars
  <2>2. Normals' = Normals /\ Waiting' = Waiting /\ Stage' = Stage
    BY <2>1 DEF Normals, Waiting, Stage
  <2> QED
    BY <2>1, <2>2, MailboxStutter
<1>4. CASE Collect
  BY <1>4, CollectMapped
<1>5. CASE Deliver \/ DeliverLast
  BY <1>5, DeliverMapped
<1>6. CASE FreeThread
  <2>1. /\ pc = "free" /\ pc' = "gone" /\ q' = <<>> /\ batch = <<>> /\ batch' = <<>>
        /\ fate' = [m \in Msgs |-> IF fate[m] = "posted" THEN "dropped" ELSE fate[m]]
        /\ UNCHANGED <<due, now, log>>
    BY <1>6 DEF FreeThread, ThreadInv, BatchInHand
  <2>2. Stage = "stopped" /\ Stage' = "closed" /\ Normals' = <<>>
    BY <2>1 DEF Stage, Normals
  <2>3. Waiting' = {}
    BY <2>1 DEF Waiting, Msgs
  <2> QED
    BY <2>1, <2>2, <2>3, MailboxMoves
<1>7. CASE Tick
  <2>1. now' = now + 1 /\ UNCHANGED <<bRun, q, batch, pc, fate, due, log>>
    BY <1>7 DEF Tick
  <2>2. Normals' = Normals /\ Waiting' = Waiting /\ Stage' = Stage
    BY <2>1 DEF Normals, Waiting, Stage
  <2> QED
    BY <2>1, <2>2, MailboxTicks
<1> QED
  BY <1>1, <1>2, <1>3, <1>4, <1>5, <1>6, <1>7 DEF Next, Loop

-----------------------------------------------------------------------------
(* As long as the tick count is the time modulo TickMod (always where it is *)
(* that of GetTickCount; on POSIX until the product wraps), the thread is a *)
(* LmxMailbox, for any messages, delays and start of the tick, across its   *)
(* wrap: normal messages reach the callback in the order of their posts, a  *)
(* delayed one not before its time and not before one that waits and was    *)
(* due more than a tick earlier, and nothing after the thread stopped.      *)
THEOREM LmxImplementsMailbox ==
  ASSUME TicksSteady
  PROVE  Spec => ImplementsMailbox
<1>1. Init => ThreadInv /\ MailInv
  BY OnceInit, MailInit
<1>2. ThreadInv /\ MailInv /\ [Next]_vars => ThreadInv' /\ MailInv'
  BY OnceStep, MailStep
<1>3. Init => Mailbox!Init
  BY MailboxInit
<1>4. ThreadInv /\ MailInv /\ [Next]_vars => [Mailbox!Next]_(Mailbox!vars)
  BY MailboxNext
<1> QED
  BY <1>1, <1>2, <1>3, <1>4, PTL DEF Spec, ImplementsMailbox, Mailbox!Spec

=============================================================================
