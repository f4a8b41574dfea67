---------------------------- MODULE Imsg_proofs ----------------------------
(***************************************************************************)
(* Theorems about one connection between a command and the agent (Imsg),   *)
(* for every length of the messages, every size of the read buffer and of  *)
(* the kernel's, and every number of requests.                             *)
(*                                                                         *)
(* Everything that matters in Imsg is the concatenation of many pieces     *)
(* (FlattenSeq), so the first half of the module is about rows of bytes:   *)
(* how they are joined, cut, and spelled out of messages.  The second half *)
(* is about the connection: what an action does to the row of bytes in one *)
(* direction, the inductive invariant, and the channels it implements.     *)
(***************************************************************************)
EXTENDS Imsg, SequenceTheorems, NaturalsInduction, WellFoundedInduction, TLAPS

-----------------------------------------------------------------------------
(* Induction over the numbers, and rows one after the other                 *)

\* Induction with a set for the predicate: the least number outside of S would
\* have a predecessor in it.
LEMMA SetInduction ==
  ASSUME NEW S, 0 \in S, \A n \in Nat : n \in S => n + 1 \in S
  PROVE  Nat \subseteq S
<1> DEFINE T == {n \in Nat : n \notin S}
<1>1. ASSUME T # {} PROVE FALSE
  <2> DEFINE R == OpToRel(<, Nat)
  <2>1. \E x \in T : \A y \in T : ~ (<<y, x>> \in R)
    <3>1. T \subseteq Nat
      OBVIOUS
    <3> HIDE DEF T
    <3> QED BY <1>1, <3>1, NatLessThanWellFounded, WFMin
  <2>2. PICK x \in T : \A y \in T : ~ (<<y, x>> \in R)
    BY <2>1
  <2>3. \A y \in Nat : y < x => <<y, x>> \in R
    BY DEF OpToRel
  <2>4. x # 0 /\ x \in Nat
    OBVIOUS
  <2>5. x - 1 \in Nat /\ x - 1 < x /\ x = (x - 1) + 1
    BY <2>4
  <2>6. x - 1 \notin T
    BY <2>2, <2>3, <2>5
  <2> HIDE DEF R
  <2> QED BY <2>2, <2>5, <2>6
<1> QED BY <1>1

\* The concatenation of rows of any kind
Joined(s, t) == s \o t

\* g[i] is the first i rows of s one after the other, for i up to k
Sums(s, k, g) == g = [i \in 1..k |-> IF i = 1 THEN s[i] ELSE Joined(g[i - 1], s[i])]

LEMMA SumsAt ==
  ASSUME NEW s, NEW k, NEW g, Sums(s, k, g), NEW i \in 1..k
  PROVE  g[i] = IF i = 1 THEN s[i] ELSE Joined(g[i - 1], s[i])
BY DEF Sums

LEMMA SumsNext ==
  ASSUME NEW s, NEW k, NEW g, Sums(s, k, g), NEW i \in 1..k, i # 1, NEW j, j = i - 1, NEW x, x = s[i]
  PROVE  g[i] = Joined(g[j], x)
BY SumsAt

\* The partial sums of FlattenSeq exist up to any length: this is what makes
\* its recursive function equal to its definition.
LEMMA SumsLonger ==
  ASSUME NEW s, NEW k \in Nat, NEW g, Sums(s, k, g)
  PROVE  \E h : Sums(s, k + 1, h)
<1> DEFINE h == [i \in 1..(k + 1) |-> IF i = 1 THEN s[i] ELSE Joined(g[i - 1], s[i])]
<1>1. \A i \in 1..k : h[i] = g[i]
  BY SumsAt
<1>2. \A i \in 1..(k + 1) : i = 1 \/ i - 1 \in 1..k
  OBVIOUS
<1>3. \A i \in 1..(k + 1) : h[i] = IF i = 1 THEN s[i] ELSE Joined(h[i - 1], s[i])
  BY <1>1, <1>2
<1>4. h = [i \in 1..(k + 1) |-> h[i]]
  OBVIOUS
<1>5. Sums(s, k + 1, h)
  <2> HIDE DEF h
  <2> QED BY <1>3, <1>4 DEF Sums
<1> QED BY <1>5

LEMMA SumsExist ==
  ASSUME NEW s, NEW k \in Nat PROVE \E g : Sums(s, k, g)
<1> DEFINE T == {j \in Nat : \E g : Sums(s, j, g)}
<1>1. 0 \in T
  <2>1. 1..0 = {}
    OBVIOUS
  <2>2. Sums(s, 0, [i \in 1..0 |-> s[1]])
    BY <2>1 DEF Sums
  <2> QED BY <2>2
<1>2. \A j \in Nat : j \in T => j + 1 \in T
  BY SumsLonger
<1>3. Nat \subseteq T
  <2> HIDE DEF T
  <2> QED BY <1>1, <1>2, SetInduction
<1> QED BY <1>3

LEMMA FlatSums ==
  ASSUME NEW s, Len(s) \in Nat \ {0}
  PROVE  \E g : Sums(s, Len(s), g) /\ FlattenSeq(s) = g[Len(s)]
BY SumsExist DEF FlattenSeq, Sums, Joined

\* Partial sums depend only on what they sum.
LEMMA SumsAgree ==
  ASSUME NEW s, NEW t, NEW g, NEW h, Sums(s, Len(s), g), Sums(t, Len(t), h), Len(s) \in Nat, Len(t) \in Nat,
         \A i \in 1..Len(s) : i <= Len(t) => s[i] = t[i],
         NEW k \in 1..Len(s), k <= Len(t)
  PROVE  g[k] = h[k]
<1> DEFINE T == {j \in Nat : j + 1 \in 1..Len(s) /\ j + 1 <= Len(t) => g[j + 1] = h[j + 1]}
<1>1. 0 \in T
  BY SumsAt
<1>2. ASSUME NEW j \in Nat, j \in T PROVE j + 1 \in T
  <2>0. j + 2 = (j + 1) + 1
    OBVIOUS
  <2>1. ASSUME j + 2 \in 1..Len(s), j + 2 <= Len(t) PROVE g[j + 2] = h[j + 2]
    <3>1. j + 1 \in 1..Len(s) /\ j + 1 <= Len(t) /\ j + 2 \in 1..Len(t) /\ j + 2 # 1 /\ (j + 2) - 1 = j + 1
      BY <2>1
    <3> DEFINE x == s[j + 2]
    <3>x. x = s[j + 2] /\ x = t[j + 2] /\ j + 1 = (j + 2) - 1
      BY <2>1, <3>1
    <3> HIDE DEF x
    <3>2. g[j + 2] = Joined(g[j + 1], x)
      <4>1. Sums(s, Len(s), g) /\ j + 2 \in 1..Len(s) /\ j + 2 # 1
        BY <2>1, <3>1
      <4>2. x = s[j + 2] /\ j + 1 = (j + 2) - 1
        BY <3>x
      <4> QED BY <4>1, <4>2, SumsNext
    <3>3. h[j + 2] = Joined(h[j + 1], x)
      <4>1. Sums(t, Len(t), h) /\ j + 2 \in 1..Len(t) /\ j + 2 # 1
        BY <2>1, <3>1
      <4> QED BY <3>x, <4>1, SumsNext
    <3> QED BY <1>2, <2>1, <3>1, <3>2, <3>3
  <2> QED BY <2>0, <2>1
<1>3. Nat \subseteq T
  <2> HIDE DEF T
  <2> QED BY <1>1, <1>2, SetInduction
<1>4. k - 1 \in Nat /\ (k - 1) + 1 = k
  OBVIOUS
<1> QED BY <1>3, <1>4

LEMMA EmptyRow == ASSUME NEW S, NEW s \in Seq(S), Len(s) = 0 PROVE s = <<>>
OBVIOUS

LEMMA FlatEmpty == FlattenSeq(<<>>) = <<>>
BY DEF FlattenSeq

\* FlattenSeq, one piece at a time
LEMMA FlatAppend ==
  ASSUME NEW S, NEW s \in Seq(Seq(S)), NEW x \in Seq(S)
  PROVE  FlattenSeq(Append(s, x)) = FlattenSeq(s) \o x
<1> DEFINE t == Append(s, x)
<1>1. /\ t \in Seq(Seq(S)) /\ Len(t) = Len(s) + 1 /\ t[Len(s) + 1] = x
      /\ \A i \in 1..Len(s) : t[i] = s[i]
      /\ Len(s) \in Nat
  BY AppendProperties, LenProperties
<1> HIDE DEF t
<1>2. PICK h : Sums(t, Len(t), h) /\ FlattenSeq(t) = h[Len(t)]
  BY <1>1, FlatSums
<1>3. CASE Len(s) = 0
  <2>1. s = <<>>
    BY <1>3, EmptyRow
  <2>2. FlattenSeq(t) = x
    BY <1>1, <1>2, <1>3, SumsAt
  <2> QED BY <2>1, <2>2, FlatEmpty, ConcatEmptySeq DEF t
<1>4. CASE Len(s) # 0
  <2>1. PICK g : Sums(s, Len(s), g) /\ FlattenSeq(s) = g[Len(s)]
    BY <1>1, <1>4, FlatSums
  <2>2. Len(s) \in 1..Len(s) /\ Len(s) <= Len(t) /\ Len(t) \in 1..Len(t) /\ Len(t) # 1 /\ Len(t) - 1 = Len(s)
    BY <1>1, <1>4
  <2>3. h[Len(s)] = g[Len(s)]
    <3>1. /\ Sums(s, Len(s), g) /\ Sums(t, Len(t), h) /\ Len(s) \in Nat /\ Len(t) \in Nat
          /\ \A i \in 1..Len(s) : i <= Len(t) => s[i] = t[i]
      BY <1>1, <1>2, <2>1
    <3>2. g[Len(s)] = h[Len(s)]
      BY <2>2, <3>1, SumsAgree
    <3> QED BY <3>2
  <2>4. h[Len(t)] = Joined(h[Len(s)], x)
    <3>1. t[Len(t)] = x
      BY <1>1
    <3>2. Len(s) = Len(t) - 1
      BY <2>2
    <3> QED BY <1>2, <2>2, <3>1, <3>2, SumsNext
  <2> QED BY <1>2, <2>1, <2>3, <2>4 DEF t, Joined
<1> QED BY <1>3, <1>4

LEMMA FlatType ==
  ASSUME NEW S, NEW s \in Seq(Seq(S))
  PROVE  FlattenSeq(s) \in Seq(S)
<1> DEFINE T == {n \in Nat : \A q \in Seq(Seq(S)) : Len(q) = n => FlattenSeq(q) \in Seq(S)}
<1>1. 0 \in T
  <2>1. \A q \in Seq(Seq(S)) : Len(q) = 0 => q = <<>>
    BY EmptyRow
  <2>2. <<>> \in Seq(S)
    BY EmptySeq
  <2> QED BY <2>1, <2>2, FlatEmpty
<1>2. ASSUME NEW n \in Nat, n \in T PROVE n + 1 \in T
  <2>1. ASSUME NEW q \in Seq(Seq(S)), Len(q) = n + 1 PROVE FlattenSeq(q) \in Seq(S)
    <3>1. PICK p \in Seq(Seq(S)), x \in Seq(S) : q = Append(p, x)
      <4>1. q # <<>>
        BY <2>1
      <4> QED BY <4>1, SequenceEmptyOrAppend
    <3>2. Len(p) = n
      BY <2>1, <3>1, AppendProperties, LenProperties
    <3> QED BY <1>2, <3>1, <3>2, FlatAppend, ConcatProperties
  <2> QED BY <2>1
<1>3. Nat \subseteq T
  <2> HIDE DEF T
  <2> QED BY <1>1, <1>2, SetInduction
<1> QED BY <1>3, LenProperties

LEMMA FlatConcat ==
  ASSUME NEW S, NEW s \in Seq(Seq(S)), NEW t \in Seq(Seq(S))
  PROVE  FlattenSeq(s \o t) = FlattenSeq(s) \o FlattenSeq(t)
<1> DEFINE T == {n \in Nat : \A q \in Seq(Seq(S)) : Len(q) = n =>
                   FlattenSeq(s \o q) = FlattenSeq(s) \o FlattenSeq(q)}
<1>1. 0 \in T
  <2>1. \A q \in Seq(Seq(S)) : Len(q) = 0 => q = <<>>
    BY EmptyRow
  <2>2. s \o <<>> = s /\ FlattenSeq(s) \o <<>> = FlattenSeq(s)
    BY FlatType, ConcatEmptySeq
  <2> QED BY <2>1, <2>2, FlatEmpty
<1>2. ASSUME NEW n \in Nat, n \in T PROVE n + 1 \in T
  <2>1. ASSUME NEW q \in Seq(Seq(S)), Len(q) = n + 1
        PROVE  FlattenSeq(s \o q) = FlattenSeq(s) \o FlattenSeq(q)
    <3>1. PICK p \in Seq(Seq(S)), x \in Seq(S) : q = Append(p, x)
      <4>1. q # <<>>
        BY <2>1
      <4> QED BY <4>1, SequenceEmptyOrAppend
    <3>2. Len(p) = n
      BY <2>1, <3>1, AppendProperties, LenProperties
    <3>3. s \o q = Append(s \o p, x) /\ s \o p \in Seq(Seq(S))
      <4>1. q = p \o <<x>> /\ <<x>> \in Seq(Seq(S)) /\ s \o p \in Seq(Seq(S))
        BY <3>1, AppendIsConcat, ConcatProperties
      <4>2. Append(s \o p, x) = (s \o p) \o <<x>>
        BY <4>1, AppendIsConcat
      <4> QED BY <4>1, <4>2, ConcatAssociative
    <3>4. FlattenSeq(s \o q) = (FlattenSeq(s) \o FlattenSeq(p)) \o x
      <4>1. FlattenSeq(s \o p) = FlattenSeq(s) \o FlattenSeq(p)
        BY <1>2, <3>2
      <4>2. FlattenSeq(Append(s \o p, x)) = FlattenSeq(s \o p) \o x
        BY <3>3, FlatAppend
      <4> QED BY <3>3, <4>1, <4>2
    <3>5. FlattenSeq(q) = FlattenSeq(p) \o x
      BY <3>1, FlatAppend
    <3>6. FlattenSeq(s) \in Seq(S) /\ FlattenSeq(p) \in Seq(S)
      BY FlatType
    <3>7. (FlattenSeq(s) \o FlattenSeq(p)) \o x = FlattenSeq(s) \o (FlattenSeq(p) \o x)
      BY <3>6, ConcatAssociative
    <3> QED BY <3>4, <3>5, <3>7
  <2> QED BY <2>1
<1>3. Nat \subseteq T
  <2> HIDE DEF T
  <2> QED BY <1>1, <1>2, SetInduction
<1> QED BY <1>3, LenProperties

LEMMA FlatOne == ASSUME NEW S, NEW x \in Seq(S) PROVE FlattenSeq(<<x>>) = x
<1>1. <<>> \in Seq(Seq(S)) /\ Append(<<>>, x) = <<x>>
  OBVIOUS
<1>2. FlattenSeq(Append(<<>>, x)) = FlattenSeq(<<>>) \o x
  BY <1>1, FlatAppend
<1>3. <<>> \o x = x
  BY ConcatEmptySeq
<1> QED BY <1>1, <1>2, <1>3, FlatEmpty

-----------------------------------------------------------------------------
(* Rows cut in two                                                          *)

Drop(s, n) == SubSeq(s, n + 1, Len(s))

\* p is the n elements of s behind the first m
Part(p, s, m, n) == Len(p) = n /\ \A i \in 1..n : p[i] = s[m + i]

LEMMA PartAt ==
  ASSUME NEW p, NEW s, NEW m, NEW n, Part(p, s, m, n), NEW i \in 1..n
  PROVE  p[i] = s[m + i]
BY DEF Part

LEMMA DropFacts ==
  ASSUME NEW S, NEW s \in Seq(S), NEW n \in 0..Len(s)
  PROVE  /\ Drop(s, n) \in Seq(S) /\ Len(Drop(s, n)) = Len(s) - n
         /\ \A i \in 1..(Len(s) - n) : Drop(s, n)[i] = s[n + i]
BY DEF Drop

LEMMA TakeFacts ==
  ASSUME NEW S, NEW s \in Seq(S), NEW n \in 0..Len(s)
  PROVE  /\ SubSeq(s, 1, n) \in Seq(S) /\ Len(SubSeq(s, 1, n)) = n
         /\ \A i \in 1..n : SubSeq(s, 1, n)[i] = s[i]
<1>1. SubSeq(s, 1, n) \in Seq(S)
  OBVIOUS
<1>2. Len(SubSeq(s, 1, n)) = n
  OBVIOUS
<1>3. \A i \in 1..n : SubSeq(s, 1, n)[i] = s[i]
  OBVIOUS
<1> QED BY <1>1, <1>2, <1>3

\* The parts, to be given names
LEMMA TakePart ==
  ASSUME NEW S, NEW s \in Seq(S), NEW n \in 0..Len(s)
  PROVE  \E p \in Seq(S) : p = SubSeq(s, 1, n) /\ Len(p) = n /\ Part(p, s, 0, n)
<1> DEFINE p == SubSeq(s, 1, n)
<1>1. \A i \in 1..n : 0 + i = i
  OBVIOUS
<1>2. p \in Seq(S) /\ Len(p) = n /\ \A i \in 1..n : p[i] = s[i]
  BY TakeFacts
<1> HIDE DEF p
<1>3. Part(p, s, 0, n)
  BY <1>1, <1>2 DEF Part
<1> QED BY <1>2, <1>3 DEF p

LEMMA DropPart ==
  ASSUME NEW S, NEW s \in Seq(S), NEW n \in 0..Len(s), NEW k \in Nat, n + k = Len(s)
  PROVE  \E d \in Seq(S) : d = Drop(s, n) /\ Len(d) = k /\ Part(d, s, n, k)
<1> DEFINE d == Drop(s, n)
<1>1. Len(s) - n = k
  OBVIOUS
<1>2. d \in Seq(S) /\ Len(d) = k /\ \A i \in 1..k : d[i] = s[n + i]
  BY <1>1, DropFacts
<1> HIDE DEF d
<1>3. Part(d, s, n, k)
  BY <1>2 DEF Part
<1> QED BY <1>2, <1>3 DEF d

LEMMA JoinPart ==
  ASSUME NEW S, NEW s \in Seq(S), NEW t \in Seq(S)
  PROVE  \E c \in Seq(S) : /\ c = s \o t /\ Len(c) = Len(s) + Len(t)
                           /\ Part(s, c, 0, Len(s)) /\ Part(t, c, Len(s), Len(t))
<1>1. s \o t \in Seq(S)
  OBVIOUS
<1>2. Len(s \o t) = Len(s) + Len(t)
  OBVIOUS
<1>3. \A i \in 1..Len(s) : s[i] = (s \o t)[0 + i]
  OBVIOUS
<1>4. \A i \in 1..Len(t) : t[i] = (s \o t)[Len(s) + i]
  OBVIOUS
<1> QED BY <1>1, <1>2, <1>3, <1>4 DEF Part

LEMMA SamePart ==
  ASSUME NEW S, NEW s, NEW m, NEW n, NEW a \in Seq(S), NEW b \in Seq(S), Part(a, s, m, n), Part(b, s, m, n)
  PROVE  a = b
BY SeqEqual DEF Part

\* A row is what its first n elements and the others are.
LEMMA TwoParts ==
  ASSUME NEW S, NEW s \in Seq(S), NEW n \in Nat, NEW k \in Nat, n + k = Len(s),
         NEW a \in Seq(S), NEW b \in Seq(S), Part(a, s, 0, n), Part(b, s, n, k)
  PROVE  s = Joined(a, b)
<1>0. Len(a) = n /\ Len(b) = k /\ a \o b \in Seq(S)
  BY DEF Part
<1>1. PICK c \in Seq(S) : c = a \o b
  BY <1>0
<1>2. Len(c) = n + k
  BY <1>0, <1>1
<1>a. \A i \in 1..n : c[i] = a[i]
  BY <1>0, <1>1
<1>b. \A i \in 1..k : c[n + i] = b[i]
  BY <1>0, <1>1
<1>c. \A i \in 1..n : a[i] = s[i]
  BY DEF Part
<1>d. \A i \in 1..k : b[i] = s[n + i]
  BY DEF Part
<1>3. ASSUME NEW i \in 1..Len(s) PROVE c[i] = s[i]
  <2>1. CASE i <= n
    <3>1. i \in 1..n /\ 0 + i = i
      BY <2>1
    <3> QED BY <1>a, <1>c, <3>1
  <2>2. CASE i > n
    <3> DEFINE j == i - n
    <3>1. j \in 1..k /\ n + j = i
      BY <2>2
    <3> HIDE DEF j
    <3>2. c[n + j] = b[j] /\ b[j] = s[n + j]
      BY <1>b, <1>d, <3>1
    <3> QED BY <3>1, <3>2
  <2> QED BY <2>1, <2>2
<1>4. c = s
  BY <1>2, <1>3, SeqEqual
<1> QED BY <1>1, <1>4 DEF Joined

LEMMA PartOfPart ==
  ASSUME NEW p, NEW s, NEW m \in Nat, NEW n \in Nat, Part(p, s, m, n),
         NEW d, NEW j \in Nat, NEW k \in Nat, j + k <= n, Part(d, p, j, k)
  PROVE  Part(d, s, m + j, k)
<1>1. ASSUME NEW i \in 1..k PROVE d[i] = s[(m + j) + i]
  <2>1. d[i] = p[j + i] /\ j + i \in 1..n
    BY PartAt
  <2>2. p[j + i] = s[m + (j + i)]
    BY <2>1, PartAt
  <2> QED BY <2>1, <2>2
<1> QED BY <1>1 DEF Part

LEMMA TakeDrop ==
  ASSUME NEW S, NEW s \in Seq(S), NEW n \in 0..Len(s)
  PROVE  SubSeq(s, 1, n) \o Drop(s, n) = s
<1>0. PICK k \in Nat : n + k = Len(s)
  <2>1. Len(s) - n \in Nat /\ n + (Len(s) - n) = Len(s)
    OBVIOUS
  <2> QED BY <2>1
<1>1. PICK a \in Seq(S) : a = SubSeq(s, 1, n) /\ Len(a) = n /\ Part(a, s, 0, n)
  BY TakePart
<1>2. PICK b \in Seq(S) : b = Drop(s, n) /\ Len(b) = k /\ Part(b, s, n, k)
  BY <1>0, DropPart
<1>3. PICK m \in Nat : m = n
  OBVIOUS
<1>4. s = Joined(a, b)
  <2>1. m + k = Len(s) /\ Part(a, s, 0, m) /\ Part(b, s, m, k)
    BY <1>0, <1>1, <1>2, <1>3
  <2> QED BY <2>1, TwoParts
<1> QED BY <1>1, <1>2, <1>4 DEF Joined

LEMMA DropPast ==
  ASSUME NEW S, NEW s \in Seq(S), NEW t \in Seq(S), NEW n \in 0..Len(t)
  PROVE  Drop(s \o t, Len(s) + n) = Drop(t, n)
BY DEF Drop

LEMMA DropNone ==
  ASSUME NEW S, NEW s \in Seq(S) PROVE Drop(s, 0) = s /\ Drop(s, Len(s)) = <<>>
BY DEF Drop

LEMMA DropConcat ==
  ASSUME NEW S, NEW s \in Seq(S), NEW t \in Seq(S), NEW n \in 0..Len(s)
  PROVE  Drop(s \o t, n) = Drop(s, n) \o t
<1>1. PICK p \in Seq(S) : p = SubSeq(s, 1, n)
  BY TakeFacts
<1>2. PICK d \in Seq(S) : d = Drop(s, n)
  BY DropFacts
<1>3. Len(p) = n /\ s = p \o d
  BY <1>1, <1>2, TakeFacts, TakeDrop
<1>4. PICK c \in Seq(S) : c = d \o t
  <2>1. d \o t \in Seq(S)
    OBVIOUS
  <2> QED BY <2>1
<1>5. s \o t = p \o c
  BY <1>3, <1>4, ConcatAssociative
<1>6. 0 \in 0..Len(c) /\ Len(p) + 0 = n
  BY <1>3
<1>7. Drop(p \o c, Len(p) + 0) = Drop(c, 0)
  BY <1>6, DropPast
<1> QED BY <1>2, <1>4, <1>5, <1>6, <1>7, DropNone

LEMMA DropTwice ==
  ASSUME NEW S, NEW s \in Seq(S), NEW n \in Nat, NEW j \in Nat, NEW k \in Nat, n + j + k = Len(s)
  PROVE  Drop(Drop(s, n), j) = Drop(s, n + j)
<1>0. n \in 0..Len(s) /\ n + (j + k) = Len(s) /\ n + j \in 0..Len(s) /\ (n + j) + k = Len(s) /\ j + k \in Nat
  OBVIOUS
<1>1. PICK d \in Seq(S) : d = Drop(s, n) /\ Len(d) = j + k /\ Part(d, s, n, j + k)
  BY <1>0, DropPart
<1>2. j \in 0..Len(d) /\ j + k = Len(d)
  BY <1>1
<1>3. PICK a \in Seq(S) : a = Drop(d, j) /\ Len(a) = k /\ Part(a, d, j, k)
  BY <1>2, DropPart
<1>4. PICK b \in Seq(S) : b = Drop(s, n + j) /\ Len(b) = k /\ Part(b, s, n + j, k)
  BY <1>0, DropPart
<1>5. Part(a, s, n + j, k)
  <2>1. j + k <= j + k
    OBVIOUS
  <2> QED BY <1>0, <1>1, <1>3, <2>1, PartOfPart
<1>6. a = b
  BY <1>4, <1>5, SamePart
<1> QED BY <1>1, <1>3, <1>4, <1>6

-----------------------------------------------------------------------------
(* Messages, bytes and ibufs                                                *)

LEMMA PeerFacts ==
  /\ Peer("client") = "agent" /\ Peer("agent") = "client"
  /\ \A e \in Ends : Peer(e) \in Ends /\ Peer(e) # e /\ Peer(Peer(e)) = e
BY DEF Peer, Ends

LEMMA SizeFacts ==
  ASSUME NEW m \in Message
  PROVE  /\ Size(m) \in Nat \ {0} /\ HeaderSize \in Nat \ {0}
         /\ HeaderSize <= Size(m) /\ Size(m) <= MaxSize /\ MaxSize <= BufSize
         /\ MaxSize \in Nat /\ BufSize \in Nat
<1>1. m.type \in Requests \cup Answers
  BY DEF Message
<1>2. DataLen[m.type] \in Nat /\ HeaderSize + DataLen[m.type] <= MaxSize
  BY <1>1, FitAssumption
<1> QED BY <1>2, SizeAssumption, BufferAssumption DEF Size

LEMMA BytesFacts ==
  ASSUME NEW m \in Message
  PROVE  /\ Bytes(m) \in Seq(Byte) /\ Len(Bytes(m)) = Size(m)
         /\ \A i \in 1..Size(m) : Bytes(m)[i] = <<m, i>>
<1>1. Size(m) \in Nat
  BY SizeFacts
<1>2. \A i \in 1..Size(m) : <<m, i>> \in Byte
  BY <1>1 DEF Byte
<1> QED BY <1>1, <1>2 DEF Bytes

\* The ibufs in a queue have something to send
Pending == {b \in [msg : Message, rpos : Nat] : b.rpos < Size(b.msg)}

LEMMA LeftFacts ==
  ASSUME NEW b \in Pending
  PROVE  /\ Left(b) \in Seq(Byte) /\ Len(Left(b)) = Size(b.msg) - b.rpos
         /\ Len(Left(b)) \in Nat \ {0} /\ Left(b) = Drop(Bytes(b.msg), b.rpos)
<1>1. b.msg \in Message /\ b.rpos \in Nat /\ b.rpos < Size(b.msg) /\ Size(b.msg) \in Nat
  BY SizeFacts DEF Pending
<1>2. Left(b) = Drop(Bytes(b.msg), b.rpos)
  BY <1>1, BytesFacts DEF Left, Drop
<1>3. b.rpos \in 0..Len(Bytes(b.msg))
  BY <1>1, BytesFacts
<1> QED BY <1>1, <1>2, <1>3, BytesFacts, DropFacts

\* What is left to send of each ibuf
Lefts(q) == [i \in DOMAIN q |-> Left(q[i])]

LEMMA LeftsFacts ==
  ASSUME NEW q \in Seq(Pending)
  PROVE  /\ Lefts(q) \in Seq(Seq(Byte)) /\ Len(Lefts(q)) = Len(q)
         /\ \A i \in 1..Len(q) : Lefts(q)[i] = Left(q[i])
<1>1. Len(q) \in Nat /\ DOMAIN q = 1..Len(q) /\ \A i \in 1..Len(q) : q[i] \in Pending
  BY LenProperties
<1>2. \A i \in 1..Len(q) : Left(q[i]) \in Seq(Byte)
  BY <1>1, LeftFacts
<1> QED BY <1>1, <1>2 DEF Lefts

LEMMA LeftsAppend ==
  ASSUME NEW q \in Seq(Pending), NEW b \in Pending
  PROVE  Lefts(Append(q, b)) = Append(Lefts(q), Left(b))
<1>1. PICK u \in Seq(Pending) :
        u = Append(q, b) /\ Len(u) = Len(q) + 1 /\ u[Len(q) + 1] = b /\ \A i \in 1..Len(q) : u[i] = q[i]
  <2>1. Append(q, b) \in Seq(Pending)
    OBVIOUS
  <2>2. /\ Len(Append(q, b)) = Len(q) + 1 /\ Append(q, b)[Len(q) + 1] = b
        /\ \A i \in 1..Len(q) : Append(q, b)[i] = q[i]
    OBVIOUS
  <2> QED BY <2>1, <2>2
<1>2. PICK s \in Seq(Seq(Byte)) : s = Lefts(q) /\ Len(s) = Len(q) /\ \A i \in 1..Len(q) : s[i] = Left(q[i])
  BY LeftsFacts
<1>3. PICK x \in Seq(Byte) : x = Left(b)
  BY LeftFacts
<1>4. PICK t \in Seq(Seq(Byte)) : t = Lefts(u) /\ Len(t) = Len(u) /\ \A i \in 1..Len(u) : t[i] = Left(u[i])
  BY LeftsFacts
<1>5. ASSUME NEW i \in 1..Len(t) PROVE t[i] = Append(s, x)[i]
  BY <1>1, <1>2, <1>3, <1>4
<1>6. t = Append(s, x)
  BY <1>1, <1>2, <1>4, <1>5, SeqEqual
<1> QED BY <1>1, <1>2, <1>3, <1>4, <1>6

\* What is left of all of them
Rest(q) == FlattenSeq(Lefts(q))

LEMMA RestFacts ==
  /\ \A q \in Seq(Pending) : Rest(q) \in Seq(Byte)
  /\ Rest(<<>>) = <<>>
  /\ \A q \in Seq(Pending), b \in Pending : Rest(Append(q, b)) = Rest(q) \o Left(b)
<1>1. Lefts(<<>>) = <<>>
  BY DEF Lefts
<1> QED BY <1>1, LeftsFacts, LeftsAppend, LeftFacts, FlatType, FlatEmpty, FlatAppend DEF Rest

\* Two queues one behind the other
LEMMA LeftsConcat ==
  ASSUME NEW q \in Seq(Pending), NEW p \in Seq(Pending)
  PROVE  Lefts(q \o p) = Lefts(q) \o Lefts(p)
<1>1. PICK u \in Seq(Pending) : u = q \o p
  <2>1. q \o p \in Seq(Pending)
    OBVIOUS
  <2> QED BY <2>1
<1>2. /\ Len(u) = Len(q) + Len(p) /\ \A i \in 1..Len(q) : u[i] = q[i]
      /\ \A i \in 1..Len(p) : u[Len(q) + i] = p[i]
  BY <1>1
<1>3. PICK s \in Seq(Seq(Byte)) : s = Lefts(q) /\ Len(s) = Len(q) /\ \A i \in 1..Len(q) : s[i] = Left(q[i])
  BY LeftsFacts
<1>4. PICK t \in Seq(Seq(Byte)) : t = Lefts(p) /\ Len(t) = Len(p) /\ \A i \in 1..Len(p) : t[i] = Left(p[i])
  BY LeftsFacts
<1>5. PICK v \in Seq(Seq(Byte)) : v = Lefts(u) /\ Len(v) = Len(u) /\ \A i \in 1..Len(u) : v[i] = Left(u[i])
  BY LeftsFacts
<1>6. Len(q) + Len(p) = Len(v) /\ Len(q) \in Nat /\ Len(p) \in Nat
  BY <1>2, <1>5, LenProperties
<1>7. Part(s, v, 0, Len(q))
  <2>1. \A i \in 1..Len(q) : s[i] = v[0 + i]
    BY <1>2, <1>3, <1>5, <1>6
  <2> QED BY <1>3, <2>1 DEF Part
<1>8. Part(t, v, Len(q), Len(p))
  <2>1. \A i \in 1..Len(p) : t[i] = v[Len(q) + i]
    BY <1>2, <1>4, <1>5, <1>6
  <2> QED BY <1>4, <2>1 DEF Part
<1>9. v = Joined(s, t)
  BY <1>6, <1>7, <1>8, TwoParts
<1>10. Lefts(q) \o Lefts(p) = Joined(s, t)
  BY <1>3, <1>4 DEF Joined
<1>11. Lefts(q \o p) = Lefts(u)
  BY <1>1
<1>12. Lefts(u) = v
  BY <1>5
<1> QED BY <1>9, <1>10, <1>11, <1>12

LEMMA RestConcat ==
  ASSUME NEW q \in Seq(Pending), NEW p \in Seq(Pending)
  PROVE  Rest(q \o p) = Rest(q) \o Rest(p)
<1>1. PICK s \in Seq(Seq(Byte)) : s = Lefts(q)
  BY LeftsFacts
<1>2. PICK t \in Seq(Seq(Byte)) : t = Lefts(p)
  BY LeftsFacts
<1>3. FlattenSeq(s \o t) = FlattenSeq(s) \o FlattenSeq(t)
  BY FlatConcat
<1> QED BY <1>1, <1>2, <1>3, LeftsConcat DEF Rest

LEMMA RestOne == ASSUME NEW b \in Pending PROVE Rest(<<b>>) = Left(b)
<1>1. Lefts(<<b>>) = <<Left(b)>>
  BY DEF Lefts
<1> QED BY <1>1, LeftFacts, FlatOne DEF Rest

\* What is left once the first of three parts and some of the second are gone
LEMMA DropMiddle ==
  ASSUME NEW S, NEW x \in Seq(S), NEW y \in Seq(S), NEW z \in Seq(S), NEW j \in 0..Len(y)
  PROVE  Drop(Joined(Joined(x, y), z), Len(x) + j) = Joined(Drop(y, j), z)
<1>1. PICK c \in Seq(S) : c = y \o z /\ Len(c) = Len(y) + Len(z)
  BY JoinPart
<1>2. (x \o y) \o z = x \o (y \o z)
  BY ConcatAssociative
<1>3. j \in 0..Len(c)
  BY <1>1
<1>4. Drop(x \o c, Len(x) + j) = Drop(c, j)
  BY <1>3, DropPast
<1>5. Drop(y \o z, j) = Drop(y, j) \o z
  BY DropConcat
<1> QED BY <1>1, <1>2, <1>4, <1>5 DEF Joined

\* Bytes left in the first k ibufs
RestLen(q, k) == Len(Rest(SubSeq(q, 1, k)))

LEMMA AheadFacts ==
  ASSUME NEW e \in Ends, NEW q \in Seq(Pending), w[e] = q, NEW k \in 0..Len(q)
  PROVE  Ahead(e, k) = RestLen(q, k)
<1>1. PICK p \in Seq(Pending) : p = SubSeq(q, 1, k) /\ Len(p) = k /\ \A i \in 1..k : p[i] = q[i]
  <2>1. PICK p \in Seq(Pending) : p = SubSeq(q, 1, k) /\ Len(p) = k /\ Part(p, q, 0, k)
    BY TakePart
  <2> QED BY <2>1 DEF Part
<1>2. DOMAIN p = 1..k
  BY <1>1, LenProperties
<1>3. Lefts(p) = [i \in 1..k |-> Left(w[e][i])]
  BY <1>1, <1>2 DEF Lefts
<1> QED BY <1>1, <1>3 DEF Ahead, RestLen, Rest

LEMMA RestLenFacts ==
  ASSUME NEW q \in Seq(Pending)
  PROVE  /\ \A k \in 0..Len(q) : RestLen(q, k) \in Nat
         /\ RestLen(q, 0) = 0
         /\ RestLen(q, Len(q)) = Len(Rest(q))
         /\ \A k \in 0..(Len(q) - 1) : RestLen(q, k + 1) = RestLen(q, k) + Len(Left(q[k + 1]))
<1>1. ASSUME NEW k \in 0..Len(q) PROVE RestLen(q, k) \in Nat
  BY TakeFacts, RestFacts, LenProperties DEF RestLen
<1>2. SubSeq(q, 1, 0) = <<>> /\ SubSeq(q, 1, Len(q)) = q
  OBVIOUS
<1>a. RestLen(q, 0) = 0
  <2>1. Len(Rest(<<>>)) = 0
    BY RestFacts
  <2> QED BY <1>2, <2>1 DEF RestLen
<1>b. RestLen(q, Len(q)) = Len(Rest(q))
  BY <1>2 DEF RestLen
<1>3. ASSUME NEW k \in 0..(Len(q) - 1)
      PROVE  RestLen(q, k + 1) = RestLen(q, k) + Len(Left(q[k + 1]))
  <2>0. k \in 0..Len(q) /\ k + 1 \in 1..Len(q)
    BY LenProperties
  <2>1. PICK p \in Seq(Pending) : p = SubSeq(q, 1, k) /\ Len(p) = k
    BY <2>0, TakePart
  <2>2. PICK b \in Pending : b = q[k + 1]
    BY LenProperties
  <2>3. SubSeq(q, 1, k + 1) = Append(p, b)
    BY <2>0, <2>1, <2>2
  <2>4. Rest(Append(p, b)) = Rest(p) \o Left(b)
    BY RestFacts
  <2>5. PICK x \in Seq(Byte) : x = Rest(p)
    BY RestFacts
  <2>6. PICK y \in Seq(Byte) : y = Left(b)
    BY LeftFacts
  <2>7. Len(x \o y) = Len(x) + Len(y)
    OBVIOUS
  <2> QED BY <2>1, <2>2, <2>3, <2>4, <2>5, <2>6, <2>7 DEF RestLen
<1> QED BY <1>1, <1>a, <1>b, <1>3

\* Some ibuf is the first that n bytes do not reach the end of.
LEMMA Reached ==
  ASSUME NEW q \in Seq(Pending), NEW n \in 0..Len(Rest(q))
  PROVE  \E k \in 0..Len(q) : /\ RestLen(q, k) <= n
                              /\ k < Len(q) => RestLen(q, k + 1) > n
<1> DEFINE T == {k \in Nat : k \in 0..Len(q) => RestLen(q, k) <= n}
<1>1. SUFFICES ASSUME \A k \in 0..Len(q) : RestLen(q, k) <= n => k < Len(q) /\ RestLen(q, k + 1) <= n
               PROVE  FALSE
  BY RestLenFacts, RestFacts, LenProperties
<1>2. 0 \in T
  BY RestLenFacts, RestFacts, LenProperties
<1>3. ASSUME NEW k \in Nat, k \in T PROVE k + 1 \in T
  <2>1. ASSUME k + 1 \in 0..Len(q) PROVE RestLen(q, k + 1) <= n
    <3>1. k \in 0..Len(q)
      BY <2>1, LenProperties
    <3> QED BY <1>1, <1>3, <3>1
  <2> QED BY <2>1
<1>4. Nat \subseteq T
  <2> HIDE DEF T
  <2> QED BY <1>2, <1>3, SetInduction
<1>5. Len(q) \in 0..Len(q) /\ Len(q) \in Nat
  BY LenProperties
<1> QED BY <1>1, <1>4, <1>5

\* An ibuf of which j more bytes are sent
Sent(b, j) == [b EXCEPT !.rpos = @ + j]

LEMMA SentFacts ==
  ASSUME NEW b \in Pending, NEW j \in Nat, j < Len(Left(b))
  PROVE  Sent(b, j) \in Pending /\ Left(Sent(b, j)) = Drop(Left(b), j)
<1>1. b.msg \in Message /\ b.rpos \in Nat /\ b.rpos < Size(b.msg) /\ Size(b.msg) \in Nat
  BY SizeFacts DEF Pending
<1>2. Len(Left(b)) = Size(b.msg) - b.rpos /\ Left(b) = Drop(Bytes(b.msg), b.rpos)
  BY LeftFacts
<1>3. Sent(b, j).msg = b.msg /\ Sent(b, j).rpos = b.rpos + j /\ Sent(b, j) \in [msg : Message, rpos : Nat]
  BY <1>1 DEF Sent, Pending
<1>4. Sent(b, j) \in Pending
  BY <1>1, <1>2, <1>3 DEF Pending
<1>5. Left(Sent(b, j)) = Drop(Bytes(b.msg), b.rpos + j)
  BY <1>3, <1>4, LeftFacts
<1>6. PICK s \in Seq(Byte) : s = Bytes(b.msg) /\ Len(s) = Size(b.msg)
  BY <1>1, BytesFacts
<1>7. PICK i \in Nat : b.rpos + j + i = Len(s)
  <2>1. Len(s) - (b.rpos + j) \in Nat /\ b.rpos + j + (Len(s) - (b.rpos + j)) = Len(s)
    BY <1>1, <1>2, <1>6
  <2> QED BY <2>1
<1>8. Drop(s, b.rpos + j) = Drop(Drop(s, b.rpos), j)
  BY <1>1, <1>7, DropTwice
<1> QED BY <1>2, <1>4, <1>5, <1>6, <1>8

\* What msgbuf_drain leaves in the queue are the bytes that are not sent yet.
LEMMA DrainedFacts ==
  ASSUME NEW e \in Ends, NEW q \in Seq(Pending), w[e] = q, NEW n \in 0..Len(Rest(q))
  PROVE  Drained(e, n) \in Seq(Pending) /\ Rest(Drained(e, n)) = Drop(Rest(q), n)
<1> DEFINE At(k) == Ahead(e, k) <= n /\ (k < Len(w[e]) => Ahead(e, k + 1) > n)
           k == CHOOSE k \in 0..Len(w[e]) : At(k)
<1>1. \E j \in 0..Len(w[e]) : At(j)
  <2>1. PICK j \in 0..Len(q) : RestLen(q, j) <= n /\ (j < Len(q) => RestLen(q, j + 1) > n)
    BY Reached
  <2>2. j < Len(q) => j + 1 \in 0..Len(q)
    BY LenProperties
  <2> QED BY <2>1, <2>2, AheadFacts
<1>2. k \in 0..Len(q) /\ At(k)
  BY <1>1
<1>3. Drained(e, n) = [i \in 1..(Len(q) - k) |->
        IF i = 1 THEN Sent(q[k + 1], n - Ahead(e, k)) ELSE q[k + i]]
  BY DEF Drained, Sent
<1> HIDE DEF k
<1>4. Ahead(e, k) = RestLen(q, k) /\ RestLen(q, k) \in Nat /\ RestLen(q, k) <= n
  BY <1>2, AheadFacts, RestLenFacts
<1>5. CASE k = Len(q)
  <2>1. Len(q) - k = 0
    BY <1>5, LenProperties
  <2>2. Drained(e, n) = <<>>
    BY <1>3, <2>1
  <2>3. n = Len(Rest(q))
    BY <1>4, <1>5, RestLenFacts, RestFacts, LenProperties
  <2> QED BY <2>2, <2>3, RestFacts, DropNone
<1>6. CASE k < Len(q)
  <2> DEFINE j == n - RestLen(q, k)
  <2>1. PICK b \in Pending : b = q[k + 1]
    BY <1>2, <1>6, LenProperties
  <2>2. j \in Nat /\ j < Len(Left(b))
    <3>1. k + 1 \in 0..Len(q) /\ k \in 0..(Len(q) - 1)
      BY <1>2, <1>6, LenProperties
    <3>2. RestLen(q, k + 1) > n
      BY <1>2, <1>6, <3>1, AheadFacts
    <3>3. RestLen(q, k + 1) = RestLen(q, k) + Len(Left(b))
      BY <2>1, <3>1, RestLenFacts
    <3>4. Len(Left(b)) \in Nat
      BY LeftFacts
    <3> QED BY <1>4, <3>2, <3>3, <3>4
  <2>3. PICK c \in Pending : c = Sent(b, j) /\ Left(c) = Drop(Left(b), j)
    <3> HIDE DEF j
    <3> QED BY <2>2, SentFacts
  <2>4. PICK p \in Seq(Pending) : p = SubSeq(q, 1, k)
    BY <1>2, TakePart
  <2>5. k + 1 \in 0..Len(q)
    BY <1>2, <1>6, LenProperties
  <2>a. PICK l \in Nat : (k + 1) + l = Len(q)
    <3>1. Len(q) - (k + 1) \in Nat /\ (k + 1) + (Len(q) - (k + 1)) = Len(q)
      BY <2>5, LenProperties
    <3> QED BY <3>1
  <2>6. PICK d \in Seq(Pending) : d = Drop(q, k + 1) /\ Len(d) = l /\ Part(d, q, k + 1, l)
    BY <2>5, <2>a, DropPart
  <2>7. q = (p \o <<b>>) \o d
    <3>1. SubSeq(q, 1, k + 1) = Append(p, b)
      <4>1. Append(SubSeq(q, 1, k), q[k + 1]) = SubSeq(q, 1, k + 1)
        BY <1>2, <1>6, <2>5
      <4> QED BY <2>1, <2>4, <4>1
    <3>2. Append(p, b) = p \o <<b>>
      BY AppendIsConcat
    <3>3. SubSeq(q, 1, k + 1) \o Drop(q, k + 1) = q
      BY <2>5, TakeDrop
    <3> QED BY <2>6, <3>1, <3>2, <3>3
  <2>8. Drained(e, n) = <<c>> \o d
    <3>1. \A i \in 1..(Len(q) - k) : i # 1 => q[k + i] = d[i - 1]
      <4>1. ASSUME NEW i \in 1..(Len(q) - k), i # 1 PROVE q[k + i] = d[i - 1]
        <5>1. i - 1 \in 1..l /\ (k + 1) + (i - 1) = k + i
          BY <1>2, <2>a, <4>1
        <5>2. d[i - 1] = q[(k + 1) + (i - 1)]
          BY <2>6, <5>1 DEF Part
        <5> QED BY <5>1, <5>2
      <4> QED BY <4>1
    <3>2. <<c>> \o d = [i \in 1..(1 + Len(d)) |-> IF i = 1 THEN c ELSE d[i - 1]]
      OBVIOUS
    <3>3. 1 + Len(d) = Len(q) - k
      BY <1>2, <2>a, <2>6
    <3>4. Drained(e, n) = [i \in 1..(Len(q) - k) |-> IF i = 1 THEN c ELSE q[k + i]]
      BY <1>3, <1>4, <2>1, <2>3
    <3> QED BY <3>1, <3>2, <3>3, <3>4
  <2>9. /\ <<c>> \in Seq(Pending) /\ <<b>> \in Seq(Pending)
        /\ <<c>> \o d \in Seq(Pending) /\ p \o <<b>> \in Seq(Pending)
    OBVIOUS
  <2>b. PICK sb \in Seq(Pending) : sb = <<b>> /\ Rest(sb) = Left(b)
    BY <2>9, RestOne
  <2>c. PICK sc \in Seq(Pending) : sc = <<c>> /\ Rest(sc) = Left(c)
    BY <2>9, RestOne
  <2>d. PICK pb \in Seq(Pending) : pb = p \o sb
    BY <2>9, <2>b
  <2>10. Rest(sc \o d) = Rest(sc) \o Rest(d)
    BY RestConcat
  <2>11. Rest(pb \o d) = Rest(pb) \o Rest(d) /\ Rest(p \o sb) = Rest(p) \o Rest(sb)
    BY RestConcat
  <2>12. PICK x \in Seq(Byte) : x = Rest(p) /\ Len(x) = RestLen(q, k)
    BY <2>4, RestFacts DEF RestLen
  <2>13. PICK y \in Seq(Byte) : y = Left(b)
    BY LeftFacts
  <2>14. PICK z \in Seq(Byte) : z = Rest(d)
    BY RestFacts
  <2>15. n = Len(x) + j /\ j \in 0..Len(y)
    BY <1>4, <2>2, <2>12, <2>13
  <2>16. PICK i \in 0..Len(y) : i = j
    BY <2>15
  <2>17. Drop(Joined(Joined(x, y), z), Len(x) + i) = Joined(Drop(y, i), z)
    BY DropMiddle
  <2>19. Rest(q) = (x \o y) \o z
    BY <2>7, <2>b, <2>d, <2>11, <2>12, <2>13, <2>14
  <2>20. Rest(Drained(e, n)) = Drop(y, j) \o z
    BY <2>3, <2>8, <2>c, <2>10, <2>13, <2>14
  <2>21. Drop(Rest(q), n) = Drop(y, j) \o z
    BY <2>15, <2>16, <2>17, <2>19 DEF Joined
  <2> QED BY <2>8, <2>9, <2>20, <2>21
<1> QED BY <1>2, <1>5, <1>6, LenProperties

-----------------------------------------------------------------------------
(* The messages that are complete in a row of bytes                         *)

Mark(b) == IF IsLast(b) THEN <<b[1]>> ELSE <<>>

LEMMA MarkFacts == ASSUME NEW b \in Byte PROVE Mark(b) \in Seq(Message)
<1>1. b[1] \in Message
  BY DEF Byte
<1> QED BY <1>1 DEF Mark

Marks(s) == [i \in DOMAIN s |-> Mark(s[i])]

LEMMA CompletedMarks == ASSUME NEW s PROVE Completed(s) = FlattenSeq(Marks(s))
BY DEF Completed, Marks, Mark

LEMMA MarksFacts ==
  ASSUME NEW s \in Seq(Byte)
  PROVE  /\ Marks(s) \in Seq(Seq(Message)) /\ Len(Marks(s)) = Len(s)
         /\ \A i \in 1..Len(s) : Marks(s)[i] = Mark(s[i])
<1>1. Len(s) \in Nat /\ DOMAIN s = 1..Len(s) /\ \A i \in 1..Len(s) : s[i] \in Byte
  BY LenProperties
<1>2. \A i \in 1..Len(s) : Mark(s[i]) \in Seq(Message)
  BY <1>1, MarkFacts
<1> QED BY <1>1, <1>2 DEF Marks

LEMMA CompletedType == ASSUME NEW s \in Seq(Byte) PROVE Completed(s) \in Seq(Message)
BY CompletedMarks, MarksFacts, FlatType

LEMMA CompletedConcat ==
  ASSUME NEW q \in Seq(Byte), NEW p \in Seq(Byte)
  PROVE  Completed(q \o p) = Completed(q) \o Completed(p)
<1>1. PICK u \in Seq(Byte) : u = q \o p
  <2>1. q \o p \in Seq(Byte)
    OBVIOUS
  <2> QED BY <2>1
<1>2. /\ Len(u) = Len(q) + Len(p) /\ \A i \in 1..Len(q) : u[i] = q[i]
      /\ \A i \in 1..Len(p) : u[Len(q) + i] = p[i]
  BY <1>1
<1>3. PICK s \in Seq(Seq(Message)) : s = Marks(q) /\ Len(s) = Len(q) /\ \A i \in 1..Len(q) : s[i] = Mark(q[i])
  BY MarksFacts
<1>4. PICK t \in Seq(Seq(Message)) : t = Marks(p) /\ Len(t) = Len(p) /\ \A i \in 1..Len(p) : t[i] = Mark(p[i])
  BY MarksFacts
<1>5. PICK v \in Seq(Seq(Message)) : v = Marks(u) /\ Len(v) = Len(u) /\ \A i \in 1..Len(u) : v[i] = Mark(u[i])
  BY MarksFacts
<1>6. Len(q) + Len(p) = Len(v) /\ Len(q) \in Nat /\ Len(p) \in Nat
  BY <1>2, <1>5, LenProperties
<1>7. Part(s, v, 0, Len(q))
  <2>1. \A i \in 1..Len(q) : s[i] = v[0 + i]
    BY <1>2, <1>3, <1>5, <1>6
  <2> QED BY <1>3, <2>1 DEF Part
<1>8. Part(t, v, Len(q), Len(p))
  <2>1. \A i \in 1..Len(p) : t[i] = v[Len(q) + i]
    BY <1>2, <1>4, <1>5, <1>6
  <2> QED BY <1>4, <2>1 DEF Part
<1>9. v = Joined(s, t)
  BY <1>6, <1>7, <1>8, TwoParts
<1>10. FlattenSeq(s \o t) = FlattenSeq(s) \o FlattenSeq(t)
  BY FlatConcat
<1>11. Completed(q \o p) = FlattenSeq(v)
  BY <1>1, <1>5, CompletedMarks
<1>12. Completed(q) \o Completed(p) = FlattenSeq(s) \o FlattenSeq(t)
  BY <1>3, <1>4, CompletedMarks
<1>13. FlattenSeq(v) = FlattenSeq(s \o t)
  BY <1>9 DEF Joined
<1> QED BY <1>10, <1>11, <1>12, <1>13

LEMMA FlatNothing ==
  ASSUME NEW S, NEW s \in Seq(Seq(S)), \A i \in 1..Len(s) : s[i] = <<>>
  PROVE  FlattenSeq(s) = <<>>
<1> DEFINE T == {n \in Nat : \A q \in Seq(Seq(S)) :
                   Len(q) = n /\ (\A i \in 1..Len(q) : q[i] = <<>>) => FlattenSeq(q) = <<>>}
<1>1. 0 \in T
  <2>1. \A q \in Seq(Seq(S)) : Len(q) = 0 => q = <<>>
    BY EmptyRow
  <2> QED BY <2>1, FlatEmpty
<1>2. ASSUME NEW n \in Nat, n \in T PROVE n + 1 \in T
  <2>1. ASSUME NEW q \in Seq(Seq(S)), Len(q) = n + 1, \A i \in 1..Len(q) : q[i] = <<>>
        PROVE  FlattenSeq(q) = <<>>
    <3>1. PICK p \in Seq(Seq(S)), x \in Seq(S) : q = Append(p, x)
      <4>1. q # <<>>
        BY <2>1
      <4> QED BY <4>1, SequenceEmptyOrAppend
    <3>2. Len(p) = n /\ q[n + 1] = x /\ \A i \in 1..Len(p) : p[i] = q[i]
      BY <2>1, <3>1, AppendProperties, LenProperties
    <3>3. x = <<>>
      BY <2>1, <3>2
    <3>4. \A i \in 1..Len(p) : p[i] = <<>>
      BY <2>1, <3>2
    <3>5. FlattenSeq(p) = <<>>
      BY <1>2, <3>2, <3>4
    <3>6. FlattenSeq(Append(p, x)) = FlattenSeq(p) \o x
      BY FlatAppend
    <3>7. <<>> \o x = x
      BY ConcatEmptySeq
    <3> QED BY <3>1, <3>3, <3>5, <3>6, <3>7
  <2> QED BY <2>1
<1>3. Nat \subseteq T
  <2> HIDE DEF T
  <2> QED BY <1>1, <1>2, SetInduction
<1> QED BY <1>3, LenProperties

LEMMA CompletedNothing ==
  ASSUME NEW s \in Seq(Byte), \A i \in 1..Len(s) : ~IsLast(s[i])
  PROVE  Completed(s) = <<>>
<1>1. PICK t \in Seq(Seq(Message)) : t = Marks(s) /\ Len(t) = Len(s) /\ \A i \in 1..Len(s) : t[i] = Mark(s[i])
  BY MarksFacts
<1>2. \A i \in 1..Len(t) : t[i] = <<>>
  BY <1>1 DEF Mark
<1> QED BY <1>1, <1>2, FlatNothing, CompletedMarks

LEMMA CompletedOne == ASSUME NEW b \in Byte, IsLast(b) PROVE Completed(<<b>>) = <<b[1]>>
<1>1. Marks(<<b>>) = <<Mark(b)>>
  BY DEF Marks
<1>2. FlattenSeq(<<Mark(b)>>) = Mark(b)
  BY MarkFacts, FlatOne
<1>3. Mark(b) = <<b[1]>>
  BY DEF Mark
<1> QED BY <1>1, <1>2, <1>3, CompletedMarks

\* The first bytes of a message, not all of them
Partial(p) == \/ p = <<>>
              \/ \E m \in Message : \E j \in 0..(Size(m) - 1) : p = SubSeq(Bytes(m), 1, j)

LEMMA PartialFacts ==
  ASSUME NEW p, Partial(p)
  PROVE  p \in Seq(Byte) /\ Completed(p) = <<>>
<1>1. CASE p = <<>>
  <2>1. PICK q \in Seq(Byte) : q = <<>> /\ Len(q) = 0
    BY EmptySeq
  <2>2. \A i \in 1..Len(q) : ~IsLast(q[i])
    BY <2>1
  <2>3. Completed(q) = <<>>
    BY <2>2, CompletedNothing
  <2> QED BY <1>1, <2>1, <2>3
<1>2. ASSUME NEW m \in Message, NEW j \in 0..(Size(m) - 1), p = SubSeq(Bytes(m), 1, j)
      PROVE  p \in Seq(Byte) /\ Completed(p) = <<>>
  <2>1. PICK s \in Seq(Byte) : s = Bytes(m) /\ Len(s) = Size(m) /\ \A i \in 1..Size(m) : s[i] = <<m, i>>
    BY BytesFacts
  <2>2. Size(m) \in Nat \ {0} /\ j \in Nat /\ j < Size(m) /\ j \in 0..Len(s)
    BY <2>1, SizeFacts
  <2>3. PICK q \in Seq(Byte) : q = SubSeq(s, 1, j) /\ Len(q) = j /\ Part(q, s, 0, j)
    BY <2>2, TakePart
  <2>4. \A i \in 1..Len(q) : q[i] = <<m, i>>
    BY <2>1, <2>2, <2>3 DEF Part
  <2>5. \A i \in 1..Len(q) : ~IsLast(q[i])
    BY <2>2, <2>3, <2>4 DEF IsLast
  <2> QED BY <1>2, <2>1, <2>3, <2>5, CompletedNothing
<1> QED BY <1>1, <1>2 DEF Partial

LEMMA CompletedBytes == ASSUME NEW m \in Message PROVE Completed(Bytes(m)) = <<m>>
<1>1. PICK s \in Seq(Byte) : s = Bytes(m) /\ Len(s) = Size(m) /\ \A i \in 1..Size(m) : s[i] = <<m, i>>
  BY BytesFacts
<1>2. Size(m) \in Nat \ {0}
  BY SizeFacts
<1>3. PICK j \in 0..(Size(m) - 1) : j + 1 = Size(m) /\ j \in 0..Len(s) /\ j \in Nat
  <2>1. /\ Size(m) - 1 \in 0..(Size(m) - 1) /\ (Size(m) - 1) + 1 = Size(m)
        /\ Size(m) - 1 \in 0..Len(s) /\ Size(m) - 1 \in Nat
    BY <1>1, <1>2
  <2> QED BY <2>1
<1>4. PICK p \in Seq(Byte) : p = SubSeq(s, 1, j)
  BY <1>3, TakePart
<1>5. Completed(p) = <<>>
  <2>1. Partial(p)
    BY <1>1, <1>4 DEF Partial
  <2> QED BY <2>1, PartialFacts
<1>6. PICK b \in Byte : b = <<m, Size(m)>> /\ b = s[j + 1]
  BY <1>1, <1>2, <1>3 DEF Byte
<1>7. s = p \o <<b>>
  <2>1. SubSeq(s, 1, j + 1) = Append(SubSeq(s, 1, j), s[j + 1])
    BY <1>1, <1>3
  <2>2. SubSeq(s, 1, Len(s)) = s
    OBVIOUS
  <2>3. Append(p, b) = p \o <<b>>
    BY AppendIsConcat
  <2> QED BY <1>1, <1>3, <1>4, <1>6, <2>1, <2>2, <2>3
<1>8. Completed(<<b>>) = <<m>>
  <2>1. IsLast(b) /\ b[1] = m
    BY <1>6 DEF IsLast
  <2> QED BY <2>1, CompletedOne
<1>9. PICK t \in Seq(Byte) : t = <<b>>
  <2>1. <<b>> \in Seq(Byte)
    OBVIOUS
  <2> QED BY <2>1
<1>10. Completed(p \o t) = Completed(p) \o Completed(t)
  BY CompletedConcat
<1>11. <<>> \o <<m>> = <<m>>
  OBVIOUS
<1> QED BY <1>1, <1>5, <1>7, <1>8, <1>9, <1>10, <1>11

-----------------------------------------------------------------------------
(* Messages spelled out                                                     *)

Spellings(ms) == [i \in DOMAIN ms |-> Bytes(ms[i])]

\* The bytes of a row of messages
Spelled(ms) == FlattenSeq(Spellings(ms))

LEMMA SpellingsFacts ==
  ASSUME NEW ms \in Seq(Message)
  PROVE  /\ Spellings(ms) \in Seq(Seq(Byte)) /\ Len(Spellings(ms)) = Len(ms)
         /\ \A i \in 1..Len(ms) : Spellings(ms)[i] = Bytes(ms[i])
<1>1. Len(ms) \in Nat /\ DOMAIN ms = 1..Len(ms) /\ \A i \in 1..Len(ms) : ms[i] \in Message
  BY LenProperties
<1>2. \A i \in 1..Len(ms) : Bytes(ms[i]) \in Seq(Byte)
  BY <1>1, BytesFacts
<1> QED BY <1>1, <1>2 DEF Spellings

LEMMA SpelledFacts ==
  /\ Spelled(<<>>) = <<>>
  /\ \A ms \in Seq(Message) : Spelled(ms) \in Seq(Byte)
  /\ \A ms \in Seq(Message), m \in Message : Spelled(Append(ms, m)) = Joined(Spelled(ms), Bytes(m))
<1>1. Spellings(<<>>) = <<>>
  BY DEF Spellings
<1>2. \A ms \in Seq(Message) : Spelled(ms) \in Seq(Byte)
  BY SpellingsFacts, FlatType DEF Spelled
<1>3. ASSUME NEW ms \in Seq(Message), NEW m \in Message
      PROVE  Spelled(Append(ms, m)) = Joined(Spelled(ms), Bytes(m))
  <2>1. PICK u \in Seq(Message) :
          u = Append(ms, m) /\ Len(u) = Len(ms) + 1 /\ u[Len(ms) + 1] = m /\ \A i \in 1..Len(ms) : u[i] = ms[i]
    <3>1. Append(ms, m) \in Seq(Message)
      OBVIOUS
    <3>2. /\ Len(Append(ms, m)) = Len(ms) + 1 /\ Append(ms, m)[Len(ms) + 1] = m
          /\ \A i \in 1..Len(ms) : Append(ms, m)[i] = ms[i]
      OBVIOUS
    <3> QED BY <3>1, <3>2
  <2>2. PICK s \in Seq(Seq(Byte)) :
          s = Spellings(ms) /\ Len(s) = Len(ms) /\ \A i \in 1..Len(ms) : s[i] = Bytes(ms[i])
    BY SpellingsFacts
  <2>3. PICK x \in Seq(Byte) : x = Bytes(m)
    BY BytesFacts
  <2>4. PICK t \in Seq(Seq(Byte)) :
          t = Spellings(u) /\ Len(t) = Len(u) /\ \A i \in 1..Len(u) : t[i] = Bytes(u[i])
    BY SpellingsFacts
  <2>5. ASSUME NEW i \in 1..Len(t) PROVE t[i] = Append(s, x)[i]
    BY <2>1, <2>2, <2>3, <2>4
  <2>6. t = Append(s, x)
    BY <2>1, <2>2, <2>4, <2>5, SeqEqual
  <2>7. FlattenSeq(Append(s, x)) = FlattenSeq(s) \o x
    BY FlatAppend
  <2> QED BY <2>1, <2>2, <2>3, <2>4, <2>6, <2>7 DEF Spelled, Joined
<1> QED BY <1>1, <1>2, <1>3, FlatEmpty DEF Spelled

LEMMA JoinedFacts ==
  ASSUME NEW S, NEW x \in Seq(S), NEW y \in Seq(S)
  PROVE  /\ Joined(x, y) \in Seq(S) /\ Len(Joined(x, y)) = Len(x) + Len(y)
         /\ Joined(x, <<>>) = x /\ Joined(<<>>, x) = x
         /\ \A z \in Seq(S) : Joined(Joined(x, y), z) = Joined(x, Joined(y, z))
<1>1. x \o y \in Seq(S)
  OBVIOUS
<1>2. x \o <<>> = x /\ <<>> \o x = x
  BY ConcatEmptySeq
<1>3. Len(x \o y) = Len(x) + Len(y)
  OBVIOUS
<1>4. ASSUME NEW z \in Seq(S) PROVE (x \o y) \o z = x \o (y \o z)
  BY ConcatAssociative
<1> QED BY <1>1, <1>2, <1>3, <1>4 DEF Joined

\* The messages of a row that spells some are those.
LEMMA CompletedSpelled ==
  ASSUME NEW ms \in Seq(Message)
  PROVE  Completed(Spelled(ms)) = ms
<1> DEFINE T == {n \in Nat : \A u \in Seq(Message) : Len(u) = n => Completed(Spelled(u)) = u}
<1>1. 0 \in T
  <2>1. \A u \in Seq(Message) : Len(u) = 0 => u = <<>>
    BY EmptyRow
  <2>2. Completed(<<>>) = <<>>
    BY PartialFacts DEF Partial
  <2> QED BY <2>1, <2>2, SpelledFacts
<1>2. ASSUME NEW n \in Nat, n \in T PROVE n + 1 \in T
  <2>1. ASSUME NEW u \in Seq(Message), Len(u) = n + 1 PROVE Completed(Spelled(u)) = u
    <3>1. PICK p \in Seq(Message), m \in Message : u = Append(p, m)
      <4>1. u # <<>>
        BY <2>1
      <4> QED BY <4>1, SequenceEmptyOrAppend
    <3>2. Len(p) = n
      BY <2>1, <3>1, AppendProperties, LenProperties
    <3>3. Completed(Spelled(p)) = p
      BY <1>2, <3>2
    <3>4. PICK s \in Seq(Byte) : s = Spelled(p)
      BY SpelledFacts
    <3>5. PICK t \in Seq(Byte) : t = Bytes(m)
      BY BytesFacts
    <3>6. Completed(s \o t) = Completed(s) \o Completed(t)
      BY CompletedConcat
    <3>7. Completed(t) = <<m>>
      BY <3>5, CompletedBytes
    <3>8. Append(p, m) = p \o <<m>>
      BY AppendIsConcat
    <3>9. Spelled(u) = s \o t
      BY <3>1, <3>4, <3>5, SpelledFacts DEF Joined
    <3> QED BY <3>1, <3>3, <3>4, <3>6, <3>7, <3>8, <3>9
  <2> QED BY <2>1
<1>3. Nat \subseteq T
  <2> HIDE DEF T
  <2> QED BY <1>1, <1>2, SetInduction
<1> QED BY <1>3, LenProperties

\* s spells the messages ms and then p, the begin of another
Spells(s, ms, p) == ms \in Seq(Message) /\ Partial(p) /\ s = Joined(Spelled(ms), p)

LEMMA SpellsFacts ==
  ASSUME NEW s, NEW ms, NEW p, Spells(s, ms, p)
  PROVE  s \in Seq(Byte) /\ ms \in Seq(Message) /\ p \in Seq(Byte) /\ Completed(s) = ms
<1>1. PICK x \in Seq(Byte) : x = Spelled(ms) /\ Completed(x) = ms
  BY SpelledFacts, CompletedSpelled DEF Spells
<1>2. PICK y \in Seq(Byte) : y = p /\ Completed(y) = <<>>
  BY PartialFacts DEF Spells
<1>3. Completed(x \o y) = Completed(x) \o Completed(y)
  BY CompletedConcat
<1>4. s = x \o y
  BY <1>1, <1>2 DEF Spells, Joined
<1>5. ms \in Seq(Message)
  BY DEF Spells
<1>6. ms \o <<>> = ms
  BY <1>5, ConcatEmptySeq
<1>7. x \o y \in Seq(Byte)
  OBVIOUS
<1> QED BY <1>1, <1>2, <1>3, <1>4, <1>5, <1>6, <1>7

\* One more message behind whole ones
LEMMA SpellsMore ==
  ASSUME NEW s, NEW ms, NEW m \in Message, Spells(s, ms, <<>>)
  PROVE  Spells(Joined(s, Bytes(m)), Append(ms, m), <<>>)
<1>1. ms \in Seq(Message) /\ Append(ms, m) \in Seq(Message)
  BY DEF Spells
<1>2. PICK x \in Seq(Byte) : x = Spelled(ms)
  BY <1>1, SpelledFacts
<1>3. PICK y \in Seq(Byte) : y = Bytes(m)
  BY BytesFacts
<1>4. s = x
  BY <1>2, JoinedFacts DEF Spells
<1>5. Spelled(Append(ms, m)) = Joined(x, y)
  BY <1>1, <1>2, <1>3, SpelledFacts
<1>6. PICK z \in Seq(Byte) : z = Joined(x, y)
  BY JoinedFacts
<1>7. z = Joined(z, <<>>)
  BY JoinedFacts
<1> QED BY <1>1, <1>3, <1>4, <1>5, <1>6, <1>7 DEF Spells, Partial

LEMMA SpelledConcat ==
  ASSUME NEW ms \in Seq(Message), NEW ns \in Seq(Message)
  PROVE  Spelled(Joined(ms, ns)) = Joined(Spelled(ms), Spelled(ns))
<1> DEFINE T == {n \in Nat : \A u \in Seq(Message) : Len(u) = n =>
                   Spelled(Joined(ms, u)) = Joined(Spelled(ms), Spelled(u))}
<1>1. 0 \in T
  <2>1. \A u \in Seq(Message) : Len(u) = 0 => u = <<>>
    BY EmptyRow
  <2>2. Joined(ms, <<>>) = ms /\ Joined(Spelled(ms), <<>>) = Spelled(ms)
    BY SpelledFacts, JoinedFacts
  <2> QED BY <2>1, <2>2, SpelledFacts
<1>2. ASSUME NEW n \in Nat, n \in T PROVE n + 1 \in T
  <2>1. ASSUME NEW u \in Seq(Message), Len(u) = n + 1
        PROVE  Spelled(Joined(ms, u)) = Joined(Spelled(ms), Spelled(u))
    <3>1. PICK p \in Seq(Message), m \in Message : u = Append(p, m)
      <4>1. u # <<>>
        BY <2>1
      <4> QED BY <4>1, SequenceEmptyOrAppend
    <3>2. Len(p) = n
      BY <2>1, <3>1, AppendProperties, LenProperties
    <3>3. PICK v \in Seq(Message) : v = Joined(ms, p)
      BY JoinedFacts
    <3>4. Joined(ms, u) = Append(v, m)
      <4>1. PICK o \in Seq(Message) : o = <<m>>
        <5>1. <<m>> \in Seq(Message)
          OBVIOUS
        <5> QED BY <5>1
      <4>2. Append(p, m) = Joined(p, o) /\ Append(v, m) = Joined(v, o)
        BY <4>1, AppendIsConcat DEF Joined
      <4>3. Joined(Joined(ms, p), o) = Joined(ms, Joined(p, o))
        BY JoinedFacts
      <4> QED BY <3>1, <3>3, <4>2, <4>3
    <3>5. PICK x \in Seq(Byte) : x = Spelled(ms)
      BY SpelledFacts
    <3>6. PICK y \in Seq(Byte) : y = Spelled(p)
      BY SpelledFacts
    <3>7. PICK z \in Seq(Byte) : z = Bytes(m)
      BY BytesFacts
    <3>8. Spelled(v) = Joined(x, y)
      BY <1>2, <3>2, <3>3, <3>5, <3>6
    <3>9. Spelled(Append(v, m)) = Joined(Spelled(v), z) /\ Spelled(Append(p, m)) = Joined(y, z)
      BY <3>6, <3>7, SpelledFacts
    <3>10. Joined(Joined(x, y), z) = Joined(x, Joined(y, z))
      BY JoinedFacts
    <3> QED BY <3>1, <3>4, <3>5, <3>8, <3>9, <3>10
  <2> QED BY <2>1
<1>3. Nat \subseteq T
  <2> HIDE DEF T
  <2> QED BY <1>1, <1>2, SetInduction
<1> QED BY <1>3, LenProperties

LEMMA PartialParts ==
  ASSUME NEW m \in Message, NEW j \in 0..(Size(m) - 1)
  PROVE  \E p \in Seq(Byte) : /\ p = SubSeq(Bytes(m), 1, j) /\ Len(p) = j /\ Partial(p)
                              /\ \A i \in 1..j : p[i] = <<m, i>>
<1>1. PICK s \in Seq(Byte) : s = Bytes(m) /\ Len(s) = Size(m) /\ \A i \in 1..Size(m) : s[i] = <<m, i>>
  BY BytesFacts
<1>2. Size(m) \in Nat \ {0} /\ j \in Nat /\ j < Size(m) /\ j \in 0..Len(s)
  BY <1>1, SizeFacts
<1>3. PICK p \in Seq(Byte) : p = SubSeq(s, 1, j) /\ Len(p) = j /\ Part(p, s, 0, j)
  BY <1>2, TakePart
<1>4. \A i \in 1..j : p[i] = <<m, i>>
  BY <1>1, <1>2, <1>3 DEF Part
<1>5. Partial(p)
  BY <1>1, <1>3 DEF Partial
<1> QED BY <1>1, <1>3, <1>4, <1>5

\* A part of a message begins with its first byte and is shorter.
LEMMA PartialFirst ==
  ASSUME NEW p, Partial(p), p # <<>>
  PROVE  \E m \in Message : p[1] = <<m, 1>> /\ Len(p) < Size(m)
<1>0. PICK m \in Message : \E j \in 0..(Size(m) - 1) : p = SubSeq(Bytes(m), 1, j)
  BY DEF Partial
<1>1. PICK j \in 0..(Size(m) - 1) : p = SubSeq(Bytes(m), 1, j)
  BY <1>0
<1>2. PICK q \in Seq(Byte) : /\ q = SubSeq(Bytes(m), 1, j) /\ Len(q) = j
                             /\ \A i \in 1..j : q[i] = <<m, i>>
  BY PartialParts
<1>3. Size(m) \in Nat
  BY SizeFacts
<1>4. Len(q) # 0
  BY <1>1, <1>2, EmptyRow
<1>5. 1 \in 1..j /\ j < Size(m)
  BY <1>2, <1>3, <1>4
<1> QED BY <1>1, <1>2, <1>5

\* The first message of a row
LEMMA SpellsFirst ==
  ASSUME NEW s, NEW ms, NEW p, Spells(s, ms, p), ms # <<>>
  PROVE  \E t \in Seq(Byte) : s = Joined(Bytes(Head(ms)), t) /\ Spells(t, Tail(ms), p)
<1>1. ms \in Seq(Message) /\ Partial(p) /\ s = Joined(Spelled(ms), p)
  BY DEF Spells
<1>2. PICK m \in Message : m = Head(ms)
  BY <1>1
<1>3. PICK ns \in Seq(Message) : ns = Tail(ms)
  <2>1. Tail(ms) \in Seq(Message)
    BY <1>1
  <2> QED BY <2>1
<1>4. PICK o \in Seq(Message) : o = <<m>>
  <2>1. <<m>> \in Seq(Message)
    OBVIOUS
  <2> QED BY <2>1
<1>5. ms = Joined(o, ns)
  BY <1>1, <1>2, <1>3, <1>4 DEF Joined
<1>6. PICK x \in Seq(Byte) : x = Bytes(m)
  BY BytesFacts
<1>7. Spelled(o) = x
  <2>1. o = Append(<<>>, m) /\ <<>> \in Seq(Message)
    BY <1>4
  <2>2. Spelled(Append(<<>>, m)) = Joined(Spelled(<<>>), Bytes(m))
    BY <2>1, SpelledFacts
  <2>3. Joined(<<>>, x) = x
    BY JoinedFacts
  <2> QED BY <1>6, <2>1, <2>2, <2>3, SpelledFacts
<1>8. PICK y \in Seq(Byte) : y = Spelled(ns)
  BY SpelledFacts
<1>9. PICK z \in Seq(Byte) : z = p
  BY <1>1, PartialFacts
<1>10. s = Joined(Joined(x, y), z)
  BY <1>1, <1>5, <1>7, <1>8, <1>9, SpelledConcat
<1>11. PICK t \in Seq(Byte) : t = Joined(y, z)
  BY JoinedFacts
<1>12. Joined(Joined(x, y), z) = Joined(x, Joined(y, z))
  BY JoinedFacts
<1>13. Spells(t, ns, p)
  BY <1>1, <1>8, <1>9, <1>11 DEF Spells
<1> QED BY <1>2, <1>3, <1>6, <1>10, <1>11, <1>12, <1>13

\* What imsg_get finds at the front of a row: the header of its first message
LEMMA SpellsHead ==
  ASSUME NEW s, NEW ms, NEW p, Spells(s, ms, p), s # <<>>
  PROVE  \E m \in Message :
           /\ s[1] = <<m, 1>>
           /\ Size(m) <= Len(s) => ms # <<>>
           /\ ms # <<>> => m = Head(ms) /\ Size(m) <= Len(s)
<1>0. s \in Seq(Byte) /\ ms \in Seq(Message) /\ Partial(p) /\ s = Joined(Spelled(ms), p)
  BY SpellsFacts DEF Spells
<1>1. CASE ms = <<>>
  <2>1. PICK z \in Seq(Byte) : z = p
    BY <1>0, PartialFacts
  <2>2. s = p
    BY <1>0, <1>1, <2>1, SpelledFacts, JoinedFacts
  <2>3. PICK m \in Message : p[1] = <<m, 1>> /\ Len(p) < Size(m)
    BY <1>0, <2>2, PartialFirst
  <2>4. Size(m) \in Nat /\ Len(s) \in Nat
    BY <1>0, SizeFacts, LenProperties
  <2>5. ~ (Size(m) <= Len(s))
    BY <2>2, <2>3, <2>4
  <2> QED BY <1>1, <2>2, <2>3, <2>5
<1>2. CASE ms # <<>>
  <2>1. PICK m \in Message : m = Head(ms)
    BY <1>0, <1>2
  <2>2. PICK t \in Seq(Byte) : s = Joined(Bytes(m), t)
    BY <1>2, <2>1, SpellsFirst
  <2>3. PICK x \in Seq(Byte) : x = Bytes(m) /\ Len(x) = Size(m) /\ \A i \in 1..Size(m) : x[i] = <<m, i>>
    BY BytesFacts
  <2>4. Size(m) \in Nat \ {0}
    BY SizeFacts
  <2>5. x[1] = <<m, 1>>
    BY <2>3, <2>4
  <2>6. s = x \o t /\ Len(x) \in Nat \ {0}
    BY <2>2, <2>3, <2>4 DEF Joined
  <2>7. s[1] = x[1] /\ Len(x) <= Len(s)
    BY <2>6
  <2> QED BY <1>2, <2>1, <2>3, <2>5, <2>7
<1> QED BY <1>1, <1>2

LEMMA TakeTaken ==
  ASSUME NEW S, NEW s \in Seq(S), NEW n \in Nat, NEW k \in Nat, k <= n, n <= Len(s)
  PROVE  SubSeq(SubSeq(s, 1, n), 1, k) = SubSeq(s, 1, k)
<1>1. n \in 0..Len(s) /\ k \in 0..Len(s)
  OBVIOUS
<1>2. PICK a \in Seq(S) : a = SubSeq(s, 1, n) /\ Len(a) = n /\ Part(a, s, 0, n)
  BY <1>1, TakePart
<1>3. PICK b \in Seq(S) : b = SubSeq(s, 1, k) /\ Len(b) = k /\ Part(b, s, 0, k)
  BY <1>1, TakePart
<1>4. k \in 0..Len(a)
  BY <1>2
<1>5. PICK c \in Seq(S) : c = SubSeq(a, 1, k) /\ Len(c) = k /\ Part(c, a, 0, k)
  BY <1>4, TakePart
<1>6. Part(c, s, 0, k)
  <2>1. \A i \in 1..k : i \in 1..n /\ 0 + i = i
    OBVIOUS
  <2> QED BY <1>2, <1>5, <2>1 DEF Part
<1>7. c = b
  BY <1>3, <1>6, SamePart
<1> QED BY <1>2, <1>3, <1>5, <1>7

LEMMA TakeConcat ==
  ASSUME NEW S, NEW x \in Seq(S), NEW y \in Seq(S), NEW n \in Nat
  PROVE  /\ n <= Len(x) => SubSeq(Joined(x, y), 1, n) = SubSeq(x, 1, n)
         /\ \A j \in Nat : n = Len(x) + j /\ j <= Len(y) =>
              SubSeq(Joined(x, y), 1, n) = Joined(x, SubSeq(y, 1, j))
<1>0. PICK c \in Seq(S) : /\ c = x \o y /\ Len(c) = Len(x) + Len(y)
                          /\ Part(x, c, 0, Len(x)) /\ Part(y, c, Len(x), Len(y))
  BY JoinPart
<1>1. ASSUME n <= Len(x) PROVE SubSeq(c, 1, n) = SubSeq(x, 1, n)
  <2>1. n \in 0..Len(x) /\ n \in 0..Len(c)
    BY <1>0, <1>1, LenProperties
  <2>2. PICK a \in Seq(S) : a = SubSeq(x, 1, n) /\ Len(a) = n /\ Part(a, x, 0, n)
    BY <2>1, TakePart
  <2>3. PICK b \in Seq(S) : b = SubSeq(c, 1, n) /\ Len(b) = n /\ Part(b, c, 0, n)
    BY <2>1, TakePart
  <2>4. Part(a, c, 0, n)
    <3>1. \A i \in 1..n : i \in 1..Len(x) /\ 0 + i = i
      BY <2>1, LenProperties
    <3> QED BY <1>0, <2>2, <3>1 DEF Part
  <2>5. a = b
    BY <2>3, <2>4, SamePart
  <2> QED BY <2>2, <2>3, <2>5
<1>2. ASSUME NEW j \in Nat, n = Len(x) + j, j <= Len(y)
      PROVE  SubSeq(c, 1, n) = Joined(x, SubSeq(y, 1, j))
  <2>1. n \in 0..Len(c) /\ j \in 0..Len(y)
    BY <1>0, <1>2, LenProperties
  <2>2. PICK b \in Seq(S) : b = SubSeq(c, 1, n) /\ Len(b) = n /\ Part(b, c, 0, n)
    BY <2>1, TakePart
  <2>3. PICK a \in Seq(S) : a = SubSeq(y, 1, j) /\ Len(a) = j /\ Part(a, y, 0, j)
    BY <2>1, TakePart
  <2>4. PICK l \in Nat : l = Len(x)
    BY LenProperties
  <2>5. l + j = Len(b)
    BY <1>2, <2>2, <2>4
  <2>6. Part(x, b, 0, l)
    <3>1. \A i \in 1..l : i \in 1..n /\ 0 + i = i
      BY <1>2, <2>4
    <3> QED BY <1>0, <2>2, <2>4, <3>1 DEF Part
  <2>7. Part(a, b, l, j)
    <3>1. ASSUME NEW i \in 1..j PROVE a[i] = b[l + i]
      <4>1. i \in 1..Len(y) /\ 0 + i = i /\ l + i \in 1..n /\ 0 + (l + i) = l + i
        BY <1>2, <2>1, <2>4, LenProperties
      <4>2. a[i] = y[i]
        BY <2>3, <4>1 DEF Part
      <4>3. y[i] = c[l + i]
        BY <1>0, <2>4, <4>1 DEF Part
      <4>4. b[l + i] = c[l + i]
        BY <2>2, <4>1 DEF Part
      <4> QED BY <4>2, <4>3, <4>4
    <3> QED BY <2>3, <3>1 DEF Part
  <2>8. b = Joined(x, a)
    BY <2>5, <2>6, <2>7, TwoParts
  <2> QED BY <2>2, <2>3, <2>8
<1> QED BY <1>0, <1>1, <1>2 DEF Joined

LEMMA JoinedLen ==
  ASSUME NEW S, NEW x \in Seq(S), NEW y \in Seq(S)
  PROVE  \E z \in Seq(S) : z = Joined(x, y) /\ Len(z) = Len(x) + Len(y)
<1>1. Joined(x, y) \in Seq(S) /\ Len(Joined(x, y)) = Len(x) + Len(y)
  BY JoinedFacts
<1> QED BY <1>1

LEMMA PartialCut ==
  ASSUME NEW p, Partial(p), NEW n \in Nat, n <= Len(p)
  PROVE  Partial(SubSeq(p, 1, n))
<1>1. CASE p = <<>>
  <2>1. n = 0
    BY <1>1
  <2>2. SubSeq(p, 1, n) = <<>>
    BY <1>1, <2>1
  <2> QED BY <2>2 DEF Partial
<1>2. ASSUME NEW m \in Message, NEW j \in 0..(Size(m) - 1), p = SubSeq(Bytes(m), 1, j)
      PROVE  Partial(SubSeq(p, 1, n))
  <2>1. PICK s \in Seq(Byte) : s = Bytes(m) /\ Len(s) = Size(m)
    BY BytesFacts
  <2>2. Size(m) \in Nat \ {0} /\ j \in Nat /\ j < Size(m) /\ j <= Len(s)
    BY <2>1, SizeFacts
  <2>3. PICK q \in Seq(Byte) : q = SubSeq(Bytes(m), 1, j) /\ Len(q) = j
    BY PartialParts
  <2>4. n <= j /\ n \in 0..(Size(m) - 1)
    BY <1>2, <2>2, <2>3
  <2>5. SubSeq(SubSeq(s, 1, j), 1, n) = SubSeq(s, 1, n)
    BY <2>2, <2>4, TakeTaken
  <2> QED BY <1>2, <2>1, <2>4, <2>5 DEF Partial
<1> QED BY <1>1, <1>2 DEF Partial

\* The first n bytes of a row spell messages it spells
CutAt(u, p, n) ==
  \E v \in Seq(Message), z \in Seq(Message) : \E q :
    /\ Partial(q) /\ u = Joined(v, z)
    /\ SubSeq(Joined(Spelled(u), p), 1, n) = Joined(Spelled(v), q)

LEMMA CutBehind ==
  ASSUME NEW u \in Seq(Message), NEW p, Partial(p), NEW n \in Nat,
         Len(Spelled(u)) <= n, n <= Len(Joined(Spelled(u), p))
  PROVE  CutAt(u, p, n)
<1>1. PICK x \in Seq(Byte) : x = Spelled(u)
  BY SpelledFacts
<1>2. PICK y \in Seq(Byte) : y = p
  BY PartialFacts
<1>3. PICK j \in Nat : n = Len(x) + j /\ j <= Len(y)
  <2>1. Len(Joined(x, y)) = Len(x) + Len(y)
    BY JoinedFacts
  <2>2. Len(x) \in Nat /\ Len(y) \in Nat
    BY LenProperties
  <2>3. n - Len(x) \in Nat /\ n = Len(x) + (n - Len(x)) /\ n - Len(x) <= Len(y)
    BY <1>1, <1>2, <2>1, <2>2
  <2> QED BY <2>3
<1>4. SubSeq(Joined(x, y), 1, n) = Joined(x, SubSeq(y, 1, j))
  BY <1>3, TakeConcat
<1>5. Partial(SubSeq(y, 1, j))
  BY <1>2, <1>3, PartialCut
<1>6. <<>> \in Seq(Message) /\ u = Joined(u, <<>>)
  BY JoinedFacts
<1> QED BY <1>1, <1>2, <1>4, <1>5, <1>6 DEF CutAt

LEMMA CutBefore ==
  ASSUME NEW u \in Seq(Message), NEW m \in Message, NEW p, Partial(p), NEW n \in Nat,
         n < Len(Spelled(Append(u, m))),
         \A c : Partial(c) /\ n <= Len(Joined(Spelled(u), c)) => CutAt(u, c, n)
  PROVE  CutAt(Append(u, m), p, n)
<1>1. PICK x \in Seq(Byte) : x = Spelled(u)
  BY SpelledFacts
<1>2. PICK b \in Seq(Byte) : b = Bytes(m) /\ Len(b) = Size(m)
  BY BytesFacts
<1>3. PICK y \in Seq(Byte) : y = p
  BY PartialFacts
<1>4. PICK s \in Seq(Byte) : s = Joined(x, b) /\ Len(s) = Len(x) + Size(m)
  <2>1. PICK s \in Seq(Byte) : s = Joined(x, b) /\ Len(s) = Len(x) + Len(b)
    BY JoinedLen
  <2> QED BY <1>2, <2>1
<1>5. Spelled(Append(u, m)) = s
  BY <1>1, <1>2, <1>4, SpelledFacts
<1>6. PICK j \in Nat : j + 1 = Size(m) /\ j \in 0..(Size(m) - 1) /\ j <= Len(b)
  <2>1. Size(m) \in Nat \ {0}
    BY SizeFacts
  <2>2. /\ Size(m) - 1 \in Nat /\ (Size(m) - 1) + 1 = Size(m)
        /\ Size(m) - 1 \in 0..(Size(m) - 1) /\ Size(m) - 1 <= Len(b)
    BY <1>2, <2>1
  <2> QED BY <2>2
<1>7. PICK c \in Seq(Byte) : c = SubSeq(b, 1, j) /\ Len(c) = j /\ Partial(c)
  BY <1>2, <1>6, PartialParts
<1>8. PICK l \in Nat : l = Len(x) + j
  BY LenProperties
<1>9. n <= l /\ l <= Len(s)
  BY <1>4, <1>5, <1>6, <1>8, LenProperties
<1>10. SubSeq(s, 1, l) = Joined(x, c)
  BY <1>4, <1>6, <1>7, <1>8, TakeConcat
<1>11. SubSeq(SubSeq(s, 1, l), 1, n) = SubSeq(s, 1, n)
  BY <1>9, TakeTaken
<1>12. SubSeq(Joined(s, y), 1, n) = SubSeq(s, 1, n)
  <2>1. n <= Len(s)
    BY <1>5, LenProperties
  <2> QED BY <2>1, TakeConcat
<1>13. CutAt(u, c, n)
  <2>1. Len(Joined(x, c)) = l
    <3>1. PICK d \in Seq(Byte) : d = Joined(x, c) /\ Len(d) = Len(x) + Len(c)
      BY JoinedLen
    <3> QED BY <1>7, <1>8, <3>1
  <2> QED BY <1>1, <1>7, <1>9, <2>1
<1>14. PICK v \in Seq(Message), z \in Seq(Message) : \E q :
         /\ Partial(q) /\ u = Joined(v, z)
         /\ SubSeq(Joined(Spelled(u), c), 1, n) = Joined(Spelled(v), q)
  BY <1>13 DEF CutAt
<1>15. PICK q : /\ Partial(q) /\ u = Joined(v, z)
                /\ SubSeq(Joined(Spelled(u), c), 1, n) = Joined(Spelled(v), q)
  BY <1>14
<1>16. PICK zm \in Seq(Message) : Append(u, m) = Joined(v, zm)
  <2>1. PICK o \in Seq(Message) : o = <<m>>
    <3>1. <<m>> \in Seq(Message)
      OBVIOUS
    <3> QED BY <3>1
  <2>2. Append(u, m) = Joined(u, o)
    BY <2>1, AppendIsConcat DEF Joined
  <2>3. Joined(Joined(v, z), o) = Joined(v, Joined(z, o)) /\ Joined(z, o) \in Seq(Message)
    BY JoinedFacts
  <2> QED BY <1>15, <2>2, <2>3
<1>17. SubSeq(Joined(Spelled(Append(u, m)), p), 1, n) = Joined(Spelled(v), q)
  BY <1>1, <1>3, <1>5, <1>10, <1>11, <1>12, <1>15
<1> QED BY <1>15, <1>16, <1>17 DEF CutAt

LEMMA CutAnywhere ==
  ASSUME NEW u \in Seq(Message), NEW p, Partial(p), NEW n \in Nat, n <= Len(Joined(Spelled(u), p))
  PROVE  CutAt(u, p, n)
<1> DEFINE T == {l \in Nat : \A t \in Seq(Message) : \A c :
                   Len(t) = l /\ Partial(c) /\ n <= Len(Joined(Spelled(t), c)) => CutAt(t, c, n)}
<1>0. ASSUME NEW t \in Seq(Message) PROVE Len(Spelled(t)) \in Nat
  BY SpelledFacts, LenProperties
<1>1. 0 \in T
  <2>1. ASSUME NEW t \in Seq(Message), NEW c, Len(t) = 0, Partial(c), n <= Len(Joined(Spelled(t), c))
        PROVE  CutAt(t, c, n)
    <3>1. t = <<>>
      BY <2>1, EmptyRow
    <3>2. Len(Spelled(t)) <= n
      BY <3>1, SpelledFacts
    <3> QED BY <2>1, <3>2, CutBehind
  <2> QED BY <2>1
<1>2. ASSUME NEW l \in Nat, l \in T PROVE l + 1 \in T
  <2>1. ASSUME NEW t \in Seq(Message), NEW c, Len(t) = l + 1, Partial(c), n <= Len(Joined(Spelled(t), c))
        PROVE  CutAt(t, c, n)
    <3>1. PICK v \in Seq(Message), m \in Message : t = Append(v, m)
      <4>1. t # <<>>
        BY <2>1
      <4> QED BY <4>1, SequenceEmptyOrAppend
    <3>2. Len(v) = l
      BY <2>1, <3>1, AppendProperties, LenProperties
    <3>3. \A d : Partial(d) /\ n <= Len(Joined(Spelled(v), d)) => CutAt(v, d, n)
      BY <1>2, <3>2
    <3>4. CASE Len(Spelled(t)) <= n
      BY <2>1, <3>4, CutBehind
    <3>5. CASE n < Len(Spelled(t))
      BY <2>1, <3>1, <3>3, <3>5, CutBefore
    <3> QED BY <1>0, <3>4, <3>5
  <2> QED BY <2>1
<1>3. Nat \subseteq T
  <2> HIDE DEF T
  <2> QED BY <1>1, <1>2, SetInduction
<1> QED BY <1>3, LenProperties

LEMMA SpellsCut ==
  ASSUME NEW s, NEW ms, NEW p, Spells(s, ms, p), NEW n \in Nat, n <= Len(s)
  PROVE  \E ns \in Seq(Message), z \in Seq(Message) : \E q :
           Spells(SubSeq(s, 1, n), ns, q) /\ ms = Joined(ns, z)
<1>1. ms \in Seq(Message) /\ Partial(p) /\ s = Joined(Spelled(ms), p)
  BY DEF Spells
<1>2. CutAt(ms, p, n)
  BY <1>1, CutAnywhere
<1> QED BY <1>1, <1>2 DEF CutAt, Spells

LEMMA PrefixJoined ==
  ASSUME NEW S, NEW x \in Seq(S), NEW y \in Seq(S)
  PROVE  IsPrefix(x, Joined(x, y))
<1>1. PICK l \in Nat : l = Len(x) /\ l <= Len(x)
  BY LenProperties
<1>2. SubSeq(Joined(x, y), 1, l) = SubSeq(x, 1, l)
  BY <1>1, TakeConcat
<1>3. Len(x) <= Len(Joined(x, y))
  BY JoinedFacts, LenProperties
<1> QED BY <1>1, <1>2, <1>3 DEF IsPrefix

\* A row of whole messages and perhaps the begin of another; only whole ones
Sound(s) == \E p : Spells(s, Completed(s), p)
Whole(s) == Spells(s, Completed(s), <<>>)

LEMMA SoundType == ASSUME NEW s, Sound(s) PROVE s \in Seq(Byte) /\ Completed(s) \in Seq(Message)
BY SpellsFacts DEF Sound

LEMMA WholeSound == ASSUME NEW s, Whole(s) PROVE Sound(s)
BY DEF Whole, Sound

LEMMA WholeEmpty == Whole(<<>>) /\ Completed(<<>>) = <<>>
<1>1. Partial(<<>>)
  BY DEF Partial
<1>2. Completed(<<>>) = <<>>
  BY <1>1, PartialFacts
<1>3. PICK e \in Seq(Message) : e = <<>>
  BY EmptySeq
<1>4. PICK b \in Seq(Byte) : b = <<>>
  BY EmptySeq
<1>5. b = Joined(b, <<>>)
  BY JoinedFacts
<1>6. Spelled(e) = b
  BY <1>3, <1>4, SpelledFacts
<1> QED BY <1>1, <1>2, <1>3, <1>4, <1>5, <1>6 DEF Whole, Spells

LEMMA WholeMore ==
  ASSUME NEW s, NEW m \in Message, Whole(s)
  PROVE  Whole(Joined(s, Bytes(m))) /\ Completed(Joined(s, Bytes(m))) = Append(Completed(s), m)
<1>1. Spells(Joined(s, Bytes(m)), Append(Completed(s), m), <<>>)
  BY SpellsMore DEF Whole
<1>2. Completed(Joined(s, Bytes(m))) = Append(Completed(s), m)
  BY <1>1, SpellsFacts
<1> QED BY <1>1, <1>2 DEF Whole

LEMMA SoundHead ==
  ASSUME NEW s, Sound(s), s # <<>>
  PROVE  \E m \in Message : /\ s[1] = <<m, 1>>
                            /\ Size(m) <= Len(s) => Completed(s) # <<>>
                            /\ Completed(s) # <<>> => m = Head(Completed(s)) /\ Size(m) <= Len(s)
BY SpellsHead DEF Sound

LEMMA SpellsGet ==
  ASSUME NEW s, NEW ms, NEW p, Spells(s, ms, p), ms # <<>>,
         NEW m \in Message, m = Head(ms), NEW n, n = Size(m)
  PROVE  /\ Spells(Drop(s, n), Tail(ms), p)
         /\ Completed(Drop(s, n)) = Tail(ms)
<1>1. PICK t \in Seq(Byte) : s = Joined(Bytes(m), t) /\ Spells(t, Tail(ms), p)
  BY SpellsFirst
<1>2. PICK x \in Seq(Byte) : x = Bytes(m) /\ Len(x) = n
  BY BytesFacts
<1>3. 0 \in 0..Len(t) /\ Len(x) + 0 = Len(x)
  BY LenProperties
<1>4. Drop(x \o t, Len(x) + 0) = Drop(t, 0)
  BY <1>3, DropPast
<1>5. Drop(t, 0) = t
  BY DropNone
<1>6. Drop(s, n) = t
  BY <1>1, <1>2, <1>3, <1>4, <1>5 DEF Joined
<1> QED BY <1>1, <1>6, SpellsFacts

LEMMA SoundGet ==
  ASSUME NEW s, Sound(s), Completed(s) # <<>>, NEW m \in Message, m = Head(Completed(s)), NEW n, n = Size(m)
  PROVE  /\ Sound(Drop(s, n)) /\ Completed(Drop(s, n)) = Tail(Completed(s))
         /\ Whole(s) => Whole(Drop(s, n))
<1>1. PICK p : Spells(s, Completed(s), p)
  BY DEF Sound
<1>2. Spells(Drop(s, n), Tail(Completed(s)), p) /\ Completed(Drop(s, n)) = Tail(Completed(s))
  BY <1>1, SpellsGet
<1>3. ASSUME Whole(s) PROVE Spells(Drop(s, n), Tail(Completed(s)), <<>>)
  BY <1>3, SpellsGet DEF Whole
<1> QED BY <1>2, <1>3 DEF Sound, Whole

LEMMA SoundCut ==
  ASSUME NEW s, Sound(s), NEW n \in Nat, n <= Len(s)
  PROVE  /\ Sound(SubSeq(s, 1, n))
         /\ \E z \in Seq(Message) : Completed(s) = Joined(Completed(SubSeq(s, 1, n)), z)
<1>1. PICK p : Spells(s, Completed(s), p)
  BY DEF Sound
<1>2. PICK ns \in Seq(Message), z \in Seq(Message) : \E q :
        Spells(SubSeq(s, 1, n), ns, q) /\ Completed(s) = Joined(ns, z)
  BY <1>1, SpellsCut
<1>3. PICK q : Spells(SubSeq(s, 1, n), ns, q) /\ Completed(s) = Joined(ns, z)
  BY <1>2
<1>4. Completed(SubSeq(s, 1, n)) = ns
  BY <1>3, SpellsFacts
<1> QED BY <1>3, <1>4 DEF Sound

-----------------------------------------------------------------------------
(* What is between two ends, and what the actions do to it                  *)

Flow(a, b, q) == Joined(Joined(a, b), Rest(q))

LEMMA FlowType ==
  ASSUME NEW a \in Seq(Byte), NEW b \in Seq(Byte), NEW q \in Seq(Pending)
  PROVE  Flow(a, b, q) \in Seq(Byte)
<1>1. PICK x \in Seq(Byte) : x = Joined(a, b)
  BY JoinedLen
<1>2. PICK y \in Seq(Byte) : y = Rest(q)
  BY RestFacts
<1>3. PICK z \in Seq(Byte) : z = Joined(x, y)
  BY JoinedLen
<1> QED BY <1>1, <1>2, <1>3 DEF Flow

LEMMA FlowSend ==
  ASSUME NEW a \in Seq(Byte), NEW b \in Seq(Byte), NEW q \in Seq(Pending), NEW n \in 0..Len(Rest(q)),
         NEW p \in Seq(Pending), Rest(p) = Drop(Rest(q), n)
  PROVE  Flow(a, Joined(b, SubSeq(Rest(q), 1, n)), p) = Flow(a, b, q)
<1>1. PICK u \in Seq(Byte) : u = Rest(q)
  BY RestFacts
<1>2. PICK k \in 0..Len(u) : k = n
  BY <1>1
<1>3. PICK x \in Seq(Byte) : x = SubSeq(u, 1, k)
  BY TakePart
<1>4. PICK y \in Seq(Byte) : y = Drop(u, k)
  BY DropFacts
<1>5. u = Joined(x, y)
  BY <1>3, <1>4, TakeDrop DEF Joined
<1>6. PICK bx \in Seq(Byte) : bx = Joined(b, x)
  BY JoinedLen
<1>7. PICK ab \in Seq(Byte) : ab = Joined(a, b)
  BY JoinedLen
<1>8. Joined(Joined(a, b), x) = Joined(a, Joined(b, x))
  BY JoinedFacts
<1>9. Joined(Joined(ab, x), y) = Joined(ab, Joined(x, y))
  BY JoinedFacts
<1>10. Flow(a, bx, p) = Joined(Joined(a, bx), y)
  BY <1>1, <1>2, <1>4 DEF Flow
<1>11. Flow(a, b, q) = Joined(ab, u)
  BY <1>1, <1>7 DEF Flow
<1> QED BY <1>1, <1>2, <1>3, <1>5, <1>6, <1>7, <1>8, <1>9, <1>10, <1>11

LEMMA FlowRead ==
  ASSUME NEW a \in Seq(Byte), NEW b \in Seq(Byte), NEW q \in Seq(Pending), NEW n \in 0..Len(b)
  PROVE  Flow(Joined(a, SubSeq(b, 1, n)), Drop(b, n), q) = Flow(a, b, q)
<1>1. PICK x \in Seq(Byte) : x = SubSeq(b, 1, n)
  BY TakePart
<1>2. PICK y \in Seq(Byte) : y = Drop(b, n)
  BY DropFacts
<1>3. b = Joined(x, y)
  BY <1>1, <1>2, TakeDrop DEF Joined
<1>4. Joined(Joined(a, x), y) = Joined(a, Joined(x, y))
  BY JoinedFacts
<1> QED BY <1>1, <1>2, <1>3, <1>4 DEF Flow

LEMMA FlowCompose ==
  ASSUME NEW a \in Seq(Byte), NEW b \in Seq(Byte), NEW q \in Seq(Pending), NEW m \in Message
  PROVE  /\ Append(q, [msg |-> m, rpos |-> 0]) \in Seq(Pending)
         /\ Flow(a, b, Append(q, [msg |-> m, rpos |-> 0])) = Joined(Flow(a, b, q), Bytes(m))
<1>1. Size(m) \in Nat \ {0}
  BY SizeFacts
<1>2. PICK f \in Pending : f = [msg |-> m, rpos |-> 0]
  <2> DEFINE f == [msg |-> m, rpos |-> 0]
  <2>1. f \in [msg : Message, rpos : Nat]
    OBVIOUS
  <2>2. f.rpos = 0 /\ f.msg = m
    OBVIOUS
  <2> HIDE DEF f
  <2>3. f \in Pending
    BY <1>1, <2>1, <2>2 DEF Pending
  <2> QED BY <2>3 DEF f
<1>3. PICK x \in Seq(Byte) : x = Bytes(m) /\ Len(x) = Size(m)
  BY BytesFacts
<1>4. Left(f) = x
  <2>1. f.msg = m /\ f.rpos = 0
    BY <1>2
  <2>2. Left(f) = Drop(x, 0)
    BY <1>3, <2>1, LeftFacts
  <2> QED BY <2>2, DropNone
<1>5. PICK u \in Seq(Byte) : u = Rest(q)
  BY RestFacts
<1>6. Rest(Append(q, f)) = Joined(u, x)
  BY <1>4, <1>5, RestFacts DEF Joined
<1>7. PICK ab \in Seq(Byte) : ab = Joined(a, b)
  BY JoinedLen
<1>8. Joined(Joined(ab, u), x) = Joined(ab, Joined(u, x))
  BY JoinedFacts
<1>9. Append(q, f) \in Seq(Pending)
  OBVIOUS
<1> QED BY <1>2, <1>3, <1>5, <1>6, <1>7, <1>8, <1>9 DEF Flow

LEMMA FlowGet ==
  ASSUME NEW a \in Seq(Byte), NEW b \in Seq(Byte), NEW q \in Seq(Pending), NEW n \in 0..Len(a)
  PROVE  Flow(Drop(a, n), b, q) = Drop(Flow(a, b, q), n)
<1>1. PICK u \in Seq(Byte) : u = Rest(q)
  BY RestFacts
<1>2. PICK d \in Seq(Byte) : d = Drop(a, n)
  BY DropFacts
<1>3. PICK c \in Seq(Byte) : c = Joined(b, u)
  BY JoinedLen
<1>4. Joined(Joined(a, b), u) = Joined(a, Joined(b, u)) /\ Joined(Joined(d, b), u) = Joined(d, Joined(b, u))
  BY JoinedFacts
<1>5. Drop(Joined(a, c), n) = Joined(d, c)
  BY <1>2, DropConcat DEF Joined
<1> QED BY <1>1, <1>2, <1>3, <1>4, <1>5 DEF Flow

LEMMA FlowLeave ==
  ASSUME NEW a \in Seq(Byte), NEW b \in Seq(Byte), NEW q \in Seq(Pending)
  PROVE  \E n \in Nat : n <= Len(Flow(a, b, q)) /\ Flow(a, b, <<>>) = SubSeq(Flow(a, b, q), 1, n)
<1>1. PICK u \in Seq(Byte) : u = Rest(q)
  BY RestFacts
<1>2. PICK ab \in Seq(Byte) : ab = Joined(a, b)
  BY JoinedLen
<1>3. PICK c \in Seq(Byte) : c = Joined(ab, u) /\ Len(c) = Len(ab) + Len(u)
  BY JoinedLen
<1>4. PICK n \in Nat : n = Len(ab) /\ n <= Len(ab) /\ n <= Len(c)
  <2>1. Len(ab) \in Nat /\ Len(u) \in Nat
    BY LenProperties
  <2>2. Len(ab) <= Len(ab) /\ Len(ab) <= Len(c)
    BY <1>3, <2>1
  <2> QED BY <2>1, <2>2
<1>5. SubSeq(Joined(ab, u), 1, n) = SubSeq(ab, 1, n)
  BY <1>4, TakeConcat
<1>6. SubSeq(ab, 1, n) = ab
  BY <1>4
<1>7. Joined(ab, <<>>) = ab
  BY JoinedFacts
<1> QED BY <1>1, <1>2, <1>3, <1>4, <1>5, <1>6, <1>7, RestFacts DEF Flow

-----------------------------------------------------------------------------
(* A row that is sound is framed                                            *)

Row(s) ==
  /\ s # <<>> => s[1][2] = 1
  /\ \A i \in 1..(Len(s) - 1) :
       s[i + 1] = <<s[i][1], s[i][2] + 1>> \/ (IsLast(s[i]) /\ s[i + 1][2] = 1)

\* It ends with the last byte of a message
Ended(s) == s # <<>> => IsLast(s[Len(s)])

LEMMA RowCounted ==
  ASSUME NEW s \in Seq(Byte), NEW m, \A i \in 1..Len(s) : s[i] = <<m, i>>
  PROVE  Row(s)
<1>1. Len(s) \in Nat /\ (s # <<>> => Len(s) # 0)
  BY LenProperties, EmptyRow
<1>2. s # <<>> => s[1][2] = 1
  BY <1>1
<1>3. ASSUME NEW i \in 1..(Len(s) - 1) PROVE s[i + 1] = <<s[i][1], s[i][2] + 1>>
  <2>1. i \in 1..Len(s) /\ i + 1 \in 1..Len(s)
    BY <1>1
  <2>2. s[i] = <<m, i>> /\ s[i + 1] = <<m, i + 1>>
    BY <2>1
  <2> QED BY <2>2
<1> QED BY <1>2, <1>3 DEF Row

LEMMA RowJoin ==
  ASSUME NEW s \in Seq(Byte), NEW t \in Seq(Byte), Row(s), Row(t), Ended(s)
  PROVE  /\ Row(Joined(s, t))
         /\ t # <<>> /\ Ended(t) => Ended(Joined(s, t))
<1>1. PICK c \in Seq(Byte) : /\ c = s \o t /\ Len(c) = Len(s) + Len(t)
                             /\ Part(s, c, 0, Len(s)) /\ Part(t, c, Len(s), Len(t))
  BY JoinPart
<1>2. PICK k \in Nat : k = Len(s)
  BY LenProperties
<1>3. PICK l \in Nat : l = Len(t)
  BY LenProperties
<1>4. Len(c) = k + l
  BY <1>1, <1>2, <1>3
<1>5. \A i \in 1..k : c[i] = s[i]
  <2>1. \A i \in 1..k : 0 + i = i
    OBVIOUS
  <2> QED BY <1>1, <1>2, <2>1 DEF Part
<1>6. \A i \in 1..l : c[k + i] = t[i]
  BY <1>1, <1>2, <1>3 DEF Part
<1>7. /\ k # 0 => s # <<>> /\ IsLast(s[k])
      /\ l # 0 => t # <<>> /\ t[1][2] = 1
      /\ \A i \in 1..(k - 1) : s[i + 1] = <<s[i][1], s[i][2] + 1>> \/ (IsLast(s[i]) /\ s[i + 1][2] = 1)
      /\ \A i \in 1..(l - 1) : t[i + 1] = <<t[i][1], t[i][2] + 1>> \/ (IsLast(t[i]) /\ t[i + 1][2] = 1)
      /\ k # 0 => s[1][2] = 1
  <2>1. (k # 0 => s # <<>>) /\ (l # 0 => t # <<>>)
    BY <1>2, <1>3
  <2> QED BY <1>2, <1>3, <2>1 DEF Row, Ended
<1>8. ASSUME c # <<>> PROVE c[1][2] = 1
  <2>1. k + l # 0
    BY <1>4, <1>8, EmptyRow
  <2>2. CASE k # 0
    <3>1. 1 \in 1..k
      BY <2>2
    <3> QED BY <1>5, <1>7, <2>2, <3>1
  <2>3. CASE k = 0
    <3>1. l # 0 /\ 1 \in 1..l /\ k + 1 = 1
      BY <2>1, <2>3
    <3> QED BY <1>6, <1>7, <3>1
  <2> QED BY <2>2, <2>3
<1>9. ASSUME NEW i \in 1..(Len(c) - 1)
      PROVE  c[i + 1] = <<c[i][1], c[i][2] + 1>> \/ (IsLast(c[i]) /\ c[i + 1][2] = 1)
  <2>0. i \in 1..(k + l - 1)
    BY <1>4
  <2>1. CASE i < k
    <3>1. i \in 1..(k - 1) /\ i \in 1..k /\ i + 1 \in 1..k
      BY <2>0, <2>1
    <3> QED BY <1>5, <1>7, <3>1
  <2>2. CASE i = k
    <3>1. k # 0 /\ l # 0 /\ k \in 1..k /\ 1 \in 1..l
      BY <2>0, <2>2
    <3> QED BY <1>5, <1>6, <1>7, <2>2, <3>1
  <2>3. CASE i > k
    <3> DEFINE j == i - k
    <3>1. j \in 1..(l - 1) /\ j \in 1..l /\ j + 1 \in 1..l /\ k + j = i /\ k + (j + 1) = i + 1
      BY <2>0, <2>3
    <3> HIDE DEF j
    <3>2. c[k + j] = t[j] /\ c[k + (j + 1)] = t[j + 1]
      BY <1>6, <3>1
    <3> QED BY <1>7, <3>1, <3>2
  <2> QED BY <2>0, <2>1, <2>2, <2>3
<1>10. Row(c)
  BY <1>8, <1>9 DEF Row
<1>11. ASSUME t # <<>>, Ended(t) PROVE Ended(c)
  <2>1. l # 0
    BY <1>3, <1>11, EmptyRow
  <2>2. l \in 1..l /\ IsLast(t[l])
    BY <1>3, <1>11, <2>1 DEF Ended
  <2>3. c[k + l] = t[l]
    BY <1>6, <2>2
  <2> QED BY <1>4, <2>2, <2>3 DEF Ended
<1> QED BY <1>1, <1>10, <1>11 DEF Joined

LEMMA RowEmpty == Row(<<>>) /\ Ended(<<>>)
<1>1. 1..(Len(<<>>) - 1) = {}
  OBVIOUS
<1> QED BY <1>1 DEF Row, Ended

LEMMA RowSpelled ==
  ASSUME NEW ms \in Seq(Message)
  PROVE  Row(Spelled(ms)) /\ Ended(Spelled(ms))
<1> DEFINE T == {n \in Nat : \A u \in Seq(Message) : Len(u) = n => Row(Spelled(u)) /\ Ended(Spelled(u))}
<1>1. 0 \in T
  <2>1. \A u \in Seq(Message) : Len(u) = 0 => u = <<>>
    BY EmptyRow
  <2> QED BY <2>1, SpelledFacts, RowEmpty
<1>2. ASSUME NEW n \in Nat, n \in T PROVE n + 1 \in T
  <2>1. ASSUME NEW u \in Seq(Message), Len(u) = n + 1 PROVE Row(Spelled(u)) /\ Ended(Spelled(u))
    <3>1. PICK p \in Seq(Message), m \in Message : u = Append(p, m)
      <4>1. u # <<>>
        BY <2>1
      <4> QED BY <4>1, SequenceEmptyOrAppend
    <3>2. Len(p) = n
      BY <2>1, <3>1, AppendProperties, LenProperties
    <3>3. PICK s \in Seq(Byte) : s = Spelled(p)
      BY SpelledFacts
    <3>4. PICK t \in Seq(Byte) : t = Bytes(m) /\ Len(t) = Size(m) /\ \A i \in 1..Size(m) : t[i] = <<m, i>>
      BY BytesFacts
    <3>5. Row(s) /\ Ended(s)
      BY <1>2, <3>2, <3>3
    <3>6. Row(t)
      BY <3>4, RowCounted
    <3>7. t # <<>> /\ Ended(t)
      <4>1. Size(m) \in Nat \ {0}
        BY SizeFacts
      <4>2. t # <<>>
        BY <3>4, <4>1
      <4>3. t[Len(t)] = <<m, Size(m)>>
        BY <3>4, <4>1
      <4>4. IsLast(<<m, Size(m)>>)
        BY DEF IsLast
      <4> QED BY <4>2, <4>3, <4>4 DEF Ended
    <3>8. Row(Joined(s, t)) /\ Ended(Joined(s, t))
      BY <3>5, <3>6, <3>7, RowJoin
    <3>9. Spelled(u) = Joined(s, t)
      BY <3>1, <3>3, <3>4, SpelledFacts
    <3> QED BY <3>8, <3>9
  <2> QED BY <2>1
<1>3. Nat \subseteq T
  <2> HIDE DEF T
  <2> QED BY <1>1, <1>2, SetInduction
<1> QED BY <1>3, LenProperties

LEMMA SoundRow == ASSUME NEW s, Sound(s) PROVE Row(s)
<1>1. PICK p : Spells(s, Completed(s), p)
  BY DEF Sound
<1>2. Completed(s) \in Seq(Message) /\ Partial(p) /\ s = Joined(Spelled(Completed(s)), p)
  BY <1>1 DEF Spells
<1>3. PICK x \in Seq(Byte) : x = Spelled(Completed(s)) /\ Row(x) /\ Ended(x)
  BY <1>2, SpelledFacts, RowSpelled
<1>4. PICK y \in Seq(Byte) : y = p
  BY <1>2, PartialFacts
<1>5. Row(y)
  <2>1. CASE p = <<>>
    BY <1>4, <2>1, RowEmpty
  <2>2. ASSUME NEW m \in Message, NEW j \in 0..(Size(m) - 1), p = SubSeq(Bytes(m), 1, j)
        PROVE  Row(y)
    <3>1. PICK q \in Seq(Byte) : q = SubSeq(Bytes(m), 1, j) /\ Len(q) = j /\ \A i \in 1..j : q[i] = <<m, i>>
      BY PartialParts
    <3>2. Row(q)
      BY <3>1, RowCounted
    <3> QED BY <1>4, <2>2, <3>1, <3>2
  <2> QED BY <1>2, <2>1, <2>2 DEF Partial
<1>6. Row(Joined(x, y))
  BY <1>3, <1>5, RowJoin
<1> QED BY <1>2, <1>3, <1>4, <1>6

-----------------------------------------------------------------------------
(* The inductive invariant                                                  *)

\* ImsgTypeOK, with the set of the ibufs named
Typed ==
  /\ pc \in [Ends -> {"idle", "flush", "receive", "poll", "dispatch", "gone"}]
  /\ w \in [Ends -> Seq(Pending)]
  /\ pipe \in [Ends -> Seq(Byte)] /\ \A e \in Ends : Len(pipe[e]) <= Room
  /\ r \in [Ends -> Seq(Byte)] /\ \A e \in Ends : Len(r[e]) <= BufSize
  /\ call \in [type : Requests, serial : 0..MaxCalls]
  /\ failed \in BOOLEAN /\ freed \in BOOLEAN

Places == {"idle", "flush", "receive", "poll", "dispatch", "gone"}

\* What an end can still take of its peer's is whole messages, up to the point
\* where the peer was gone.
SoundAt(e) == pc[Peer(e)] # "gone" => Sound(Stream(e)) /\ (pc[e] # "gone" => Whole(Stream(e)))
StreamsSound == \A e \in Ends : SoundAt(e)

\* An end that is gone, or that waits for an answer, has nothing left to send.
NothingLeft == \A e \in Ends : pc[e] \in {"gone", "receive"} => w[e] = <<>>

\* dispatch does not go back to the event loop before it took every message.
AllDispatched == pc["agent"] = "poll" => ~HasMessage("agent")

\* The request that gets an answer is the last in its direction, and then there
\* is no answer yet; an answer is the one to the last request.
Awaited == pc["client"] \in {"flush", "receive"}
Turns ==
  ~failed /\ pc["client"] # "gone" =>
    /\ \A i \in 1..Len(Queue("client")) : Queue("client")[i].type = "SEARCH" =>
         /\ i = Len(Queue("client")) /\ Queue("client")[i] = call
         /\ Queue("agent") = <<>> /\ Awaited
    /\ Queue("agent") # <<>> =>
         /\ Len(Queue("agent")) = 1 /\ Queue("agent")[1].serial = call.serial
         /\ call.type = "SEARCH" /\ Awaited

ImsgInv == Typed /\ StreamsSound /\ NothingLeft /\ AllDispatched /\ Turns

LEMMA RowSubset == ASSUME NEW S, NEW T, S \subseteq T, NEW q \in Seq(S) PROVE q \in Seq(T)
OBVIOUS

LEMMA TypedType == Typed => ImsgTypeOK
<1>1. ASSUME NEW q \in Seq(Pending)
      PROVE  q \in Seq([msg : Message, rpos : Nat]) /\ \A i \in DOMAIN q : q[i].rpos < Size(q[i].msg)
  <2>1. Len(q) \in Nat /\ DOMAIN q = 1..Len(q) /\ \A i \in 1..Len(q) : q[i] \in Pending
    BY LenProperties
  <2>2. Pending \subseteq [msg : Message, rpos : Nat]
    BY DEF Pending
  <2>3. q \in Seq([msg : Message, rpos : Nat])
    BY <2>2, RowSubset
  <2> QED BY <2>1, <2>3 DEF Pending
<1>2. ASSUME Typed PROVE w \in [Ends -> Seq([msg : Message, rpos : Nat])]
  BY <1>1, <1>2 DEF Typed
<1>3. ASSUME Typed PROVE \A e \in Ends : \A i \in DOMAIN w[e] : w[e][i].rpos < Size(w[e][i].msg)
  BY <1>1, <1>3 DEF Typed
<1> QED BY <1>2, <1>3 DEF Typed, ImsgTypeOK

LEMMA StreamFlow ==
  ASSUME NEW e \in Ends
  PROVE  /\ Stream(e) = Flow(r[Peer(e)], pipe[e], w[e])
         /\ Stream(e)' = Flow(r'[Peer(e)], pipe'[e], w'[e])
BY DEF Stream, Flow, Unsent, Rest, Lefts, Joined

LEMMA TypedAt ==
  ASSUME Typed, NEW e \in Ends
  PROVE  /\ w[e] \in Seq(Pending) /\ pipe[e] \in Seq(Byte) /\ r[e] \in Seq(Byte)
         /\ r[Peer(e)] \in Seq(Byte) /\ Unsent(e) = Rest(w[e]) /\ Stream(e) \in Seq(Byte)
<1>1. w[e] \in Seq(Pending) /\ pipe[e] \in Seq(Byte) /\ r[e] \in Seq(Byte)
  BY DEF Typed
<1>2. Peer(e) \in Ends
  BY PeerFacts
<1>3. r[Peer(e)] \in Seq(Byte)
  BY <1>2 DEF Typed
<1>4. Flow(r[Peer(e)], pipe[e], w[e]) \in Seq(Byte)
  BY <1>1, <1>3, FlowType
<1> QED BY <1>1, <1>3, <1>4, StreamFlow DEF Unsent, Rest, Lefts

\* What is read is the first part of what is on the way.
LEMMA ReadFirst ==
  ASSUME Typed, NEW e \in Ends
  PROVE  \E c \in Seq(Byte) : /\ Stream(e) = Joined(r[Peer(e)], c)
                              /\ c = Joined(pipe[e], Unsent(e))
<1>1. PICK a \in Seq(Byte) : a = r[Peer(e)]
  BY TypedAt
<1>2. PICK b \in Seq(Byte) : b = pipe[e]
  BY TypedAt
<1>3. PICK u \in Seq(Byte) : u = Unsent(e)
  BY TypedAt, RestFacts
<1>4. Joined(Joined(a, b), u) = Joined(a, Joined(b, u)) /\ Joined(b, u) \in Seq(Byte)
  BY JoinedFacts
<1> QED BY <1>1, <1>2, <1>3, <1>4 DEF Stream, Joined

LEMMA FirstByte ==
  ASSUME NEW S, NEW a \in Seq(S), NEW c \in Seq(S), a # <<>>
  PROVE  /\ Joined(a, c) # <<>> /\ Joined(a, c)[1] = a[1] /\ Head(a) = a[1]
         /\ Len(a) <= Len(Joined(a, c))
<1>1. Len(a) \in Nat \ {0} /\ Len(c) \in Nat
  BY LenProperties, EmptyRow
<1>2. Len(a \o c) = Len(a) + Len(c)
  OBVIOUS
<1>3. (a \o c)[1] = a[1]
  BY <1>1
<1>4. a \o c # <<>>
  BY <1>1, <1>2
<1> QED BY <1>1, <1>2, <1>3, <1>4 DEF Joined

\* The header imsg_get looks at is that of the first message on the way.
LEMMA HeaderRead ==
  ASSUME Typed, NEW e \in Ends, Sound(Stream(Peer(e))), r[e] # <<>>
  PROVE  \E m \in Message :
           /\ Head(r[e]) = <<m, 1>> /\ Len(r[e]) <= Len(Stream(Peer(e)))
           /\ Size(m) <= Len(Stream(Peer(e))) => Completed(Stream(Peer(e))) # <<>>
           /\ Completed(Stream(Peer(e))) # <<>> =>
                m = Head(Completed(Stream(Peer(e)))) /\ Size(m) <= Len(Stream(Peer(e)))
<1>0. Peer(e) \in Ends /\ Peer(Peer(e)) = e
  BY PeerFacts
<1>1. PICK a \in Seq(Byte) : a = r[e]
  BY TypedAt
<1>2. PICK c \in Seq(Byte) : Stream(Peer(e)) = Joined(a, c)
  BY <1>0, <1>1, ReadFirst
<1>3. PICK s : s = Stream(Peer(e))
  OBVIOUS
<1>4. s # <<>> /\ s[1] = a[1] /\ Head(a) = a[1] /\ Len(a) <= Len(s)
  BY <1>1, <1>2, <1>3, FirstByte
<1>5. PICK m \in Message : /\ s[1] = <<m, 1>>
                           /\ Size(m) <= Len(s) => Completed(s) # <<>>
                           /\ Completed(s) # <<>> => m = Head(Completed(s)) /\ Size(m) <= Len(s)
  BY <1>3, <1>4, SoundHead
<1> QED BY <1>1, <1>3, <1>4, <1>5

LEMMA MessageRead ==
  ASSUME Typed, NEW e \in Ends, Sound(Stream(Peer(e))), HasMessage(e)
  PROVE  \E m \in Message :
           /\ m = Head(r[e])[1] /\ Size(m) \in 0..Len(r[e])
           /\ Completed(Stream(Peer(e))) # <<>> /\ m = Head(Completed(Stream(Peer(e))))
<1>1. Len(r[e]) >= HeaderSize /\ Size(Head(r[e])[1]) <= Len(r[e])
  BY DEF HasMessage
<1>2. r[e] # <<>> /\ Len(r[e]) \in Nat
  <2>1. HeaderSize \in Nat \ {0} /\ r[e] \in Seq(Byte)
    BY TypedAt, SizeAssumption
  <2> QED BY <1>1, <2>1
<1>3. PICK m \in Message :
        /\ Head(r[e]) = <<m, 1>> /\ Len(r[e]) <= Len(Stream(Peer(e)))
        /\ Size(m) <= Len(Stream(Peer(e))) => Completed(Stream(Peer(e))) # <<>>
        /\ Completed(Stream(Peer(e))) # <<>> => m = Head(Completed(Stream(Peer(e))))
  BY <1>2, HeaderRead
<1>4. m = Head(r[e])[1]
  BY <1>3
<1>5. Size(m) \in Nat /\ Len(Stream(Peer(e))) \in Nat
  BY SizeFacts, TypedAt, PeerFacts, LenProperties
<1>6. Size(m) <= Len(Stream(Peer(e)))
  BY <1>1, <1>2, <1>3, <1>4, <1>5
<1> QED BY <1>1, <1>2, <1>3, <1>4, <1>5, <1>6

\* A message that is there is found.
LEMMA MessageFound ==
  ASSUME Typed, NEW e \in Ends, Sound(Stream(Peer(e))), ~HasMessage(e)
  PROVE  /\ Len(r[e]) < BufSize
         /\ Stream(Peer(e)) = r[e] => Completed(Stream(Peer(e))) = <<>>
<1>0. r[e] \in Seq(Byte) /\ Len(r[e]) \in Nat
  BY TypedAt, LenProperties
<1>1. ASSUME NEW m \in Message, Head(r[e]) = <<m, 1>>, Size(m) <= Len(r[e]) PROVE FALSE
  <2>1. Head(r[e])[2] = 1 /\ Head(r[e])[1] = m
    BY <1>1
  <2>2. HeaderSize <= Len(r[e])
    BY <1>0, <1>1, SizeFacts
  <2> QED BY <1>0, <1>1, <2>1, <2>2, SizeFacts DEF HasMessage
<1>2. CASE r[e] = <<>>
  <2>1. Len(r[e]) = 0
    BY <1>2
  <2>2. BufSize > 0
    \* some message fits
    BY BufferAssumption, FitAssumption, SizeAssumption DEF Requests, Answers
  <2> QED BY <1>2, <2>1, <2>2, WholeEmpty
<1>3. CASE r[e] # <<>>
  <2>1. PICK m \in Message :
          /\ Head(r[e]) = <<m, 1>>
          /\ Completed(Stream(Peer(e))) # <<>> => Size(m) <= Len(Stream(Peer(e)))
    BY <1>3, HeaderRead
  <2>2. Len(r[e]) < Size(m)
    BY <1>0, <1>1, <2>1, SizeFacts
  <2> QED BY <1>0, <2>1, <2>2, SizeFacts
<1> QED BY <1>2, <1>3

-----------------------------------------------------------------------------
(* What a step does to the row in one direction                             *)

SameUp == \A e \in Ends : pc'[e] = "gone" <=> pc[e] = "gone"

LEMMA DirSame ==
  ASSUME NEW e \in Ends, SoundAt(e), SameUp, Stream(e)' = Stream(e)
  PROVE  SoundAt(e)' /\ Queue(e)' = Queue(e)
<1>1. Peer(e) \in Ends
  BY PeerFacts
<1> QED BY <1>1 DEF SoundAt, SameUp, Queue

LEMMA DirMore ==
  ASSUME NEW e \in Ends, SoundAt(e), SameUp, pc[e] # "gone",
         NEW m \in Message, Stream(e)' = Joined(Stream(e), Bytes(m))
  PROVE  /\ SoundAt(e)'
         /\ pc[Peer(e)] # "gone" => Queue(e)' = Append(Queue(e), m)
         /\ pc[Peer(e)] = "gone" => Queue(e)' = Queue(e)
<1>1. Peer(e) \in Ends
  BY PeerFacts
<1>2. CASE pc[Peer(e)] # "gone"
  <2>1. Whole(Stream(e))
    BY <1>2 DEF SoundAt
  <2>2. Whole(Stream(e)') /\ Completed(Stream(e)') = Append(Completed(Stream(e)), m)
    BY <2>1, WholeMore
  <2>3. Sound(Stream(e)')
    BY <2>2, WholeSound
  <2> QED BY <1>1, <1>2, <2>2, <2>3 DEF SoundAt, SameUp, Queue
<1>3. CASE pc[Peer(e)] = "gone"
  BY <1>1, <1>3 DEF SoundAt, SameUp, Queue
<1> QED BY <1>2, <1>3

LEMMA DirGot ==
  ASSUME Typed, NEW e \in Ends, SoundAt(e), SameUp, pc[Peer(e)] # "gone", HasMessage(Peer(e)),
         NEW m, m = Head(r[Peer(e)])[1], Stream(e)' = Drop(Stream(e), Size(m))
  PROVE  /\ SoundAt(e)' /\ m \in Message
         /\ Queue(e) # <<>> /\ m = Head(Queue(e)) /\ Queue(e)' = Tail(Queue(e))
<1>1. Peer(e) \in Ends /\ Peer(Peer(e)) = e
  BY PeerFacts
<1>2. Sound(Stream(e)) /\ (pc[e] # "gone" => Whole(Stream(e)))
  BY DEF SoundAt
<1>3. m \in Message /\ Completed(Stream(e)) # <<>> /\ m = Head(Completed(Stream(e)))
  BY <1>1, <1>2, MessageRead
<1>4. /\ Sound(Stream(e)') /\ Completed(Stream(e)') = Tail(Completed(Stream(e)))
      /\ Whole(Stream(e)) => Whole(Stream(e)')
  <2>1. PICK n : n = Size(m)
    OBVIOUS
  <2>2. PICK s : s = Stream(e)
    OBVIOUS
  <2>3. /\ Sound(Drop(s, n)) /\ Completed(Drop(s, n)) = Tail(Completed(s))
        /\ Whole(s) => Whole(Drop(s, n))
    BY <1>2, <1>3, <2>1, <2>2, SoundGet
  <2> QED BY <2>1, <2>2, <2>3
<1> QED BY <1>1, <1>2, <1>3, <1>4 DEF SoundAt, SameUp, Queue

\* The end that leaves takes with it what it had not sent.
LEMMA DirCut ==
  ASSUME NEW e \in Ends, SoundAt(e), pc'[Peer(e)] = pc[Peer(e)], pc'[e] = "gone",
         \E n \in Nat : n <= Len(Stream(e)) /\ Stream(e)' = SubSeq(Stream(e), 1, n)
  PROVE  /\ SoundAt(e)'
         /\ Queue(e)' \in Seq(Message)
         /\ \E z \in Seq(Message) : Queue(e) = Joined(Queue(e)', z)
<1>1. CASE pc[Peer(e)] # "gone"
  <2>1. PICK s : s = Stream(e)
    OBVIOUS
  <2>2. PICK t : t = Stream(e)'
    OBVIOUS
  <2>3. PICK n \in Nat : n <= Len(s) /\ t = SubSeq(s, 1, n)
    BY <2>1, <2>2
  <2>4. Sound(s)
    BY <1>1, <2>1 DEF SoundAt
  <2>5. Sound(t) /\ \E z \in Seq(Message) : Completed(s) = Joined(Completed(t), z)
    BY <2>3, <2>4, SoundCut
  <2>6. Completed(t) \in Seq(Message)
    BY <2>5, SoundType
  <2> QED BY <1>1, <2>1, <2>2, <2>5, <2>6 DEF SoundAt, Queue
<1>2. CASE pc[Peer(e)] = "gone"
  <2>1. Queue(e) = <<>> /\ Queue(e)' = <<>> /\ SoundAt(e)'
    BY <1>2 DEF SoundAt, Queue
  <2>2. PICK z \in Seq(Message) : z = <<>>
    BY EmptySeq
  <2>3. z = Joined(z, z)
    BY <2>2, JoinedFacts
  <2> QED BY <2>1, <2>2, <2>3
<1> QED BY <1>1, <1>2

-----------------------------------------------------------------------------
(* What the actions do to the rows                                          *)

LEMMA RowsExcept ==
  ASSUME NEW S, NEW l, NEW f \in [Ends -> Seq(S)], \A x \in Ends : Len(f[x]) <= l,
         NEW e \in Ends, NEW v \in Seq(S), Len(v) <= l, NEW g, g = [f EXCEPT ![e] = v]
  PROVE  g \in [Ends -> Seq(S)] /\ \A x \in Ends : Len(g[x]) <= l
OBVIOUS

LEMMA SendPieceFlow ==
  ASSUME Typed, NEW e \in Ends, SendPiece(e)
  PROVE  /\ Typed' /\ SameUp /\ \A f \in Ends : Stream(f)' = Stream(f)
         /\ w'[Peer(e)] = w[Peer(e)]
<1>0. Peer(e) \in Ends /\ Peer(e) # e /\ \A f \in Ends : f = e \/ f = Peer(e)
  BY PeerFacts DEF Ends
<1>1. PICK q \in Seq(Pending) : q = w[e]
  BY TypedAt
<1>2. PICK u \in Seq(Byte) : u = Unsent(e) /\ u = Rest(q)
  BY <1>1, TypedAt, RestFacts
<1>3. PICK b \in Seq(Byte) : b = pipe[e]
  BY TypedAt
<1>4. PICK n \in 1..Room : /\ n <= Len(u) /\ Len(b) + n <= Room
                           /\ pipe' = [pipe EXCEPT ![e] = @ \o SubSeq(u, 1, n)]
                           /\ w' = [w EXCEPT ![e] = Drained(e, n)]
  BY <1>2, <1>3 DEF SendPiece
<1>5. UNCHANGED <<pc, r, call, failed, freed>>
  BY DEF SendPiece
<1>6. n \in Nat /\ n \in 0..Len(u)
  BY <1>4, SizeAssumption, LenProperties
<1>7. PICK p \in Seq(Pending) : p = Drained(e, n) /\ Rest(p) = Drop(Rest(q), n)
  BY <1>1, <1>2, <1>6, DrainedFacts
<1>8. PICK t \in Seq(Byte) : t = SubSeq(u, 1, n) /\ Len(t) = n
  BY <1>6, TakePart
<1>9. PICK bt \in Seq(Byte) : bt = Joined(b, t) /\ Len(bt) = Len(b) + Len(t)
  BY JoinedLen
<1>10. pipe' = [pipe EXCEPT ![e] = bt] /\ w' = [w EXCEPT ![e] = p]
  BY <1>3, <1>4, <1>7, <1>8, <1>9 DEF Joined
<1>11. Typed'
  <2>1. pipe' \in [Ends -> Seq(Byte)] /\ \A f \in Ends : Len(pipe'[f]) <= Room
    <3>1. Len(bt) <= Room
      BY <1>4, <1>8, <1>9
    <3>2. pipe \in [Ends -> Seq(Byte)] /\ \A f \in Ends : Len(pipe[f]) <= Room
      BY DEF Typed
    <3> QED BY <1>10, <3>1, <3>2, RowsExcept
  <2>2. w' \in [Ends -> Seq(Pending)]
    BY <1>10 DEF Typed
  <2> QED BY <1>5, <2>1, <2>2 DEF Typed
<1>12. /\ pipe'[e] = bt /\ w'[e] = p /\ pipe'[Peer(e)] = pipe[Peer(e)] /\ w'[Peer(e)] = w[Peer(e)]
       /\ r' = r
  BY <1>0, <1>5, <1>10 DEF Typed
<1>13. Stream(e)' = Stream(e)
  <2>1. PICK a \in Seq(Byte) : a = r[Peer(e)]
    BY TypedAt
  <2>2. Flow(a, Joined(b, SubSeq(Rest(q), 1, n)), p) = Flow(a, b, q)
    BY <1>2, <1>6, <1>7, FlowSend
  <2>3. Stream(e) = Flow(a, b, q)
    BY <1>1, <1>3, <2>1, StreamFlow
  <2>4. Stream(e)' = Flow(a, bt, p)
    BY <1>12, <2>1, StreamFlow
  <2> QED BY <1>2, <1>8, <1>9, <2>2, <2>3, <2>4
<1>14. Stream(Peer(e))' = Stream(Peer(e))
  BY <1>0, <1>12, StreamFlow
<1>15. SameUp
  BY <1>5 DEF SameUp
<1> QED BY <1>0, <1>11, <1>12, <1>13, <1>14, <1>15

LEMMA ReadFlow ==
  ASSUME Typed, NEW e \in Ends, Read(e)
  PROVE  /\ pc' \in [Ends -> {"idle", "flush", "receive", "poll", "dispatch", "gone"}] => Typed'
         /\ \A f \in Ends : Stream(f)' = Stream(f)
         /\ w' = w
<1>0. Peer(e) \in Ends /\ Peer(e) # e /\ Peer(Peer(e)) = e /\ \A f \in Ends : f = e \/ f = Peer(e)
  BY PeerFacts DEF Ends
<1>1. PICK b \in Seq(Byte) : b = pipe[Peer(e)]
  BY <1>0, TypedAt
<1>2. PICK a \in Seq(Byte) : a = r[e]
  BY TypedAt
<1>3. PICK n \in 1..Room : /\ n <= Len(b) /\ n <= BufSize - Len(a)
                           /\ pipe' = [pipe EXCEPT ![Peer(e)] = SubSeq(@, n + 1, Len(@))]
                           /\ r' = [r EXCEPT ![e] = @ \o SubSeq(b, 1, n)]
                           /\ UNCHANGED <<w, call, failed, freed>>
  BY <1>1, <1>2 DEF Read
<1>4. n \in Nat /\ n \in 0..Len(b)
  BY <1>3, SizeAssumption, LenProperties
<1>5. PICK t \in Seq(Byte) : t = SubSeq(b, 1, n) /\ Len(t) = n
  BY <1>4, TakePart
<1>6. PICK d \in Seq(Byte) : d = Drop(b, n) /\ Len(d) <= Len(b)
  <2>1. Drop(b, n) \in Seq(Byte) /\ Len(Drop(b, n)) = Len(b) - n
    BY <1>4, DropFacts
  <2>2. Len(Drop(b, n)) <= Len(b)
    BY <1>4, <2>1, LenProperties
  <2> QED BY <2>1, <2>2
<1>7. PICK at \in Seq(Byte) : at = Joined(a, t) /\ Len(at) = Len(a) + Len(t)
  BY JoinedLen
<1>8. pipe' = [pipe EXCEPT ![Peer(e)] = d] /\ r' = [r EXCEPT ![e] = at]
  BY <1>1, <1>2, <1>3, <1>5, <1>6, <1>7 DEF Joined, Drop
<1>9. Len(d) <= Room /\ Len(at) <= BufSize
  <2>1. Len(b) <= Room /\ Len(a) \in Nat /\ Len(b) \in Nat /\ Len(d) \in Nat
    BY <1>0, <1>1, LenProperties DEF Typed
  <2> QED BY <1>3, <1>5, <1>6, <1>7, <2>1, BufferAssumption, SizeAssumption
<1>10. ASSUME pc' \in [Ends -> {"idle", "flush", "receive", "poll", "dispatch", "gone"}] PROVE Typed'
  <2>1. pipe' \in [Ends -> Seq(Byte)] /\ \A f \in Ends : Len(pipe'[f]) <= Room
    <3>1. pipe \in [Ends -> Seq(Byte)] /\ \A f \in Ends : Len(pipe[f]) <= Room
      BY DEF Typed
    <3> QED BY <1>0, <1>8, <1>9, <3>1, RowsExcept
  <2>2. r' \in [Ends -> Seq(Byte)] /\ \A f \in Ends : Len(r'[f]) <= BufSize
    <3>1. r \in [Ends -> Seq(Byte)] /\ \A f \in Ends : Len(r[f]) <= BufSize
      BY DEF Typed
    <3> QED BY <1>8, <1>9, <3>1, RowsExcept
  <2> QED BY <1>3, <1>10, <2>1, <2>2 DEF Typed
<1>11. /\ pipe'[Peer(e)] = d /\ r'[e] = at /\ pipe'[e] = pipe[e] /\ r'[Peer(e)] = r[Peer(e)]
       /\ w' = w
  BY <1>0, <1>3, <1>8 DEF Typed
<1>12. Stream(Peer(e))' = Stream(Peer(e))
  <2>1. PICK q \in Seq(Pending) : q = w[Peer(e)]
    BY <1>0, TypedAt
  <2>2. Flow(Joined(a, SubSeq(b, 1, n)), Drop(b, n), q) = Flow(a, b, q)
    BY <1>4, FlowRead
  <2>3. Stream(Peer(e)) = Flow(a, b, q)
    BY <1>0, <1>1, <1>2, <2>1, StreamFlow
  <2>4. Stream(Peer(e))' = Flow(at, d, q)
    BY <1>0, <1>11, <2>1, StreamFlow
  <2> QED BY <1>5, <1>6, <1>7, <2>2, <2>3, <2>4
<1>13. Stream(e)' = Stream(e)
  BY <1>11, StreamFlow
<1> QED BY <1>0, <1>10, <1>11, <1>12, <1>13

\* imsg_get takes the first message of the row.
LEMMA GetFlow ==
  ASSUME Typed, NEW e \in Ends, HasMessage(e), Sound(Stream(Peer(e))), Get(e)
  PROVE  /\ r' \in [Ends -> Seq(Byte)] /\ \A f \in Ends : Len(r'[f]) <= BufSize
         /\ r'[Peer(e)] = r[Peer(e)]
         /\ pipe' = pipe /\ w'[Peer(e)] = w[Peer(e)] =>
              Stream(Peer(e))' = Drop(Stream(Peer(e)), Size(Head(r[e])[1]))
<1>0. Peer(e) \in Ends /\ Peer(e) # e /\ Peer(Peer(e)) = e
  BY PeerFacts
<1>1. PICK a \in Seq(Byte) : a = r[e]
  BY TypedAt
<1>2. PICK n \in 0..Len(a) : n = Size(Head(a)[1])
  BY <1>1, MessageRead
<1>3. PICK d \in Seq(Byte) : d = Drop(a, n) /\ Len(d) <= Len(a)
  <2>1. Drop(a, n) \in Seq(Byte) /\ Len(Drop(a, n)) = Len(a) - n
    BY DropFacts
  <2>2. Len(Drop(a, n)) <= Len(a)
    BY <2>1, LenProperties
  <2> QED BY <2>1, <2>2
<1>4. r' = [r EXCEPT ![e] = d]
  BY <1>1, <1>2, <1>3 DEF Get, Drop
<1>5. Len(d) <= BufSize
  <2>1. Len(a) <= BufSize /\ Len(a) \in Nat /\ Len(d) \in Nat
    BY <1>1, LenProperties DEF Typed
  <2> QED BY <1>3, <2>1, BufferAssumption
<1>6. r' \in [Ends -> Seq(Byte)] /\ \A f \in Ends : Len(r'[f]) <= BufSize
  BY <1>4, <1>5 DEF Typed
<1>7. r'[Peer(e)] = r[Peer(e)] /\ r'[e] = d
  BY <1>0, <1>4 DEF Typed
<1>8. ASSUME pipe' = pipe, w'[Peer(e)] = w[Peer(e)]
      PROVE  Stream(Peer(e))' = Drop(Stream(Peer(e)), n)
  <2>1. PICK q \in Seq(Pending) : q = w[Peer(e)]
    BY <1>0, TypedAt
  <2>2. PICK b \in Seq(Byte) : b = pipe[Peer(e)]
    BY <1>0, TypedAt
  <2>3. Stream(Peer(e)) = Flow(a, b, q)
    BY <1>0, <1>1, <2>1, <2>2, StreamFlow
  <2>4. Stream(Peer(e))' = Flow(d, b, q)
    BY <1>0, <1>7, <1>8, <2>1, <2>2, StreamFlow
  <2>5. Flow(Drop(a, n), b, q) = Drop(Flow(a, b, q), n)
    BY FlowGet
  <2> QED BY <1>3, <2>3, <2>4, <2>5
<1> QED BY <1>1, <1>2, <1>6, <1>7, <1>8

LEMMA ComposeFlow ==
  ASSUME Typed, NEW e \in Ends, NEW m \in Message, Compose(e, m)
  PROVE  /\ w' \in [Ends -> Seq(Pending)] /\ w'[Peer(e)] = w[Peer(e)]
         /\ r'[Peer(e)] = r[Peer(e)] /\ pipe' = pipe => Stream(e)' = Joined(Stream(e), Bytes(m))
<1>0. Peer(e) \in Ends /\ Peer(e) # e
  BY PeerFacts
<1>1. PICK q \in Seq(Pending) : q = w[e]
  BY TypedAt
<1>2. PICK a \in Seq(Byte) : a = r[Peer(e)]
  BY TypedAt
<1>3. PICK b \in Seq(Byte) : b = pipe[e]
  BY TypedAt
<1>4. PICK p \in Seq(Pending) : /\ p = Append(q, [msg |-> m, rpos |-> 0])
                                /\ Flow(a, b, p) = Joined(Flow(a, b, q), Bytes(m))
  BY FlowCompose
<1>5. w' = [w EXCEPT ![e] = p]
  BY <1>1, <1>4 DEF Compose
<1>6. w' \in [Ends -> Seq(Pending)] /\ w'[Peer(e)] = w[Peer(e)] /\ w'[e] = p
  BY <1>0, <1>5 DEF Typed
<1>7. Stream(e) = Flow(a, b, q)
  BY <1>1, <1>2, <1>3, StreamFlow
<1>8. ASSUME r'[Peer(e)] = r[Peer(e)], pipe' = pipe PROVE Stream(e)' = Flow(a, b, p)
  BY <1>2, <1>3, <1>6, <1>8, StreamFlow
<1> QED BY <1>4, <1>6, <1>7, <1>8

\* An end that goes: it dies, or the agent frees its struct conn
Gives(e) ==
  /\ Forget(e)
  /\ pipe' = pipe \/ pipe' = [pipe EXCEPT ![Peer(e)] = <<>>]
  /\ freed' \in BOOLEAN /\ failed' \in BOOLEAN /\ (failed' = failed \/ failed')

LEMMA LeaveGives == ASSUME Typed, NEW e \in Ends, Leave(e) PROVE Gives(e)
<1>1. /\ Forget(e) /\ pipe' = [pipe EXCEPT ![Peer(e)] = <<>>]
      /\ freed' \in BOOLEAN /\ failed' = failed
  BY DEF Leave
<1>2. failed \in BOOLEAN
  BY DEF Typed
<1> QED BY <1>1, <1>2 DEF Gives

LEMMA LeaveFlow ==
  ASSUME Typed, NEW e \in Ends, Gives(e)
  PROVE  /\ Typed' /\ pc'[e] = "gone" /\ pc'[Peer(e)] = pc[Peer(e)]
         /\ w'[e] = <<>> /\ w'[Peer(e)] = w[Peer(e)]
         /\ \E n \in Nat : n <= Len(Stream(e)) /\ Stream(e)' = SubSeq(Stream(e), 1, n)
<1>0. Peer(e) \in Ends /\ Peer(e) # e /\ Peer(Peer(e)) = e
  BY PeerFacts
<1>1. PICK z \in Seq(Byte) : z = <<>> /\ Len(z) = 0
  BY EmptySeq
<1>2. PICK y \in Seq(Pending) : y = <<>>
  BY EmptySeq
<1>3. /\ pc' = [pc EXCEPT ![e] = "gone"] /\ w' = [w EXCEPT ![e] = y] /\ r' = [r EXCEPT ![e] = z]
      /\ pipe' = pipe \/ pipe' = [pipe EXCEPT ![Peer(e)] = z]
      /\ UNCHANGED call /\ failed' \in BOOLEAN /\ freed' \in BOOLEAN
  BY <1>1, <1>2 DEF Gives, Forget, Goto
<1>4. Typed'
  <2>1. Room \in Nat /\ BufSize \in Nat
    BY SizeAssumption, BufferAssumption
  <2>2. 0 <= Room /\ 0 <= BufSize
    BY <2>1
  <2>3. pipe' \in [Ends -> Seq(Byte)] /\ \A f \in Ends : Len(pipe'[f]) <= Room
    BY <1>0, <1>1, <1>3, <2>2 DEF Typed
  <2>4. /\ pc' \in [Ends -> Places] /\ w' \in [Ends -> Seq(Pending)]
        /\ r' \in [Ends -> Seq(Byte)] /\ \A f \in Ends : Len(r'[f]) <= BufSize
    BY <1>1, <1>3, <2>2 DEF Typed, Places
  <2> QED BY <1>3, <2>3, <2>4 DEF Typed, Places
<1>5. /\ pc'[e] = "gone" /\ pc'[Peer(e)] = pc[Peer(e)] /\ w'[e] = <<>> /\ w'[Peer(e)] = w[Peer(e)]
      /\ r'[Peer(e)] = r[Peer(e)] /\ pipe'[e] = pipe[e]
  BY <1>0, <1>2, <1>3 DEF Typed
<1>6. PICK q \in Seq(Pending) : q = w[e]
  BY TypedAt
<1>7. PICK a \in Seq(Byte) : a = r[Peer(e)]
  BY TypedAt
<1>8. PICK b \in Seq(Byte) : b = pipe[e]
  BY TypedAt
<1>9. \E n \in Nat : n <= Len(Flow(a, b, q)) /\ Flow(a, b, <<>>) = SubSeq(Flow(a, b, q), 1, n)
  BY FlowLeave
<1>10. Stream(e) = Flow(a, b, q) /\ Stream(e)' = Flow(a, b, <<>>)
  BY <1>5, <1>6, <1>7, <1>8, StreamFlow
<1> QED BY <1>4, <1>5, <1>9, <1>10

-----------------------------------------------------------------------------
(* The steps                                                                *)

LEMMA BothEnds == \A e \in Ends : e = "client" \/ e = "agent"
BY DEF Ends

\* Nothing happens to the rows, and nobody comes or goes.
Quiet ==
  /\ Typed' /\ StreamsSound' /\ NothingLeft' /\ SameUp
  /\ Queue("client")' = Queue("client") /\ Queue("agent")' = Queue("agent")

LEMMA QuietFlow ==
  ASSUME Typed, StreamsSound, Typed', NothingLeft', SameUp, \A e \in Ends : Stream(e)' = Stream(e)
  PROVE  Quiet
<1>1. \A e \in Ends : SoundAt(e)' /\ Queue(e)' = Queue(e)
  BY DirSame DEF StreamsSound
<1> QED BY <1>1 DEF Quiet, StreamsSound, Ends

\* An end that moves on and changes no more
Moves(e, l) == l \in Places \ {"gone"} /\ pc[e] # "gone" /\ pc' = [pc EXCEPT ![e] = l]

LEMMA MoveFacts ==
  ASSUME Typed, NEW e \in Ends, NEW l, Moves(e, l)
  PROVE  /\ pc' \in [Ends -> Places] /\ SameUp
         /\ pc'[e] = l /\ pc'[Peer(e)] = pc[Peer(e)]
<1>1. Peer(e) \in Ends /\ Peer(e) # e
  BY PeerFacts
<1> QED BY <1>1 DEF Typed, Moves, SameUp, Places

LEMMA MoveQuiet ==
  ASSUME ImsgInv, NEW e \in Ends, NEW l, Moves(e, l), l = "receive" => w[e] = <<>>,
         UNCHANGED <<w, pipe, r, call, freed>>, failed' \in BOOLEAN
  PROVE  Quiet
<1>1. pc' \in [Ends -> Places] /\ SameUp
  BY MoveFacts DEF ImsgInv
<1>2. Typed'
  BY <1>1 DEF ImsgInv, Typed, Places
<1>3. NothingLeft'
  <2>1. ASSUME NEW f \in Ends, pc'[f] \in {"gone", "receive"} PROVE w[f] = <<>>
    BY <1>1, <2>1 DEF Moves, ImsgInv, NothingLeft, SameUp, Typed
  <2> QED BY <2>1 DEF NothingLeft
<1>4. \A f \in Ends : Stream(f)' = Stream(f)
  BY StreamFlow
<1> QED BY <1>1, <1>2, <1>3, <1>4, QuietFlow DEF ImsgInv

LEMMA SendPieceQuiet ==
  ASSUME ImsgInv, NEW e \in Ends, SendPiece(e)
  PROVE  Quiet /\ UNCHANGED <<pc, r, call, failed, freed>>
<1>1. /\ Typed' /\ SameUp /\ \A f \in Ends : Stream(f)' = Stream(f)
      /\ w'[Peer(e)] = w[Peer(e)]
  BY SendPieceFlow DEF ImsgInv
<1>2. UNCHANGED <<pc, r, call, failed, freed>> /\ pc[e] = "flush"
  BY DEF SendPiece
<1>3. NothingLeft'
  <2>1. \A f \in Ends : f = e \/ f = Peer(e)
    BY PeerFacts DEF Ends
  <2> QED BY <1>1, <1>2, <2>1 DEF ImsgInv, NothingLeft
<1> QED BY <1>1, <1>2, <1>3, QuietFlow DEF ImsgInv

LEMMA ReadQuiet ==
  ASSUME ImsgInv, NEW e \in Ends, Read(e), pc' \in [Ends -> Places], SameUp,
         \A f \in Ends : pc'[f] = "receive" => pc[f] = "receive"
  PROVE  Quiet /\ UNCHANGED <<w, call, failed, freed>>
<1>1. Typed' /\ \A f \in Ends : Stream(f)' = Stream(f)
  BY ReadFlow DEF ImsgInv, Places
<1>2. UNCHANGED <<w, call, failed, freed>>
  BY DEF Read
<1>3. NothingLeft'
  BY <1>2 DEF ImsgInv, NothingLeft, SameUp
<1> QED BY <1>1, <1>2, <1>3, QuietFlow DEF ImsgInv

\* A message is taken by e.
Took(e, m) ==
  /\ m \in Message /\ Queue(Peer(e)) # <<>> /\ m = Head(Queue(Peer(e)))
  /\ Queue(Peer(e))' = Tail(Queue(Peer(e)))

LEMMA ReceiveTakes ==
  ASSUME ImsgInv, Receive
  PROVE  /\ Typed' /\ StreamsSound' /\ NothingLeft' /\ SameUp
         /\ \E m : Took("client", m)
         /\ Queue("client")' = Queue("client")
         /\ pc[("client")] = "receive" /\ pc' = [pc EXCEPT !["client"] = "idle"]
         /\ r'["agent"] = r["agent"] /\ UNCHANGED <<w, pipe, call, failed, freed>>
<1>0. "client" \in Ends /\ "agent" \in Ends /\ Peer("client") = "agent" /\ Peer("agent") = "client"
  BY PeerFacts DEF Ends
<1>1. /\ pc["client"] = "receive" /\ HasMessage("client") /\ Get("client")
      /\ pc' = [pc EXCEPT !["client"] = "idle"] /\ UNCHANGED <<w, pipe, call, failed, freed>>
  BY DEF Receive, Goto
<1>2. Moves("client", "idle")
  BY <1>1 DEF Moves, Places
<1>3. pc' \in [Ends -> Places] /\ SameUp
  BY <1>0, <1>2, MoveFacts DEF ImsgInv
<1>4. Sound(Stream("agent"))
  BY <1>0, <1>1 DEF ImsgInv, StreamsSound, SoundAt
<1>5. /\ r' \in [Ends -> Seq(Byte)] /\ \A f \in Ends : Len(r'[f]) <= BufSize
      /\ r'["agent"] = r["agent"]
      /\ Stream("agent")' = Drop(Stream("agent"), Size(Head(r["client"])[1]))
  BY <1>0, <1>1, <1>4, GetFlow DEF ImsgInv
<1>6. Typed'
  BY <1>1, <1>3, <1>5 DEF ImsgInv, Typed, Places
<1>7. NothingLeft'
  BY <1>1, <1>3 DEF ImsgInv, NothingLeft, SameUp
<1>8. Stream("client")' = Stream("client")
  BY <1>0, <1>1, <1>5, StreamFlow
<1>9. SoundAt("client")' /\ Queue("client")' = Queue("client")
  BY <1>0, <1>3, <1>8, DirSame DEF ImsgInv, StreamsSound
<1>10. PICK m : m = Head(r["client"])[1]
  OBVIOUS
<1>11. SoundAt("agent")' /\ Took("client", m)
  <2>1. /\ SoundAt("agent")' /\ m \in Message
        /\ Queue("agent") # <<>> /\ m = Head(Queue("agent")) /\ Queue("agent")' = Tail(Queue("agent"))
    <3>1. SoundAt("agent") /\ Typed
      BY <1>0 DEF ImsgInv, StreamsSound
    <3>2. pc[Peer("agent")] # "gone" /\ HasMessage(Peer("agent"))
      BY <1>0, <1>1
    <3>3. m = Head(r[Peer("agent")])[1] /\ Stream("agent")' = Drop(Stream("agent"), Size(m))
      BY <1>0, <1>5, <1>10
    <3> QED BY <1>0, <1>3, <3>1, <3>2, <3>3, DirGot
  <2> QED BY <1>0, <2>1 DEF Took
<1>12. StreamsSound'
  BY <1>9, <1>11, BothEnds DEF StreamsSound
<1> QED BY <1>1, <1>3, <1>5, <1>6, <1>7, <1>9, <1>11, <1>12

\* A request is taken; an answer may be composed.
Answered(m) ==
  \/ m.type = "STORE" /\ Queue("agent")' = Queue("agent")
  \/ /\ m.type = "SEARCH"
     /\ \E a \in Message :
          /\ a.serial = m.serial
          /\ pc["client"] # "gone" => Queue("agent")' = Append(Queue("agent"), a)
          /\ pc["client"] = "gone" => Queue("agent")' = Queue("agent")

LEMMA DispatchTakes ==
  ASSUME ImsgInv, Dispatch
  PROVE  /\ Typed' /\ StreamsSound' /\ NothingLeft' /\ SameUp
         /\ \E m : Took("agent", m) /\ Answered(m)
         /\ pc'["agent"] # "poll" /\ pc'["client"] = pc["client"] /\ UNCHANGED <<call, failed, freed>>
<1>0. "client" \in Ends /\ "agent" \in Ends /\ Peer("client") = "agent" /\ Peer("agent") = "client"
  BY PeerFacts DEF Ends
<1>1. PICK m : m = Head(r["agent"])[1]
  OBVIOUS
<1>2. /\ pc["agent"] = "dispatch" /\ HasMessage("agent") /\ Get("agent") /\ UNCHANGED <<pipe, call, failed, freed>>
  BY DEF Dispatch
<1>3. Sound(Stream("client"))
  BY <1>0, <1>2 DEF ImsgInv, StreamsSound, SoundAt
<1>4. /\ r' \in [Ends -> Seq(Byte)] /\ \A f \in Ends : Len(r'[f]) <= BufSize
      /\ r'["client"] = r["client"]
      /\ w'["client"] = w["client"] => Stream("client")' = Drop(Stream("client"), Size(m))
  BY <1>0, <1>1, <1>2, <1>3, GetFlow DEF ImsgInv
<1>5. m \in Message
  BY <1>0, <1>1, <1>2, <1>3, MessageRead DEF ImsgInv
<1>6. SoundAt("client") /\ SoundAt("agent") /\ Typed
  BY <1>0 DEF ImsgInv, StreamsSound
<1>7. ASSUME SameUp, w'["client"] = w["client"]
      PROVE  SoundAt("client")' /\ Took("agent", m)
  <2>1. /\ SoundAt("client")' /\ m \in Message
        /\ Queue("client") # <<>> /\ m = Head(Queue("client")) /\ Queue("client")' = Tail(Queue("client"))
    <3>1. pc[Peer("client")] # "gone" /\ HasMessage(Peer("client"))
      BY <1>0, <1>2
    <3>2. m = Head(r[Peer("client")])[1] /\ Stream("client")' = Drop(Stream("client"), Size(m))
      BY <1>0, <1>1, <1>4, <1>7
    <3> QED BY <1>0, <1>6, <1>7, <3>1, <3>2, DirGot
  <2> QED BY <1>0, <2>1 DEF Took
<1>8. CASE m.type = "STORE" /\ UNCHANGED <<pc, w>>
  <2>1. SameUp
    BY <1>8 DEF SameUp
  <2>2. Typed'
    BY <1>2, <1>4, <1>8 DEF ImsgInv, Typed
  <2>3. NothingLeft'
    BY <1>8 DEF ImsgInv, NothingLeft
  <2>4. Stream("agent")' = Stream("agent")
    BY <1>0, <1>2, <1>4, <1>8, StreamFlow
  <2>5. SoundAt("agent")' /\ Queue("agent")' = Queue("agent")
    BY <1>0, <1>6, <2>1, <2>4, DirSame
  <2>6. SoundAt("client")' /\ Took("agent", m)
    BY <1>7, <1>8, <2>1
  <2>7. StreamsSound'
    BY <2>5, <2>6, BothEnds DEF StreamsSound
  <2> QED BY <1>2, <1>8, <2>1, <2>2, <2>3, <2>5, <2>6, <2>7 DEF Answered
<1>9. ASSUME NEW t \in Answers, m.type = "SEARCH", pc' = [pc EXCEPT !["agent"] = "flush"],
             Compose("agent", [m EXCEPT !.type = t])
      PROVE  /\ Typed' /\ StreamsSound' /\ NothingLeft' /\ SameUp
             /\ Took("agent", m) /\ Answered(m)
             /\ pc'["agent"] # "poll" /\ pc'["client"] = pc["client"]
  <2>1. PICK a \in Message : a = [m EXCEPT !.type = t] /\ a.serial = m.serial
    <3> DEFINE b == [m EXCEPT !.type = t]
    <3>1. m \in [type : Requests \cup Answers, serial : 1..MaxCalls] /\ t \in Requests \cup Answers
      BY <1>5 DEF Message
    <3>2. b \in [type : Requests \cup Answers, serial : 1..MaxCalls]
      BY <3>1
    <3>3. b.serial = m.serial
      BY <3>1
    <3>4. b \in Message
      BY <3>2 DEF Message
    <3> HIDE DEF b
    <3>5. \E a \in Message : a = b /\ a.serial = m.serial
      BY <3>3, <3>4
    <3> QED BY <3>5 DEF b
  <2>2. Moves("agent", "flush")
    BY <1>2, <1>9 DEF Moves, Places
  <2>3. /\ pc' \in [Ends -> Places] /\ SameUp
        /\ pc'["agent"] = "flush" /\ pc'["client"] = pc["client"]
    BY <1>0, <1>6, <2>2, MoveFacts
  <2>4. /\ w' \in [Ends -> Seq(Pending)] /\ w'["client"] = w["client"]
        /\ Stream("agent")' = Joined(Stream("agent"), Bytes(a))
    BY <1>0, <1>2, <1>4, <1>6, <1>9, <2>1, ComposeFlow
  <2>5. Typed'
    BY <1>2, <1>4, <2>3, <2>4 DEF ImsgInv, Typed, Places
  <2>6. NothingLeft'
    BY <2>3, <2>4, BothEnds DEF ImsgInv, NothingLeft
  <2>7. /\ SoundAt("agent")'
        /\ pc["client"] # "gone" => Queue("agent")' = Append(Queue("agent"), a)
        /\ pc["client"] = "gone" => Queue("agent")' = Queue("agent")
    BY <1>0, <1>2, <1>6, <2>3, <2>4, DirMore
  <2>8. SoundAt("client")' /\ Took("agent", m)
    BY <1>7, <2>3, <2>4
  <2>9. StreamsSound'
    BY <2>7, <2>8, BothEnds DEF StreamsSound
  <2> QED BY <1>9, <2>1, <2>3, <2>5, <2>6, <2>7, <2>8, <2>9 DEF Answered
<1>10. \/ m.type = "STORE" /\ UNCHANGED <<pc, w>>
       \/ /\ m.type = "SEARCH" /\ pc' = [pc EXCEPT !["agent"] = "flush"]
          /\ \E t \in Answers : Compose("agent", [m EXCEPT !.type = t])
  BY <1>1 DEF Dispatch, Goto
<1> QED BY <1>2, <1>8, <1>9, <1>10

LEMMA CallPuts ==
  ASSUME ImsgInv, Call
  PROVE  /\ Typed' /\ StreamsSound' /\ NothingLeft' /\ SameUp
         /\ pc["client"] = "idle" /\ pc' = [pc EXCEPT !["client"] = "flush"]
         /\ call' \in Message
         /\ pc["agent"] # "gone" => Queue("client")' = Append(Queue("client"), call')
         /\ pc["agent"] = "gone" => Queue("client")' = Queue("client")
         /\ Queue("agent")' = Queue("agent")
         /\ UNCHANGED <<pipe, r, failed, freed>>
<1>0. "client" \in Ends /\ "agent" \in Ends /\ Peer("client") = "agent" /\ Peer("agent") = "client"
  BY PeerFacts DEF Ends
<1>1. /\ pc["client"] = "idle" /\ call.serial < MaxCalls
      /\ pc' = [pc EXCEPT !["client"] = "flush"] /\ UNCHANGED <<pipe, r, failed, freed>>
      /\ \E t \in Requests : call' = [type |-> t, serial |-> call.serial + 1] /\ Compose("client", call')
  BY DEF Call, Goto
<1>2. call' \in Message /\ call' \in [type : Requests, serial : 0..MaxCalls] /\ Compose("client", call')
  <2>1. call.serial \in 0..MaxCalls
    BY DEF ImsgInv, Typed
  <2>2. call.serial + 1 \in 1..MaxCalls /\ call.serial + 1 \in 0..MaxCalls
    BY <1>1, <2>1, CallsAssumption
  <2>3. PICK t \in Requests : call' = [type |-> t, serial |-> call.serial + 1] /\ Compose("client", call')
    BY <1>1
  <2> QED BY <2>2, <2>3 DEF Message
<1>3. PICK m \in Message : m = call'
  BY <1>2
<1>4. SoundAt("client") /\ SoundAt("agent") /\ Typed
  BY <1>0 DEF ImsgInv, StreamsSound
<1>5. Moves("client", "flush")
  BY <1>1 DEF Moves, Places
<1>6. /\ pc' \in [Ends -> Places] /\ SameUp
      /\ pc'["client"] = "flush" /\ pc'["agent"] = pc["agent"]
  BY <1>0, <1>4, <1>5, MoveFacts
<1>7. /\ w' \in [Ends -> Seq(Pending)] /\ w'["agent"] = w["agent"]
      /\ Stream("client")' = Joined(Stream("client"), Bytes(m))
  BY <1>0, <1>1, <1>2, <1>3, <1>4, ComposeFlow
<1>8. Typed'
  BY <1>1, <1>2, <1>6, <1>7 DEF ImsgInv, Typed, Places
<1>9. NothingLeft'
  BY <1>6, <1>7, BothEnds DEF ImsgInv, NothingLeft
<1>10. /\ SoundAt("client")'
       /\ pc["agent"] # "gone" => Queue("client")' = Append(Queue("client"), m)
       /\ pc["agent"] = "gone" => Queue("client")' = Queue("client")
  BY <1>0, <1>1, <1>4, <1>6, <1>7, DirMore
<1>11. Stream("agent")' = Stream("agent")
  BY <1>0, <1>1, <1>7, StreamFlow
<1>12. SoundAt("agent")' /\ Queue("agent")' = Queue("agent")
  BY <1>0, <1>4, <1>6, <1>11, DirSame
<1>13. StreamsSound'
  BY <1>10, <1>12, BothEnds DEF StreamsSound
<1> QED BY <1>1, <1>2, <1>3, <1>6, <1>8, <1>9, <1>10, <1>12, <1>13

\* An end that goes breaks both directions.
LEMMA LeaveBreaks ==
  ASSUME ImsgInv, NEW e \in Ends, Gives(e)
  PROVE  /\ Typed' /\ StreamsSound' /\ NothingLeft'
         /\ pc'[e] = "gone" /\ pc'[Peer(e)] = pc[Peer(e)]
         /\ UNCHANGED call /\ (failed' = failed \/ failed')
         /\ Queue(Peer(e))' = <<>>
         /\ Queue(e)' \in Seq(Message) /\ \E z \in Seq(Message) : Queue(e) = Joined(Queue(e)', z)
<1>0. Peer(e) \in Ends /\ Peer(e) # e /\ Peer(Peer(e)) = e /\ \A f \in Ends : f = e \/ f = Peer(e)
  BY PeerFacts DEF Ends
<1>1. /\ Typed' /\ pc'[e] = "gone" /\ pc'[Peer(e)] = pc[Peer(e)]
      /\ w'[e] = <<>> /\ w'[Peer(e)] = w[Peer(e)]
      /\ \E n \in Nat : n <= Len(Stream(e)) /\ Stream(e)' = SubSeq(Stream(e), 1, n)
  BY LeaveFlow DEF ImsgInv
<1>2. UNCHANGED call /\ (failed' = failed \/ failed')
  BY DEF Gives, Forget
<1>3. NothingLeft'
  BY <1>0, <1>1 DEF ImsgInv, NothingLeft
<1>4. /\ SoundAt(e)' /\ Queue(e)' \in Seq(Message)
      /\ \E z \in Seq(Message) : Queue(e) = Joined(Queue(e)', z)
  BY <1>1, DirCut DEF ImsgInv, StreamsSound
<1>5. Queue(Peer(e))' = <<>> /\ SoundAt(Peer(e))'
  BY <1>0, <1>1 DEF Queue, SoundAt
<1>6. StreamsSound'
  BY <1>0, <1>4, <1>5 DEF StreamsSound
<1> QED BY <1>1, <1>2, <1>3, <1>4, <1>5, <1>6

\* kp_agent_receive fails only when there is no answer.
LEMMA EofEmpty ==
  ASSUME ImsgInv, ReceiveEof
  PROVE  /\ Quiet /\ Queue("client") = <<>> /\ Queue("agent") = <<>>
         /\ pc["client"] = "receive" /\ pc' = [pc EXCEPT !["client"] = "idle"]
         /\ pc["agent"] = "gone" /\ UNCHANGED <<pipe, r, call, failed, freed>>
<1>0. "client" \in Ends /\ "agent" \in Ends /\ Peer("client") = "agent" /\ Peer("agent") = "client"
  BY PeerFacts DEF Ends
<1>1. PICK y \in Seq(Pending) : y = <<>>
  BY EmptySeq
<1>2. /\ pc["client"] = "receive" /\ ~HasMessage("client") /\ AtEof("client")
      /\ pc' = [pc EXCEPT !["client"] = "idle"] /\ w' = [w EXCEPT !["client"] = y]
      /\ UNCHANGED <<pipe, r, call, failed, freed>>
  BY <1>1 DEF ReceiveEof, Goto
<1>3. pc["agent"] = "gone" /\ pipe["agent"] = <<>>
  BY <1>0, <1>2 DEF AtEof, Closed
<1>4. Moves("client", "idle")
  BY <1>2 DEF Moves, Places
<1>5. /\ pc' \in [Ends -> Places] /\ SameUp
      /\ pc'["client"] = "idle" /\ pc'["agent"] = pc["agent"]
  BY <1>0, <1>4, MoveFacts DEF ImsgInv
<1>6. w' \in [Ends -> Seq(Pending)] /\ w'["agent"] = w["agent"]
  BY <1>0, <1>2 DEF ImsgInv, Typed
<1>7. Typed'
  BY <1>2, <1>5, <1>6 DEF ImsgInv, Typed, Places
<1>8. NothingLeft'
  BY <1>3, <1>5, <1>6, BothEnds DEF ImsgInv, NothingLeft
<1>9. Stream("agent")' = Stream("agent")
  BY <1>0, <1>2, <1>6, StreamFlow
<1>10. SoundAt("agent")' /\ Queue("agent")' = Queue("agent")
  BY <1>0, <1>5, <1>9, DirSame DEF ImsgInv, StreamsSound
<1>11. Queue("client") = <<>> /\ Queue("client")' = <<>> /\ SoundAt("client")'
  BY <1>0, <1>3, <1>5 DEF Queue, SoundAt
<1>12. StreamsSound'
  BY <1>10, <1>11, BothEnds DEF StreamsSound
<1>13. Queue("agent") = <<>>
  <2>1. w["agent"] = <<>>
    BY <1>0, <1>3 DEF ImsgInv, NothingLeft
  <2>2. PICK a \in Seq(Byte) : a = r["client"]
    BY <1>0, TypedAt DEF ImsgInv
  <2>3. Stream("agent") = Joined(Joined(a, <<>>), <<>>)
    BY <1>0, <1>3, <2>1, <2>2, StreamFlow, RestFacts DEF Flow
  <2>4. Stream("agent") = r["client"]
    BY <2>2, <2>3, JoinedFacts
  <2>5. Sound(Stream("agent"))
    BY <1>0, <1>2 DEF ImsgInv, StreamsSound, SoundAt
  <2>6. Completed(Stream("agent")) = <<>>
    BY <1>0, <1>2, <2>4, <2>5, MessageFound DEF ImsgInv
  <2> QED BY <2>6 DEF Queue
<1> QED BY <1>2, <1>3, <1>5, <1>7, <1>8, <1>10, <1>11, <1>12, <1>13 DEF Quiet

LEMMA QueueType ==
  ASSUME StreamsSound, NEW e \in Ends
  PROVE  Queue(e) \in Seq(Message)
<1>1. CASE pc[Peer(e)] = "gone"
  BY <1>1, EmptySeq DEF Queue
<1>2. CASE pc[Peer(e)] # "gone"
  BY <1>2, SoundType DEF StreamsSound, SoundAt, Queue
<1> QED BY <1>1, <1>2

\* The turns go on when nothing happens to the rows.
LEMMA QuietTurns ==
  ASSUME Turns, Quiet, UNCHANGED call, failed' = failed \/ failed',
         pc["client"] = "gone" => pc'["client"] = "gone",
         Awaited => Awaited' \/ call.type # "SEARCH"
  PROVE  Turns'
<1>1. SUFFICES ASSUME ~failed', pc'["client"] # "gone" PROVE Turns'
  BY DEF Turns
<1>2. ~failed /\ pc["client"] # "gone"
  BY <1>1
<1>3. /\ Queue("client")' = Queue("client") /\ Queue("agent")' = Queue("agent") /\ call' = call
  BY DEF Quiet
<1>4. ASSUME NEW i \in 1..Len(Queue("client")), Queue("client")[i].type = "SEARCH"
      PROVE  /\ i = Len(Queue("client")) /\ Queue("client")[i] = call
             /\ Queue("agent") = <<>> /\ Awaited'
  <2>1. /\ i = Len(Queue("client")) /\ Queue("client")[i] = call
        /\ Queue("agent") = <<>> /\ Awaited
    BY <1>2, <1>4 DEF Turns
  <2>2. call.type = "SEARCH"
    BY <1>4, <2>1
  <2> QED BY <2>1, <2>2
<1>5. ASSUME Queue("agent") # <<>>
      PROVE  /\ Len(Queue("agent")) = 1 /\ Queue("agent")[1].serial = call.serial
             /\ call.type = "SEARCH" /\ Awaited'
  BY <1>2, <1>5 DEF Turns
<1> QED BY <1>3, <1>4, <1>5 DEF Turns

LEMMA RowTail ==
  ASSUME NEW S, NEW q \in Seq(S), q # <<>>
  PROVE  /\ Tail(q) \in Seq(S) /\ Len(Tail(q)) = Len(q) - 1 /\ Len(q) \in Nat \ {0}
         /\ \A i \in 1..Len(Tail(q)) : Tail(q)[i] = q[i + 1] /\ i + 1 \in 1..Len(q)
         /\ q[1] = Head(q)
<1>1. Len(q) \in Nat \ {0}
  BY LenProperties, EmptyRow
<1>2. Tail(q) \in Seq(S) /\ Len(Tail(q)) = Len(q) - 1
  BY <1>1
<1>3. ASSUME NEW i \in 1..Len(Tail(q)) PROVE Tail(q)[i] = q[i + 1] /\ i + 1 \in 1..Len(q)
  BY <1>1, <1>2, <1>3
<1> QED BY <1>1, <1>2, <1>3

LEMMA ReceiveTurns ==
  ASSUME ImsgInv, Receive
  PROVE  Turns'
<1>0. "client" \in Ends /\ "agent" \in Ends /\ Peer("client") = "agent"
  BY PeerFacts DEF Ends
<1>1. /\ \E m : Took("client", m)
      /\ Queue("client")' = Queue("client") /\ pc["client"] = "receive" /\ UNCHANGED <<call, failed, freed>>
  BY ReceiveTakes
<1>2. PICK q \in Seq(Message) : q = Queue("agent")
  BY <1>0, QueueType DEF ImsgInv
<1>3. q # <<>> /\ Queue("agent")' = Tail(q)
  BY <1>0, <1>1, <1>2 DEF Took
<1>4. SUFFICES ASSUME ~failed' PROVE Turns'
  BY DEF Turns
<1>5. Len(q) = 1 /\ \A i \in 1..Len(Queue("client")) : Queue("client")[i].type # "SEARCH"
  BY <1>1, <1>2, <1>3, <1>4 DEF ImsgInv, Turns
<1>6. Tail(q) = <<>>
  <2>1. Tail(q) \in Seq(Message) /\ Len(Tail(q)) = 0
    BY <1>3, <1>5, RowTail
  <2> QED BY <2>1, EmptyRow
<1> QED BY <1>1, <1>3, <1>5, <1>6 DEF Turns

LEMMA DispatchTurns ==
  ASSUME ImsgInv, Dispatch
  PROVE  Turns'
<1>0. "client" \in Ends /\ "agent" \in Ends /\ Peer("agent") = "client"
  BY PeerFacts DEF Ends
<1>1. /\ pc'["client"] = pc["client"] /\ UNCHANGED <<call, failed, freed>>
      /\ \E m : Took("agent", m) /\ Answered(m)
  BY DispatchTakes
<1>2. PICK m : Took("agent", m) /\ Answered(m)
  BY <1>1
<1>3. PICK q \in Seq(Message) : q = Queue("client")
  BY <1>0, QueueType DEF ImsgInv
<1>a. q # <<>> /\ m = Head(q) /\ Queue("client")' = Tail(q)
  BY <1>0, <1>2, <1>3 DEF Took
<1>b. /\ Tail(q) \in Seq(Message) /\ Len(Tail(q)) = Len(q) - 1 /\ Len(q) \in Nat \ {0}
      /\ \A i \in 1..Len(Tail(q)) : Tail(q)[i] = q[i + 1] /\ i + 1 \in 1..Len(q)
      /\ q[1] = m
  BY <1>a, RowTail
<1>c. PICK t \in Seq(Message) : t = Tail(q)
  BY <1>b
<1>d. PICK l \in Nat : l = Len(t)
  BY LenProperties
<1>4. Queue("client")' = t
  BY <1>a, <1>c
<1>5. /\ Len(t) = l /\ Len(q) = l + 1 /\ q[1] = m
      /\ \A i \in 1..l : t[i] = q[i + 1] /\ i + 1 \in 1..Len(q)
  BY <1>b, <1>c, <1>d
<1>6. SUFFICES ASSUME ~failed, pc["client"] # "gone" PROVE Turns'
  BY <1>1 DEF Turns
<1>7. Awaited' <=> Awaited
  BY <1>1 DEF Awaited
<1>8. CASE m.type = "STORE" /\ Queue("agent")' = Queue("agent")
  <2>1. ASSUME NEW i \in 1..l, t[i].type = "SEARCH"
        PROVE  i = l /\ t[i] = call /\ Queue("agent") = <<>> /\ Awaited
    <3>1. i + 1 \in 1..Len(q) /\ q[i + 1].type = "SEARCH"
      BY <1>5, <2>1
    <3>2. i + 1 = Len(q) /\ q[i + 1] = call /\ Queue("agent") = <<>> /\ Awaited
      BY <1>3, <1>6, <3>1 DEF ImsgInv, Turns
    <3> QED BY <1>5, <2>1, <3>2
  <2>2. Queue("agent") # <<>> => /\ Len(Queue("agent")) = 1 /\ Queue("agent")[1].serial = call.serial
                                 /\ call.type = "SEARCH" /\ Awaited
    BY <1>6 DEF ImsgInv, Turns
  <2> QED BY <1>1, <1>4, <1>5, <1>7, <1>8, <2>1, <2>2 DEF Turns
<1>9. ASSUME m.type = "SEARCH", NEW a \in Message, a.serial = m.serial,
             Queue("agent")' = Append(Queue("agent"), a)
      PROVE  Turns'
  <2>1. 1 \in 1..Len(q) /\ q[1].type = "SEARCH"
    BY <1>5, <1>9
  <2>2. 1 = Len(q) /\ q[1] = call /\ Queue("agent") = <<>> /\ Awaited
    BY <1>3, <1>6, <2>1 DEF ImsgInv, Turns
  <2>3. t = <<>>
    <3>1. Len(t) = 0
      BY <1>5, <2>2
    <3> QED BY <3>1, EmptyRow
  <2>4. Append(<<>>, a) = <<a>>
    OBVIOUS
  <2>5. Queue("agent")' = <<a>> /\ m = call
    BY <1>5, <1>9, <2>2, <2>4
  <2> QED BY <1>1, <1>4, <1>7, <1>9, <2>2, <2>3, <2>5 DEF Turns
<1> QED BY <1>2, <1>6, <1>8, <1>9 DEF Answered

LEMMA CallTurns ==
  ASSUME ImsgInv, Call
  PROVE  Turns'
<1>0. "client" \in Ends /\ "agent" \in Ends /\ Peer("client") = "agent"
  BY PeerFacts DEF Ends
<1>1. /\ pc["client"] = "idle" /\ pc' = [pc EXCEPT !["client"] = "flush"]
      /\ call' \in Message
      /\ pc["agent"] # "gone" => Queue("client")' = Append(Queue("client"), call')
      /\ pc["agent"] = "gone" => Queue("client")' = Queue("client")
      /\ Queue("agent")' = Queue("agent")
      /\ UNCHANGED failed
  BY CallPuts
<1>2. pc'["client"] = "flush"
  BY <1>0, <1>1 DEF ImsgInv, Typed
<1>3. Awaited' /\ ~Awaited
  BY <1>1, <1>2 DEF Awaited
<1>4. SUFFICES ASSUME ~failed PROVE Turns'
  BY <1>1 DEF Turns
<1>5. PICK q \in Seq(Message) : q = Queue("client")
  BY <1>0, QueueType DEF ImsgInv
<1>6. Queue("agent") = <<>> /\ \A i \in 1..Len(q) : q[i].type # "SEARCH"
  BY <1>1, <1>3, <1>4, <1>5 DEF ImsgInv, Turns
<1>7. CASE pc["agent"] = "gone"
  BY <1>1, <1>5, <1>6, <1>7 DEF Turns
<1>8. CASE pc["agent"] # "gone"
  <2>1. PICK p \in Seq(Message) :
          p = Append(q, call') /\ Len(p) = Len(q) + 1 /\ p[Len(q) + 1] = call' /\ \A i \in 1..Len(q) : p[i] = q[i]
    <3>1. Append(q, call') \in Seq(Message)
      BY <1>1
    <3>2. /\ Len(Append(q, call')) = Len(q) + 1 /\ Append(q, call')[Len(q) + 1] = call'
          /\ \A i \in 1..Len(q) : Append(q, call')[i] = q[i]
      BY <1>1
    <3> QED BY <3>1, <3>2
  <2>2. Len(q) \in Nat
    BY LenProperties
  <2>3. ASSUME NEW i \in 1..Len(p), p[i].type = "SEARCH" PROVE i = Len(p) /\ p[i] = call'
    BY <1>6, <2>1, <2>2, <2>3
  <2> QED BY <1>1, <1>3, <1>5, <1>6, <1>8, <2>1, <2>3 DEF Turns
<1> QED BY <1>7, <1>8

LEMMA LeaveTurns ==
  ASSUME ImsgInv, NEW e \in Ends, Gives(e)
  PROVE  Turns'
<1>0. "client" \in Ends /\ "agent" \in Ends /\ Peer("agent") = "client" /\ Peer("client") = "agent"
  BY PeerFacts DEF Ends
<1>1. CASE e = "client"
  <2>1. pc'["client"] = "gone"
    BY <1>0, <1>1, LeaveBreaks
  <2> QED BY <2>1 DEF Turns
<1>2. CASE e = "agent"
  <2>1. /\ pc'["client"] = pc["client"] /\ Queue("client")' = <<>>
        /\ UNCHANGED call /\ (failed' = failed \/ failed')
        /\ Queue("agent")' \in Seq(Message)
        /\ \E z \in Seq(Message) : Queue("agent") = Joined(Queue("agent")', z)
    BY <1>0, <1>2, LeaveBreaks
  <2>2. PICK p \in Seq(Message) : p = Queue("agent")'
    BY <2>1
  <2>3. PICK z \in Seq(Message) : Queue("agent") = Joined(p, z)
    BY <2>1, <2>2
  <2>4. PICK q \in Seq(Message) : q = Joined(p, z) /\ Len(q) = Len(p) + Len(z)
    BY JoinedLen
  <2>5. SUFFICES ASSUME ~failed, pc["client"] # "gone" PROVE Turns'
    BY <2>1 DEF Turns
  <2>6. ASSUME p # <<>>
        PROVE  Len(p) = 1 /\ p[1].serial = call.serial /\ call.type = "SEARCH" /\ Awaited
    <3>1. q # <<>> /\ q[1] = p[1] /\ Len(p) <= Len(q)
      BY <2>4, <2>6, FirstByte
    <3>2. Len(q) = 1 /\ q[1].serial = call.serial /\ call.type = "SEARCH" /\ Awaited
      BY <2>3, <2>4, <2>5, <3>1 DEF ImsgInv, Turns
    <3>3. Len(p) \in Nat \ {0}
      BY <2>6, EmptyRow, LenProperties
    <3> QED BY <3>1, <3>2, <3>3
  <2>7. Awaited' <=> Awaited
    BY <2>1 DEF Awaited
  <2> QED BY <2>1, <2>2, <2>6, <2>7 DEF Turns
<1> QED BY <1>1, <1>2, BothEnds

LEMMA InvInit == ImsgInit => ImsgInv
<1> SUFFICES ASSUME ImsgInit PROVE ImsgInv
  OBVIOUS
<1>0. "client" \in Ends /\ "agent" \in Ends /\ Peer("client") = "agent" /\ Peer("agent") = "client"
  BY PeerFacts DEF Ends
<1>1. /\ pc \in [Ends -> Places] /\ pc["agent"] = "poll" /\ pc["client"] = "idle"
      /\ \A e \in Ends : w[e] = <<>> /\ pipe[e] = <<>> /\ r[e] = <<>>
      /\ call = [type |-> "STORE", serial |-> 0] /\ failed = FALSE /\ freed = FALSE
  BY DEF ImsgInit, Ends, Places
<1>2. <<>> \in Seq(Byte) /\ <<>> \in Seq(Pending)
  BY EmptySeq
<1>3. Typed
  <2>1. w \in [Ends -> Seq(Pending)] /\ pipe \in [Ends -> Seq(Byte)] /\ r \in [Ends -> Seq(Byte)]
    BY <1>2 DEF ImsgInit
  <2>2. \A e \in Ends : Len(pipe[e]) <= Room /\ Len(r[e]) <= BufSize
    BY <1>1, SizeAssumption, BufferAssumption
  <2>3. call \in [type : Requests, serial : 0..MaxCalls]
    BY <1>1, CallsAssumption DEF Requests
  <2> QED BY <1>1, <2>1, <2>2, <2>3 DEF Typed, Places
<1>4. ASSUME NEW e \in Ends PROVE Stream(e) = <<>>
  <2>1. Peer(e) \in Ends
    BY PeerFacts
  <2>2. Stream(e) = Flow(<<>>, <<>>, <<>>)
    BY <1>1, <2>1, StreamFlow
  <2>3. Joined(<<>>, <<>>) = <<>>
    BY <1>2, JoinedFacts
  <2> QED BY <2>2, <2>3, RestFacts DEF Flow
<1>5. Whole(<<>>) /\ Sound(<<>>) /\ Completed(<<>>) = <<>>
  BY WholeEmpty, WholeSound
<1>6. StreamsSound /\ Queue("client") = <<>> /\ Queue("agent") = <<>>
  BY <1>0, <1>4, <1>5 DEF StreamsSound, SoundAt, Queue
<1>7. NothingLeft
  BY <1>1 DEF NothingLeft
<1>8. AllDispatched
  <2>1. Len(r["agent"]) = 0
    BY <1>0, <1>1
  <2> QED BY <2>1, SizeAssumption DEF AllDispatched, HasMessage
<1>9. Turns
  BY <1>6 DEF Turns
<1> QED BY <1>3, <1>6, <1>7, <1>8, <1>9 DEF ImsgInv

LEMMA StillDispatched ==
  ASSUME AllDispatched, pc'["agent"] = "poll" => pc["agent"] = "poll" /\ r'["agent"] = r["agent"]
  PROVE  AllDispatched'
BY DEF AllDispatched, HasMessage

LEMMA QuietInv ==
  ASSUME ImsgInv, Quiet, UNCHANGED call, failed' = failed \/ failed',
         Awaited => Awaited' \/ call.type # "SEARCH",
         pc'["agent"] = "poll" => pc["agent"] = "poll" /\ r'["agent"] = r["agent"]
  PROVE  ImsgInv'
<1>1. pc["client"] = "gone" => pc'["client"] = "gone"
  BY DEF Quiet, SameUp, Ends
<1>2. Turns'
  BY <1>1, QuietTurns DEF ImsgInv
<1>3. AllDispatched'
  BY StillDispatched DEF ImsgInv
<1> QED BY <1>2, <1>3 DEF ImsgInv, Quiet

LEMMA SendPieceInv ==
  ASSUME ImsgInv, NEW e \in Ends, SendPiece(e) PROVE ImsgInv' /\ Quiet
<1>1. Quiet /\ UNCHANGED <<pc, r, call, failed, freed>>
  BY SendPieceQuiet
<1>2. Awaited' <=> Awaited
  BY <1>1 DEF Awaited
<1> QED BY <1>1, <1>2, QuietInv

LEMMA AfterSendMoves ==
  ASSUME ImsgInv, NEW e \in Ends, pc[e] = "flush", NEW b \in BOOLEAN, Goto(e, AfterSend(e, b)),
         UNCHANGED <<w, pipe, r, call, freed>>, failed' \in BOOLEAN, failed' = failed \/ failed',
         b => w[e] = <<>>, b \/ failed' \/ e = "agent"
  PROVE  ImsgInv' /\ Quiet
<1>0. "client" \in Ends /\ "agent" \in Ends /\ Peer("client") = "agent" /\ Peer("agent") = "client"
  BY PeerFacts DEF Ends
<1>1. Moves(e, AfterSend(e, b))
  BY DEF Moves, Goto, AfterSend, Places
<1>2. /\ SameUp /\ pc'[e] = AfterSend(e, b) /\ pc'[Peer(e)] = pc[Peer(e)]
  BY <1>1, MoveFacts DEF ImsgInv
<1>3. Quiet
  <2>1. AfterSend(e, b) = "receive" => w[e] = <<>>
    BY DEF AfterSend
  <2> QED BY <1>1, <2>1, MoveQuiet
<1>4. pc'["agent"] = "poll" => pc["agent"] = "poll" /\ r'["agent"] = r["agent"]
  <2>1. CASE e = "agent"
    BY <1>2, <2>1 DEF AfterSend
  <2>2. CASE e = "client"
    BY <1>0, <1>2, <2>2
  <2> QED BY <2>1, <2>2, BothEnds
<1>5. AllDispatched'
  BY <1>4, StillDispatched DEF ImsgInv
<1>6. CASE failed'
  <2>1. Turns'
    BY <1>6 DEF Turns
  <2> QED BY <1>3, <1>5, <2>1 DEF ImsgInv, Quiet
<1>7. CASE e = "agent"
  <2>1. Awaited' <=> Awaited
    BY <1>0, <1>2, <1>7 DEF Awaited
  <2> QED BY <1>3, <1>4, <2>1, QuietInv
<1>8. CASE b /\ e = "client"
  <2>1. Awaited' \/ call.type # "SEARCH"
    BY <1>2, <1>8 DEF AfterSend, Awaited
  <2> QED BY <1>3, <1>4, <2>1, QuietInv
<1> QED BY <1>6, <1>7, <1>8, BothEnds

LEMMA FlushedInv ==
  ASSUME ImsgInv, NEW e \in Ends, Flushed(e) PROVE ImsgInv' /\ Quiet
<1>1. /\ pc[e] = "flush" /\ w[e] = <<>> /\ Goto(e, AfterSend(e, TRUE))
      /\ UNCHANGED <<w, pipe, r, call, failed, freed>>
  BY DEF Flushed
<1>2. failed' \in BOOLEAN /\ (failed' = failed \/ failed')
  BY <1>1 DEF ImsgInv, Typed
<1> QED BY <1>1, <1>2, AfterSendMoves

LEMMA SendFailsInv ==
  ASSUME ImsgInv, NEW e \in Ends, SendFails(e) PROVE ImsgInv' /\ Quiet
<1>1. /\ pc[e] = "flush" /\ Goto(e, AfterSend(e, FALSE)) /\ UNCHANGED <<w, pipe, r, call, freed>> /\ failed' = TRUE
  BY DEF SendFails
<1>2. failed' \in BOOLEAN /\ (failed' = failed \/ failed') /\ failed'
  BY <1>1
<1> QED BY <1>1, <1>2, AfterSendMoves

\* An end that goes
LEMMA LeaveInv ==
  ASSUME ImsgInv, NEW e \in Ends, Gives(e) PROVE ImsgInv'
<1>1. Typed' /\ StreamsSound' /\ NothingLeft' /\ pc'[e] = "gone" /\ pc'[Peer(e)] = pc[Peer(e)]
  BY LeaveBreaks
<1>2. Turns'
  BY LeaveTurns
<1>3. AllDispatched'
  <2>0. "client" \in Ends /\ "agent" \in Ends /\ Peer("client") = "agent"
    BY PeerFacts DEF Ends
  <2>1. CASE e = "agent"
    BY <1>1, <2>1 DEF AllDispatched
  <2>2. CASE e = "client"
    <3>1. r' = [r EXCEPT !["client"] = <<>>]
      BY <2>2 DEF Gives, Forget
    <3>2. r'["agent"] = r["agent"]
      BY <2>0, <3>1 DEF ImsgInv, Typed
    <3> QED BY <1>1, <2>0, <2>2, <3>2, StillDispatched DEF ImsgInv
  <2> QED BY <2>1, <2>2, BothEnds
<1> QED BY <1>1, <1>2, <1>3 DEF ImsgInv

LEMMA BrokenPipeInv ==
  ASSUME ImsgInv, NEW e \in Ends, BrokenPipe(e)
  PROVE  ImsgInv' /\ (Quiet \/ Gives(e))
<1>1. CASE Leave(e)
  BY <1>1, LeaveGives, LeaveInv DEF ImsgInv
<1>2. CASE e = "agent" /\ Goto(e, AfterSend(e, FALSE)) /\ UNCHANGED <<w, pipe, r, call, failed, freed>>
  <2>1. pc[e] = "flush"
    BY DEF BrokenPipe
  <2>2. failed' \in BOOLEAN /\ (failed' = failed \/ failed')
    BY <1>2 DEF ImsgInv, Typed
  <2> QED BY <1>2, <2>1, <2>2, AfterSendMoves
<1> QED BY <1>1, <1>2 DEF BrokenPipe

LEMMA ReceiveInv ==
  ASSUME ImsgInv, Receive PROVE ImsgInv'
<1>0. "client" \in Ends /\ "agent" \in Ends
  BY DEF Ends
<1>1. /\ Typed' /\ StreamsSound' /\ NothingLeft'
      /\ pc' = [pc EXCEPT !["client"] = "idle"] /\ r'["agent"] = r["agent"]
  BY ReceiveTakes
<1>2. pc'["agent"] = pc["agent"]
  BY <1>0, <1>1 DEF ImsgInv, Typed
<1> QED BY <1>1, <1>2, ReceiveTurns, StillDispatched DEF ImsgInv

LEMMA ReceiveMoreInv ==
  ASSUME ImsgInv, ReceiveMore PROVE ImsgInv' /\ Quiet
<1>0. "client" \in Ends /\ "agent" \in Ends /\ Peer("client") = "agent"
  BY PeerFacts DEF Ends
<1>1. Read("client") /\ pc' = pc
  BY DEF ReceiveMore
<1>2. pc' \in [Ends -> Places] /\ SameUp /\ (Awaited' <=> Awaited)
  BY <1>1 DEF ImsgInv, Typed, SameUp, Places, Awaited
<1>3. Quiet /\ UNCHANGED <<w, call, failed, freed>>
  BY <1>0, <1>1, <1>2, ReadQuiet
<1>4. r'["agent"] = r["agent"]
  <2>1. \E t : r' = [r EXCEPT !["client"] = t]
    BY <1>1 DEF Read
  <2> QED BY <1>0, <2>1 DEF ImsgInv, Typed
<1> QED BY <1>1, <1>2, <1>3, <1>4, QuietInv

LEMMA ReceiveEofInv ==
  ASSUME ImsgInv, ReceiveEof PROVE ImsgInv' /\ Quiet
<1>0. "client" \in Ends /\ "agent" \in Ends
  BY DEF Ends
<1>1. /\ Quiet /\ Queue("client") = <<>> /\ Queue("agent") = <<>>
      /\ pc' = [pc EXCEPT !["client"] = "idle"]
      /\ UNCHANGED <<pipe, r, call, failed, freed>>
  BY EofEmpty
<1>2. pc'["agent"] = pc["agent"]
  BY <1>0, <1>1 DEF ImsgInv, Typed
<1>3. Turns'
  BY <1>1 DEF Turns, Quiet
<1> QED BY <1>1, <1>2, <1>3, StillDispatched DEF ImsgInv, Quiet

\* The command has sent its request whole, so imsg_clear takes nothing away.
LEMMA ReceiveFailsInv ==
  ASSUME ImsgInv, ReceiveFails PROVE ImsgInv' /\ Quiet
<1>0. "client" \in Ends /\ "agent" \in Ends /\ Peer("client") = "agent"
  BY PeerFacts DEF Ends
<1>1. /\ pc["client"] = "receive" /\ Goto("client", "idle") /\ failed' = TRUE
      /\ w' = [w EXCEPT !["client"] = <<>>] /\ UNCHANGED <<pipe, r, call, freed>>
  BY DEF ReceiveFails
<1>2. w' = w
  BY <1>0, <1>1 DEF ImsgInv, NothingLeft, Typed
<1>3. Moves("client", "idle")
  BY <1>1 DEF Moves, Goto, Places
<1>4. Quiet
  BY <1>0, <1>1, <1>2, <1>3, MoveQuiet
<1>5. pc'["agent"] = pc["agent"]
  BY <1>0, <1>3, MoveFacts DEF ImsgInv
<1>6. Turns'
  BY <1>1 DEF Turns
<1> QED BY <1>1, <1>4, <1>5, <1>6, StillDispatched DEF ImsgInv, Quiet

LEMMA PollFailsInv ==
  ASSUME ImsgInv, PollFails PROVE ImsgInv' /\ Gives("agent")
<1>1. Gives("agent")
  BY DEF PollFails, FreeConn, Gives
<1> QED BY <1>1, LeaveInv DEF Ends

LEMMA PollInv ==
  ASSUME ImsgInv, Poll PROVE ImsgInv' /\ (Quiet \/ Gives("agent"))
<1>0. "client" \in Ends /\ "agent" \in Ends /\ Peer("agent") = "client"
  BY PeerFacts DEF Ends
<1>1. CASE FreeConn /\ UNCHANGED failed
  <2>1. Gives("agent")
    BY <1>1 DEF FreeConn, Gives, ImsgInv, Typed
  <2> QED BY <1>0, <2>1, LeaveInv
<1>2. CASE Read("agent") /\ Goto("agent", "dispatch")
  <2>1. Moves("agent", "dispatch")
    BY <1>2 DEF Poll, Moves, Goto, Places
  <2>2. /\ pc' \in [Ends -> Places] /\ SameUp
        /\ pc'["agent"] = "dispatch" /\ pc'["client"] = pc["client"]
    BY <1>0, <2>1, MoveFacts DEF ImsgInv
  <2>3. \A f \in Ends : pc'[f] = "receive" => pc[f] = "receive"
    BY <2>2, BothEnds
  <2>4. Quiet /\ UNCHANGED <<w, call, failed, freed>>
    BY <1>0, <1>2, <2>2, <2>3, ReadQuiet
  <2>5. Awaited' <=> Awaited
    BY <2>2 DEF Awaited
  <2> QED BY <2>2, <2>4, <2>5, QuietInv
<1> QED BY <1>1, <1>2 DEF Poll

LEMMA DispatchInv ==
  ASSUME ImsgInv, Dispatch PROVE ImsgInv'
<1>1. /\ Typed' /\ StreamsSound' /\ NothingLeft' /\ pc'["agent"] # "poll"
  BY DispatchTakes
<1>2. AllDispatched'
  BY <1>1 DEF AllDispatched
<1> QED BY <1>1, <1>2, DispatchTurns DEF ImsgInv

LEMMA DispatchEndInv ==
  ASSUME ImsgInv, DispatchEnd PROVE ImsgInv' /\ Quiet
<1>0. "client" \in Ends /\ "agent" \in Ends /\ Peer("agent") = "client"
  BY PeerFacts DEF Ends
<1>1. /\ pc["agent"] = "dispatch" /\ ~HasMessage("agent") /\ Goto("agent", "poll")
      /\ UNCHANGED <<w, pipe, r, call, failed, freed>>
  BY DEF DispatchEnd
<1>2. Moves("agent", "poll")
  BY <1>1 DEF Moves, Goto, Places
<1>3. pc'["client"] = pc["client"]
  BY <1>0, <1>2, MoveFacts DEF ImsgInv
<1>4. failed' \in BOOLEAN
  BY <1>1 DEF ImsgInv, Typed
<1>5. Quiet
  BY <1>0, <1>1, <1>2, <1>4, MoveQuiet
<1>6. pc["client"] = "gone" => pc'["client"] = "gone"
  BY <1>3
<1>7. Awaited' <=> Awaited
  BY <1>3 DEF Awaited
<1>8. Turns'
  BY <1>1, <1>5, <1>6, <1>7, QuietTurns DEF ImsgInv
<1>9. AllDispatched'
  BY <1>1 DEF AllDispatched, HasMessage
<1> QED BY <1>5, <1>8, <1>9 DEF ImsgInv, Quiet

LEMMA CallInv ==
  ASSUME ImsgInv, Call PROVE ImsgInv'
<1>0. "client" \in Ends /\ "agent" \in Ends
  BY DEF Ends
<1>1. /\ Typed' /\ StreamsSound' /\ NothingLeft'
      /\ pc' = [pc EXCEPT !["client"] = "flush"] /\ UNCHANGED r
  BY CallPuts
<1>2. pc'["agent"] = pc["agent"]
  BY <1>0, <1>1 DEF ImsgInv, Typed
<1> QED BY <1>1, <1>2, CallTurns, StillDispatched DEF ImsgInv

LEMMA StutterInv ==
  ASSUME ImsgInv, UNCHANGED imsgVars PROVE ImsgInv' /\ Quiet
<1>1. SameUp /\ Typed' /\ NothingLeft' /\ (Awaited' <=> Awaited)
  BY DEF imsgVars, SameUp, ImsgInv, Typed, NothingLeft, Awaited
<1>2. \A e \in Ends : Stream(e)' = Stream(e)
  BY StreamFlow DEF imsgVars
<1>3. Quiet
  BY <1>1, <1>2, QuietFlow DEF ImsgInv
<1> QED BY <1>1, <1>3, QuietInv DEF imsgVars

\* What a step does to the two directions: nothing; one of the five that do
StepKinds ==
  \/ Quiet
  \/ Receive \/ Dispatch \/ Call
  \/ \E e \in Ends : Gives(e)

LEMMA InvStep == ASSUME ImsgInv, [ImsgNext]_imsgVars PROVE ImsgInv' /\ StepKinds
<1>0. "client" \in Ends /\ "agent" \in Ends
  BY DEF Ends
<1>1. CASE UNCHANGED imsgVars
  BY <1>1, StutterInv DEF StepKinds
<1>2. CASE Client
  <2>1. CASE SendPiece("client")
    BY <1>0, <2>1, SendPieceInv DEF StepKinds
  <2>2. CASE Flushed("client")
    BY <1>0, <2>2, FlushedInv DEF StepKinds
  <2>3. CASE BrokenPipe("client")
    BY <1>0, <2>3, BrokenPipeInv DEF StepKinds
  <2>4. CASE Receive
    BY <2>4, ReceiveInv DEF StepKinds
  <2>5. CASE ReceiveMore
    BY <2>5, ReceiveMoreInv DEF StepKinds
  <2>6. CASE ReceiveEof
    BY <2>6, ReceiveEofInv DEF StepKinds
  <2> QED BY <1>2, <2>1, <2>2, <2>3, <2>4, <2>5, <2>6 DEF Client
<1>3. CASE Agent
  <2>1. CASE SendPiece("agent")
    BY <1>0, <2>1, SendPieceInv DEF StepKinds
  <2>2. CASE Flushed("agent")
    BY <1>0, <2>2, FlushedInv DEF StepKinds
  <2>3. CASE BrokenPipe("agent")
    BY <1>0, <2>3, BrokenPipeInv DEF StepKinds
  <2>4. CASE Poll
    BY <1>0, <2>4, PollInv DEF StepKinds
  <2>5. CASE Dispatch
    BY <2>5, DispatchInv DEF StepKinds
  <2>6. CASE DispatchEnd
    BY <2>6, DispatchEndInv DEF StepKinds
  <2> QED BY <1>3, <2>1, <2>2, <2>3, <2>4, <2>5, <2>6 DEF Agent
<1>4. CASE Call
  BY <1>4, CallInv DEF StepKinds
<1>5. ASSUME NEW e \in Ends, SendFails(e) PROVE ImsgInv' /\ StepKinds
  BY <1>5, SendFailsInv DEF StepKinds
<1>6. CASE ReceiveFails
  BY <1>6, ReceiveFailsInv DEF StepKinds
<1>7. CASE PollFails
  BY <1>0, <1>7, PollFailsInv DEF StepKinds
<1>8. ASSUME NEW e \in Ends, Quit(e) PROVE ImsgInv' /\ StepKinds
  <2>1. Gives(e)
    BY <1>8, LeaveGives DEF Quit, ImsgInv
  <2> QED BY <2>1, LeaveInv DEF StepKinds
<1> QED BY <1>1, <1>2, <1>3, <1>4, <1>5, <1>6, <1>7, <1>8 DEF ImsgNext, Fail

-----------------------------------------------------------------------------
(* The theorems                                                             *)

\* The inductive invariant: what an end has sent and its peer can still take is
\* a row of whole messages, and the answers keep their turns.
THEOREM SpecInv == ImsgSpec => []ImsgInv
<1>1. ImsgInv /\ [ImsgNext]_imsgVars => ImsgInv'
  BY InvStep
<1> QED BY InvInit, <1>1, PTL DEF ImsgSpec

\* The queues, the buffers and the kernel's pieces are what imsg.c has them be;
\* in particular neither the kernel nor the read buffer ever overflows.
THEOREM ImsgTypes == ImsgSpec => []ImsgTypeOK
<1>1. ImsgInv => ImsgTypeOK
  BY TypedType DEF ImsgInv
<1> QED BY SpecInv, <1>1, PTL

\* imsg_get finds a header at the start of the buffer, however the bytes of the
\* messages were cut into pieces by sendmsg and recvmsg, and whatever failed.
THEOREM StreamsFramed == ImsgSpec => []Framed
<1>1. ASSUME ImsgInv PROVE Framed
  <2>1. ASSUME NEW e \in Ends, pc[Peer(e)] # "gone" PROVE Row(Stream(e))
    BY <1>1, <2>1, SoundRow DEF ImsgInv, StreamsSound, SoundAt
  <2> QED BY <2>1 DEF Framed, Row
<1> QED BY SpecInv, <1>1, PTL

\* imsg_read never asks for 0 bytes, which it would take for the end of the
\* connection.
THEOREM ReadsHaveRoom == ImsgSpec => []RoomToRead
<1>1. ASSUME ImsgInv PROVE RoomToRead
  <2>0. "client" \in Ends /\ "agent" \in Ends /\ Peer("client") = "agent" /\ Peer("agent") = "client"
    BY PeerFacts DEF Ends
  <2>1. ASSUME pc["agent"] = "poll" PROVE Len(r["agent"]) < BufSize
    <3>1. Sound(Stream("client")) /\ ~HasMessage("agent")
      BY <1>1, <2>0, <2>1 DEF ImsgInv, StreamsSound, SoundAt, AllDispatched
    <3> QED BY <1>1, <2>0, <3>1, MessageFound DEF ImsgInv
  <2>2. ASSUME pc["client"] = "receive", ~HasMessage("client") PROVE Len(r["client"]) < BufSize
    <3>1. Sound(Stream("agent"))
      BY <1>1, <2>0, <2>2 DEF ImsgInv, StreamsSound, SoundAt
    <3> QED BY <1>1, <2>0, <2>2, <3>1, MessageFound DEF ImsgInv
  <2> QED BY <2>1, <2>2 DEF RoomToRead
<1> QED BY SpecInv, <1>1, PTL

\* The answer the command takes is the one to its last request: while no sendmsg
\* and no imsg_read has failed there is never another.
THEOREM AnswersInTurn == ImsgSpec => []OneAnswer
<1>1. ASSUME ImsgInv PROVE OneAnswer
  <2>1. SUFFICES ASSUME ~failed, pc["client"] # "gone" PROVE OneAnswer
    BY DEF OneAnswer
  <2>2. PICK q \in Seq(Message) : q = Queue("agent")
    BY <1>1, QueueType DEF ImsgInv, Ends
  <2>3. CASE q = <<>>
    <3>1. Len(q) <= 1 /\ ToSet(q) = {}
      BY <2>3 DEF ToSet
    <3> QED BY <2>2, <3>1 DEF OneAnswer
  <2>4. CASE q # <<>>
    <3>1. Len(q) = 1 /\ q[1].serial = call.serial /\ Awaited
      BY <1>1, <2>1, <2>2, <2>4 DEF ImsgInv, Turns
    <3>2. ToSet(q) = {q[1]} /\ Len(q) <= 1
      BY <3>1 DEF ToSet
    <3>3. pc["client"] # "idle"
      BY <3>1 DEF Awaited
    <3> QED BY <2>2, <3>1, <3>2, <3>3 DEF OneAnswer
  <2> QED BY <2>3, <2>4
<1> QED BY SpecInv, <1>1, PTL

-----------------------------------------------------------------------------
(* Each direction is a channel                                              *)

Puts(e)   == \E m \in Message : Queue(e)' = Append(Queue(e), m)
Takes(e)  == Queue(e) # <<>> /\ Queue(e)' = Tail(Queue(e))
Breaks(e) == Queue(e)' \in Seq(Message) /\ \E z \in Seq(Message) : Queue(e) = Joined(Queue(e)', z)

\* A step of the channel from e, and whether both ends are there
Channel(e) ==
  \/ Up' = Up /\ (Queue(e)' = Queue(e) \/ Puts(e) \/ Takes(e))
  \/ Up' = FALSE /\ Breaks(e)

LEMMA UpKept == ASSUME SameUp PROVE Up' = Up
BY DEF SameUp, Up

LEMMA ChannelStep ==
  ASSUME ImsgInv, StepKinds, NEW e \in Ends
  PROVE  Channel(e)
<1>0. "client" \in Ends /\ "agent" \in Ends /\ Peer("client") = "agent" /\ Peer("agent") = "client"
  BY PeerFacts DEF Ends
<1>1. CASE Quiet
  <2>1. Up' = Up
    BY <1>1, UpKept DEF Quiet
  <2>2. Queue(e)' = Queue(e)
    BY <1>1, BothEnds DEF Quiet
  <2> QED BY <2>1, <2>2 DEF Channel
<1>2. CASE Receive
  <2>1. SameUp /\ Queue("client")' = Queue("client") /\ \E m : Took("client", m)
    BY <1>2, ReceiveTakes
  <2>2. Up' = Up
    BY <2>1, UpKept
  <2>3. Takes("agent")
    BY <1>0, <2>1 DEF Took, Takes
  <2> QED BY <2>1, <2>2, <2>3, BothEnds DEF Channel
<1>3. CASE Dispatch
  <2>1. SameUp /\ \E m : Took("agent", m) /\ Answered(m)
    BY <1>3, DispatchTakes
  <2>2. Up' = Up
    BY <2>1, UpKept
  <2>3. Takes("client")
    BY <1>0, <2>1 DEF Took, Takes
  <2>4. Queue("agent")' = Queue("agent") \/ Puts("agent")
    BY <2>1 DEF Answered, Puts
  <2> QED BY <2>2, <2>3, <2>4, BothEnds DEF Channel
<1>4. CASE Call
  <2>1. /\ SameUp /\ call' \in Message
        /\ pc["agent"] # "gone" => Queue("client")' = Append(Queue("client"), call')
        /\ pc["agent"] = "gone" => Queue("client")' = Queue("client")
        /\ Queue("agent")' = Queue("agent")
    BY <1>4, CallPuts
  <2>2. Up' = Up
    BY <2>1, UpKept
  <2>3. Queue("client")' = Queue("client") \/ Puts("client")
    BY <2>1 DEF Puts
  <2> QED BY <2>1, <2>2, <2>3, BothEnds DEF Channel
<1>5. ASSUME NEW f \in Ends, Gives(f) PROVE Channel(e)
  <2>1. /\ pc'[f] = "gone" /\ Queue(Peer(f))' = <<>> /\ Queue(f)' \in Seq(Message)
        /\ \E z \in Seq(Message) : Queue(f) = Joined(Queue(f)', z)
    BY <1>5, LeaveBreaks
  <2>2. Up' = FALSE
    BY <2>1 DEF Up
  <2>3. Breaks(f)
    BY <2>1 DEF Breaks
  <2>4. Breaks(Peer(f))
    <3>1. PICK q \in Seq(Message) : q = Queue(Peer(f))
      BY QueueType, PeerFacts DEF ImsgInv
    <3>2. q = Joined(<<>>, q) /\ <<>> \in Seq(Message)
      BY JoinedFacts, EmptySeq
    <3> QED BY <2>1, <3>1, <3>2 DEF Breaks
  <2>5. e = f \/ e = Peer(f)
    BY PeerFacts DEF Ends
  <2> QED BY <2>2, <2>3, <2>4, <2>5 DEF Channel
<1> QED BY <1>1, <1>2, <1>3, <1>4, <1>5 DEF StepKinds

\* What the channel of MessageChannel asks of a row that grows
LEMMA AppendFacts ==
  ASSUME NEW S, NEW q \in Seq(S), NEW m \in S
  PROVE  /\ Len(Append(q, m)) = Len(q) + 1 /\ IsPrefix(q, Append(q, m))
         /\ Append(q, m)[Len(Append(q, m))] = m
<1>1. PICK o \in Seq(S) : o = <<m>>
  <2>1. <<m>> \in Seq(S)
    OBVIOUS
  <2> QED BY <2>1
<1>2. Append(q, m) = Joined(q, o)
  BY <1>1, AppendIsConcat DEF Joined
<1>3. IsPrefix(q, Joined(q, o))
  BY PrefixJoined
<1>4. Len(Append(q, m)) = Len(q) + 1 /\ Append(q, m)[Len(q) + 1] = m
  OBVIOUS
<1> QED BY <1>2, <1>3, <1>4

LEMMA ToAgentStep == ASSUME ImsgInv, Channel("client") PROVE [ToAgent!Next]_(ToAgent!channel)
<1>1. PICK q \in Seq(Message) : q = Queue("client")
  BY QueueType DEF ImsgInv, Ends
<1>2. CASE Up' = Up /\ Queue("client")' = Queue("client")
  BY <1>2 DEF ToAgent!channel
<1>3. CASE Up' = Up /\ Puts("client")
  <2>1. PICK m \in Message : Queue("client")' = Append(q, m)
    BY <1>1, <1>3 DEF Puts
  <2>2. /\ Len(Append(q, m)) = Len(q) + 1 /\ IsPrefix(q, Append(q, m))
        /\ Append(q, m)[Len(Append(q, m))] = m
    BY AppendFacts
  <2>3. ToAgent!Put
    BY <1>1, <1>3, <2>1, <2>2 DEF ToAgent!Put, ToAgent!IsPrefix, ToAgent!Last, IsPrefix, Last
  <2> QED BY <2>3 DEF ToAgent!Next
<1>4. CASE Up' = Up /\ Takes("client")
  <2>1. ToAgent!Take
    BY <1>4 DEF ToAgent!Take, Takes
  <2> QED BY <2>1 DEF ToAgent!Next
<1>5. CASE Up' = FALSE /\ Breaks("client")
  <2>1. PICK p \in Seq(Message) : p = Queue("client")'
    BY <1>5 DEF Breaks
  <2>2. PICK z \in Seq(Message) : q = Joined(p, z)
    BY <1>1, <1>5, <2>1 DEF Breaks
  <2>3. IsPrefix(p, q)
    BY <2>2, PrefixJoined
  <2>4. ToAgent!Break
    BY <1>1, <1>5, <2>1, <2>3 DEF ToAgent!Break, ToAgent!IsPrefix, IsPrefix
  <2> QED BY <2>4 DEF ToAgent!Next
<1> QED BY <1>2, <1>3, <1>4, <1>5 DEF Channel

LEMMA ToClientStep == ASSUME ImsgInv, Channel("agent") PROVE [ToClient!Next]_(ToClient!channel)
<1>1. PICK q \in Seq(Message) : q = Queue("agent")
  BY QueueType DEF ImsgInv, Ends
<1>2. CASE Up' = Up /\ Queue("agent")' = Queue("agent")
  BY <1>2 DEF ToClient!channel
<1>3. CASE Up' = Up /\ Puts("agent")
  <2>1. PICK m \in Message : Queue("agent")' = Append(q, m)
    BY <1>1, <1>3 DEF Puts
  <2>2. /\ Len(Append(q, m)) = Len(q) + 1 /\ IsPrefix(q, Append(q, m))
        /\ Append(q, m)[Len(Append(q, m))] = m
    BY AppendFacts
  <2>3. ToClient!Put
    BY <1>1, <1>3, <2>1, <2>2 DEF ToClient!Put, ToClient!IsPrefix, ToClient!Last, IsPrefix, Last
  <2> QED BY <2>3 DEF ToClient!Next
<1>4. CASE Up' = Up /\ Takes("agent")
  <2>1. ToClient!Take
    BY <1>4 DEF ToClient!Take, Takes
  <2> QED BY <2>1 DEF ToClient!Next
<1>5. CASE Up' = FALSE /\ Breaks("agent")
  <2>1. PICK p \in Seq(Message) : p = Queue("agent")'
    BY <1>5 DEF Breaks
  <2>2. PICK z \in Seq(Message) : q = Joined(p, z)
    BY <1>1, <1>5, <2>1 DEF Breaks
  <2>3. IsPrefix(p, q)
    BY <2>2, PrefixJoined
  <2>4. ToClient!Break
    BY <1>1, <1>5, <2>1, <2>3 DEF ToClient!Break, ToClient!IsPrefix, IsPrefix
  <2> QED BY <2>4 DEF ToClient!Next
<1> QED BY <1>2, <1>3, <1>4, <1>5 DEF Channel

LEMMA ChannelsInit == ASSUME ImsgInit PROVE ToAgent!Init /\ ToClient!Init
<1>1. Up = TRUE
  BY DEF ImsgInit, Up, Ends
<1>2. ASSUME NEW e \in Ends PROVE Queue(e) = <<>>
  <2>0. Peer(e) \in Ends
    BY PeerFacts
  <2>1. Stream(e) = Flow(<<>>, <<>>, <<>>)
    BY <2>0, StreamFlow DEF ImsgInit
  <2>2. PICK x \in Seq(Byte) : x = <<>>
    BY EmptySeq
  <2>3. Joined(x, x) = x /\ Joined(Joined(x, x), x) = x
    BY <2>2, JoinedFacts
  <2>4. Stream(e) = <<>>
    BY <2>1, <2>2, <2>3, RestFacts DEF Flow
  <2> QED BY <2>4, WholeEmpty DEF Queue
<1> QED BY <1>1, <1>2 DEF ToAgent!Init, ToClient!Init, Ends

\* Under imsg_compose, imsg_flush, imsg_read and imsg_get each direction of a
\* connection is a channel of whole messages: each once, in their order, and none
\* lost but the last when an end goes.
THEOREM ImsgImplementsChannels == ImsgSpec => ImplementsChannels
<1>1. ImsgInv /\ [ImsgNext]_imsgVars => [ToAgent!Next]_(ToAgent!channel) /\ [ToClient!Next]_(ToClient!channel)
  <2>1. SUFFICES ASSUME ImsgInv, [ImsgNext]_imsgVars
                 PROVE  [ToAgent!Next]_(ToAgent!channel) /\ [ToClient!Next]_(ToClient!channel)
    OBVIOUS
  <2>2. StepKinds
    BY <2>1, InvStep
  <2>3. Channel("client") /\ Channel("agent")
    BY <2>1, <2>2, ChannelStep DEF Ends
  <2> QED BY <2>1, <2>3, ToAgentStep, ToClientStep
<1>2. ImsgInit => ToAgent!Init /\ ToClient!Init
  BY ChannelsInit
<1> QED BY SpecInv, <1>1, <1>2, PTL DEF ImsgSpec, ImplementsChannels, ToAgent!Spec, ToClient!Spec
=============================================================================
