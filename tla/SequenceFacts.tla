---------------------------- MODULE SequenceFacts ----------------------------
(***************************************************************************)
(* Facts about naturals and sequences that the proofs of several           *)
(* components need.                                                        *)
(***************************************************************************)
EXTENDS Integers, Sequences, SequencesExt, TLAPS, WellFoundedInduction, SequenceTheorems

(***************************************************************************)
(* A non-empty set of naturals has a minimum, and Min is it.               *)
(***************************************************************************)
LEMMA MinNat ==
    ASSUME NEW T \in SUBSET Nat, T # {}
    PROVE  Min(T) \in T /\ \A t \in T : Min(T) <= t
<1>1. PICK x \in T : \A y \in T : ~(<<y, x>> \in OpToRel(<, Nat))
  BY NatLessThanWellFounded, WFMin
<1>2. ASSUME NEW y \in T PROVE x <= y
  <2>1. ~(<<y, x>> \in OpToRel(<, Nat))
    BY <1>1
  <2>2. <<y, x>> \in Nat \X Nat
    OBVIOUS
  <2>3. ~(y < x)
    BY <2>1, <2>2 DEF OpToRel
  <2> QED
    BY <2>3
<1> QED
  BY <1>2 DEF Min

(***************************************************************************)
(* A number that is a minimum is Min.                                      *)
(***************************************************************************)
LEMMA MinIs ==
    ASSUME NEW T \in SUBSET Nat, NEW m \in T, \A t \in T : m <= t
    PROVE  Min(T) = m
<1>1. Min(T) \in T /\ Min(T) <= m
  BY MinNat
<1>2. m <= Min(T) /\ m \in Nat /\ Min(T) \in Nat
  BY <1>1
<1> QED
  BY <1>1, <1>2

(***************************************************************************)
(* Induction over a set: one that has 0 and with each natural the next one *)
(* has all of them.                                                        *)
(***************************************************************************)
LEMMA NatSetInduction ==
    ASSUME NEW T, 0 \in T, \A n \in Nat : n \in T => n + 1 \in T
    PROVE  \A n \in Nat : n \in T
<1> DEFINE U == {n \in Nat : n \notin T}
<1> SUFFICES ASSUME U # {} PROVE FALSE
  OBVIOUS
<1>1. Min(U) \in U /\ \A u \in U : Min(U) <= u
  BY MinNat
<1> DEFINE m == Min(U) - 1
<1>2. m \in Nat /\ m \notin U /\ m + 1 \in U
  <2>1. Min(U) \in Nat /\ Min(U) # 0
    BY <1>1
  <2> HIDE DEF U
  <2> QED
    BY <1>1, <2>1
<1>3. m \in T
  BY <1>2
<1>4. m + 1 \in T
  BY <1>2, <1>3
<1> QED
  BY <1>2, <1>4

-----------------------------------------------------------------------------
(***************************************************************************)
(* The result of an insertion, element by element.                         *)
(***************************************************************************)
LEMMA InsertAtFacts ==
    ASSUME NEW S, NEW s \in Seq(S), NEW p \in 1..Len(s) + 1, NEW e \in S
    PROVE  /\ InsertAt(s, p, e) \in Seq(S)
           /\ Len(InsertAt(s, p, e)) = Len(s) + 1
           /\ \A j \in 1..Len(s) + 1 :
                 InsertAt(s, p, e)[j] =
                     IF j < p THEN s[j] ELSE IF j = p THEN e ELSE s[j - 1]
<1> DEFINE a == SubSeq(s, 1, p - 1)
           b == SubSeq(s, p, Len(s))
           c == a \o <<e>>
<1>1. a \in Seq(S) /\ Len(a) = p - 1 /\ \A j \in 1..p - 1 : a[j] = s[j]
  OBVIOUS
<1>2. /\ b \in Seq(S) /\ Len(b) = Len(s) - p + 1
      /\ \A j \in 1..Len(s) - p + 1 : b[j] = s[p + j - 1]
  OBVIOUS
<1>3. <<e>> \in Seq(S) /\ Len(<<e>>) = 1 /\ <<e>>[1] = e
  OBVIOUS
<1>4. InsertAt(s, p, e) = c \o b
  BY DEF InsertAt
<1>5. /\ c \in Seq(S) /\ Len(c) = p
      /\ \A j \in 1..p : c[j] = IF j < p THEN s[j] ELSE e
  <2> HIDE DEF a
  <2> QED
    BY <1>1, <1>3
<1> HIDE DEF a, b, c
<1>6. c \o b \in Seq(S) /\ Len(c \o b) = Len(c) + Len(b)
  BY <1>2, <1>5, ConcatProperties
<1>7. Len(c \o b) = Len(s) + 1
  BY <1>2, <1>5, <1>6, LenProperties
<1>8. ASSUME NEW j \in 1..Len(s) + 1
      PROVE  (c \o b)[j] = IF j < p THEN s[j] ELSE IF j = p THEN e ELSE s[j - 1]
  BY <1>2, <1>5
<1> QED
  BY <1>4, <1>6, <1>7, <1>8

\* One element of the result.
LEMMA InsertAtElement ==
    ASSUME NEW S, NEW s \in Seq(S), NEW p \in 1..Len(s) + 1, NEW e \in S,
           NEW j \in 1..Len(s) + 1
    PROVE  InsertAt(s, p, e)[j] = IF j < p THEN s[j] ELSE IF j = p THEN e ELSE s[j - 1]
<1> DEFINE P(i) == InsertAt(s, p, e)[i] = IF i < p THEN s[i] ELSE IF i = p THEN e ELSE s[i - 1]
<1>1. \A i \in 1..Len(s) + 1 : P(i)
  BY InsertAtFacts, SMTT(60)
<1> HIDE DEF P
<1>2. P(j)
  BY <1>1
<1> QED
  BY <1>2 DEF P

LEMMA InsertAtCases ==
    ASSUME NEW S, NEW s \in Seq(S), NEW p \in 1..Len(s) + 1, NEW e \in S,
           NEW j \in 1..Len(s) + 1
    PROVE  /\ j < p => InsertAt(s, p, e)[j] = s[j]
           /\ j = p => InsertAt(s, p, e)[j] = e
           /\ j > p => InsertAt(s, p, e)[j] = s[j - 1]
<1> DEFINE x == InsertAt(s, p, e)[j]
<1>1. x = IF j < p THEN s[j] ELSE IF j = p THEN e ELSE s[j - 1]
  BY InsertAtElement
<1> HIDE DEF x
<1>2. /\ j < p => x = s[j]
      /\ j = p => x = e
      /\ j > p => x = s[j - 1]
  BY <1>1
<1> QED
  BY <1>2 DEF x

(***************************************************************************)
(* The result of a removal, element by element.                            *)
(***************************************************************************)
LEMMA RemoveAtFacts ==
    ASSUME NEW S, NEW s \in Seq(S), NEW p \in 1..Len(s)
    PROVE  /\ RemoveAt(s, p) \in Seq(S)
           /\ Len(RemoveAt(s, p)) = Len(s) - 1
           /\ \A j \in 1..Len(s) - 1 :
                 RemoveAt(s, p)[j] = IF j < p THEN s[j] ELSE s[j + 1]
<1> DEFINE a == SubSeq(s, 1, p - 1)
           b == SubSeq(s, p + 1, Len(s))
<1>1. a \in Seq(S) /\ Len(a) = p - 1 /\ \A j \in 1..p - 1 : a[j] = s[j]
  OBVIOUS
<1>2. /\ b \in Seq(S) /\ Len(b) = Len(s) - p
      /\ \A j \in 1..Len(s) - p : b[j] = s[p + j]
  OBVIOUS
<1>3. RemoveAt(s, p) = a \o b
  BY DEF RemoveAt
<1> HIDE DEF a, b
<1>4. a \o b \in Seq(S) /\ Len(a \o b) = Len(a) + Len(b)
  BY <1>1, <1>2, ConcatProperties
<1>5. Len(a \o b) = Len(s) - 1
  BY <1>1, <1>2, <1>4, LenProperties
<1>6. ASSUME NEW j \in 1..Len(s) - 1
      PROVE  (a \o b)[j] = IF j < p THEN s[j] ELSE s[j + 1]
  BY <1>1, <1>2, ConcatProperties
<1> QED
  BY <1>3, <1>4, <1>5, <1>6

-----------------------------------------------------------------------------
\* The function in the definition of FlattenSeq.
IsFlat(f, s) == f = [i \in 1..Len(s) |-> IF i = 1 THEN s[i] ELSE f[i - 1] \o s[i]]

LEMMA FlatExists ==
    ASSUME NEW S, NEW s \in Seq(Seq(S))
    PROVE  \E f \in [1..Len(s) -> Seq(S)] : IsFlat(f, s)
<1> DEFINE Flat(f, n) == \A i \in 1..n : f[i] = IF i = 1 THEN s[i] ELSE f[i - 1] \o s[i]
           T == {n \in Nat : n <= Len(s) => \E f \in [1..n -> Seq(S)] : Flat(f, n)}
<1>1. 0 \in T
  <2>1. [i \in 1..0 |-> <<>>] \in [1..0 -> Seq(S)] /\ 1..0 = {}
    OBVIOUS
  <2> QED
    BY <2>1
<1>2. ASSUME NEW n \in Nat, n \in T PROVE n + 1 \in T
  <2> HIDE DEF Flat
  <2> SUFFICES ASSUME n + 1 <= Len(s)
               PROVE  \E f \in [1..(n + 1) -> Seq(S)] : Flat(f, n + 1)
    OBVIOUS
  <2>0. n <= Len(s)
    OBVIOUS
  <2>1. PICK f \in [1..n -> Seq(S)] : Flat(f, n)
    BY <1>2, <2>0
  <2> USE DEF Flat
  <2> DEFINE g == [i \in 1..(n + 1) |->
                     IF i <= n THEN f[i] ELSE IF i = 1 THEN s[i] ELSE f[i - 1] \o s[i]]
  <2>2. \A i \in 1..(n + 1) : s[i] \in Seq(S)
    OBVIOUS
  <2>3. ASSUME NEW i \in 1..(n + 1)
        PROVE  g[i] \in Seq(S) /\ g[i] = IF i = 1 THEN s[i] ELSE g[i - 1] \o s[i]
    <3>1. CASE i <= n
      <4>1. g[i] = f[i] /\ (i # 1 => g[i - 1] = f[i - 1])
        BY <3>1
      <4>2. f[i] = IF i = 1 THEN s[i] ELSE f[i - 1] \o s[i]
        <5>1. i \in 1..n
          BY <3>1
        <5> HIDE DEF g, T
        <5> QED
          BY <2>1, <5>1
      <4>3. f[i] \in Seq(S)
        BY <3>1
      <4> HIDE DEF g
      <4> QED
        BY <4>1, <4>2, <4>3
    <3>2. CASE i = n + 1 /\ i = 1
      BY <2>2, <3>2
    <3>3. CASE i = n + 1 /\ i # 1
      <4>1. i - 1 \in 1..n /\ f[i - 1] \in Seq(S) /\ s[i] \in Seq(S)
        BY <2>2, <3>3
      <4>2. g[i] = f[i - 1] \o s[i] /\ g[i - 1] = f[i - 1]
        BY <3>3, <4>1
      <4>3. f[i - 1] \o s[i] \in Seq(S)
        BY <4>1, ConcatProperties
      <4> QED
        BY <3>3, <4>2, <4>3
    <3> QED
      BY <3>1, <3>2, <3>3
  <2>4. g \in [1..(n + 1) -> Seq(S)]
    BY <2>3
  <2> HIDE DEF g
  <2> QED
    BY <2>3, <2>4
<1>3. \A n \in Nat : n \in T
  <2> HIDE DEF T
  <2> QED
    BY <1>1, <1>2, NatSetInduction
<1>4. PICK f \in [1..Len(s) -> Seq(S)] : Flat(f, Len(s))
  <2>1. Len(s) \in Nat /\ Len(s) <= Len(s)
    OBVIOUS
  <2> HIDE DEF Flat
  <2> QED
    BY <1>3, <2>1
<1>5. f = [i \in 1..Len(s) |-> IF i = 1 THEN s[i] ELSE f[i - 1] \o s[i]]
  BY <1>4
<1> QED
  BY <1>4, <1>5 DEF IsFlat

(***************************************************************************)
(* FlattenSeq of no sequence is empty, and with each one it has this one   *)
(* behind it.                                                              *)
(***************************************************************************)
LEMMA FlattenEmpty == FlattenSeq(<<>>) = <<>>
  BY DEF FlattenSeq

LEMMA FlattenAppend ==
    ASSUME NEW S, NEW s \in Seq(Seq(S)), NEW x \in Seq(S)
    PROVE  /\ FlattenSeq(s) \in Seq(S)
           /\ FlattenSeq(Append(s, x)) = FlattenSeq(s) \o x
<1> DEFINE t == Append(s, x)
           f == CHOOSE f : IsFlat(f, s)
           g == CHOOSE g : IsFlat(g, t)
           n == Len(s)
<1>1. t \in Seq(Seq(S)) /\ Len(t) = n + 1 /\ t[n + 1] = x /\ \A i \in 1..n : t[i] = s[i]
  OBVIOUS
<1> HIDE DEF t
<1>2. IsFlat(f, s) /\ IsFlat(g, t)
  BY <1>1, FlatExists
<1>3. FlattenSeq(t) = g[n + 1]
  BY <1>1 DEF FlattenSeq, IsFlat
<1>4. n # 0 => FlattenSeq(s) = f[n]
  BY DEF FlattenSeq, IsFlat
<1> HIDE DEF f, g
<1>5. /\ \A i \in 1..n : f[i] = IF i = 1 THEN s[i] ELSE f[i - 1] \o s[i]
      /\ \A i \in 1..(n + 1) : g[i] = IF i = 1 THEN t[i] ELSE g[i - 1] \o t[i]
  BY <1>1, <1>2 DEF IsFlat
<1> DEFINE T == {k \in Nat : k \in 1..n => f[k] = g[k] /\ f[k] \in Seq(S)}
<1>6. \A k \in Nat : k \in T
  <2>1. 0 \in T
    OBVIOUS
  <2>2. ASSUME NEW k \in Nat, k \in T PROVE k + 1 \in T
    <3> SUFFICES ASSUME k + 1 \in 1..n
                 PROVE  f[k + 1] = g[k + 1] /\ f[k + 1] \in Seq(S)
      OBVIOUS
    <3>1. t[k + 1] = s[k + 1] /\ s[k + 1] \in Seq(S)
      BY <1>1
    <3>2. CASE k = 0
      BY <1>5, <3>1, <3>2
    <3>3. CASE k # 0
      <4>1. k \in 1..n /\ f[k] = g[k] /\ f[k] \in Seq(S)
        BY <2>2, <3>3
      <4>2. f[k + 1] = f[k] \o s[k + 1] /\ g[k + 1] = g[k] \o t[k + 1]
        <5>1. k + 1 \in 1..n /\ k + 1 \in 1..(n + 1) /\ k + 1 # 1 /\ (k + 1) - 1 = k
          BY <3>3
        <5> QED
          BY <1>5, <5>1
      <4>3. f[k] \o s[k + 1] \in Seq(S)
        BY <3>1, <4>1, ConcatProperties
      <4> QED
        BY <3>1, <4>1, <4>2, <4>3
    <3> QED
      BY <3>2, <3>3
  <2> HIDE DEF T
  <2> QED
    BY <2>1, <2>2, NatSetInduction
<1>7. CASE n = 0
  <2>1. s = <<>> /\ FlattenSeq(s) = <<>>
    BY <1>7, FlattenEmpty
  <2>2. g[1] = t[1]
    BY <1>5, <1>7
  <2>3. FlattenSeq(t) = x
    BY <1>1, <1>3, <1>7, <2>2
  <2>4. <<>> \in Seq(S) /\ <<>> \o x = x
    OBVIOUS
  <2> QED
    BY <2>1, <2>3, <2>4 DEF t
<1>8. CASE n # 0
  <2>1. n \in 1..n /\ f[n] = g[n] /\ f[n] \in Seq(S)
    BY <1>6, <1>8
  <2>2. g[n + 1] = g[n] \o t[n + 1]
    <3>1. n + 1 \in 1..(n + 1) /\ n + 1 # 1 /\ (n + 1) - 1 = n
      BY <1>8
    <3> QED
      BY <1>5, <3>1
  <2> QED
    BY <1>1, <1>3, <1>4, <1>8, <2>1, <2>2 DEF t
<1> QED
  BY <1>7, <1>8

(***************************************************************************)
(* A sequence with another element before it, and without its first.       *)
(***************************************************************************)
LEMMA PushFacts ==
    ASSUME NEW S, NEW s \in Seq(S), NEW e \in S
    PROVE  /\ <<e>> \o s \in Seq(S) /\ Len(<<e>> \o s) = Len(s) + 1
           /\ \A i \in 1..Len(s) + 1 : (<<e>> \o s)[i] = IF i = 1 THEN e ELSE s[i - 1]
<1>1. <<e>> \in Seq(S) /\ Len(<<e>>) = 1 /\ <<e>>[1] = e
  OBVIOUS
<1>2. \A i \in 1..Len(s) + 1 : i > 1 => i - 1 \in 1..Len(s)
  OBVIOUS
<1> QED
  BY <1>1, <1>2, ConcatProperties

LEMMA TailFacts ==
    ASSUME NEW S, NEW s \in Seq(S), s # <<>>
    PROVE  /\ Len(s) \in Nat \ {0} /\ Head(s) = s[1] /\ Head(s) \in S
           /\ Tail(s) \in Seq(S) /\ Len(Tail(s)) = Len(s) - 1
           /\ \A i \in 1..Len(s) - 1 : Tail(s)[i] = s[i + 1]
OBVIOUS

(***************************************************************************)
(* A sequence of one element, and one whose tail is empty.                 *)
(***************************************************************************)
LEMMA SingleFacts ==
    ASSUME NEW x
    PROVE  /\ <<x>> \o <<>> = <<x>> /\ <<x>> # <<>> /\ Tail(<<x>>) = <<>>
           /\ Head(<<x>>) = x /\ <<x>>[1] = x /\ Len(<<x>>) = 1
<1>1. <<x>> \in Seq({x}) /\ <<>> \in Seq({x}) /\ Len(<<x>>) = 1 /\ Len(<<>>) = 0
  OBVIOUS
<1>2. <<x>> \o <<>> \in Seq({x}) /\ Len(<<x>> \o <<>>) = 1 /\ (<<x>> \o <<>>)[1] = x
  BY <1>1, ConcatProperties
<1>3. <<x>> \o <<>> = <<x>>
  BY <1>1, <1>2
<1> QED
  BY <1>3

LEMMA TailEmpty ==
    ASSUME NEW S, NEW s \in Seq(S), s # <<>>, Tail(s) = <<>>
    PROVE  Len(s) = 1
<1> DEFINE t == Tail(s)
<1>1. Len(t) = Len(s) - 1 /\ Len(s) \in Nat
  BY TailFacts
<1>2. t = <<>>
  OBVIOUS
<1> HIDE DEF t
<1>3. Len(t) = 0
  BY <1>2
<1> QED
  BY <1>1, <1>3
=============================================================================
