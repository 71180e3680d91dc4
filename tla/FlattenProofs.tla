---------------------------- MODULE FlattenProofs ----------------------------
(***************************************************************************)
(* What FlattenSeq computes, for every sequence of sequences: the block of *)
(* environment variables is built with it.  Its definition is recursive,   *)
(* so everything here is by induction, which is stated for sets: the       *)
(* induction theorems of the library take a predicate, that no prover can  *)
(* instantiate, but that a well-founded relation has minimal elements is a *)
(* fact about sets.                                                        *)
(***************************************************************************)
EXTENDS Integers, SequencesExt, SequenceTheorems, WellFoundedInduction, TLAPS

\* A set of natural numbers that is not empty has a least element.
LEMMA LeastNat ==
  ASSUME NEW T, T \subseteq Nat, T # {}
  PROVE  \E n \in T : \A m \in T : n <= m
<1>1. PICK n \in T : \A m \in T : <<m, n>> \notin OpToRel(<, Nat)
  BY WFMin, NatLessThanWellFounded
<1>2. \A m \in T : ~(m < n)
  BY <1>1 DEF OpToRel
<1> QED  BY <1>2

\* Induction over the natural numbers, for a set in the place of a predicate: a least
\* number outside the set would have a predecessor inside it.
LEMMA NatSetInduction ==
  ASSUME NEW T, 0 \in T, \A n \in Nat : n \in T => n + 1 \in T
  PROVE  Nat \subseteq T
<1>1. SUFFICES ASSUME Nat \ T # {}  PROVE FALSE
  OBVIOUS
<1>2. PICK n \in Nat \ T : \A m \in Nat \ T : n <= m
  BY <1>1, LeastNat
<1>3. n # 0 /\ n - 1 \in Nat
  BY <1>2
<1>4. n - 1 \in T
  BY <1>2, <1>3
<1> QED  BY <1>2, <1>3, <1>4

\* Induction over sequences, for a set in the place of a predicate: a set that has the
\* empty sequence, and with a sequence every one that is longer by one, has all.
LEMMA SeqSetInduction ==
  ASSUME NEW S, NEW T, <<>> \in T,
         \A s \in Seq(S), e \in S : s \in T => Append(s, e) \in T
  PROVE  Seq(S) \subseteq T
<1> DEFINE N == {n \in Nat : \A s \in Seq(S) : Len(s) = n => s \in T}
<1>1. 0 \in N
  BY EmptySeq
<1>2. ASSUME NEW n \in Nat, n \in N  PROVE n + 1 \in N
  <2>1. SUFFICES ASSUME NEW s \in Seq(S), Len(s) = n + 1  PROVE s \in T
    BY <1>2
  <2>2. s # <<>>
    BY <2>1, EmptySeq
  <2>3. PICK t \in Seq(S), e \in S : s = Append(t, e)
    BY <2>2, SequenceEmptyOrAppend
  <2>4. Len(t) = n
    BY <2>1, <2>3, AppendProperties, LenProperties
  <2> QED  BY <2>3, <2>4, <1>2
<1>3. Nat \subseteq N
  <2> HIDE DEF N
  <2> QED  BY <1>1, <1>2, NatSetInduction
<1> QED  BY <1>3, LenProperties

-----------------------------------------------------------------------------
\* f is the recursive function that FlattenSeq(b) takes its value from.
Joins(f, b) ==
  f = [i \in 1..Len(b) |-> IF i = 1 THEN b[i] ELSE f[i - 1] \o b[i]]

\* The recursive function adds one sequence at each step.
LEMMA JoinsStep ==
  ASSUME NEW f, NEW b, Joins(f, b), NEW n \in Nat, n + 1 \in 1..Len(b)
  PROVE  /\ n = 0 => f[n + 1] = b[n + 1]
         /\ n # 0 => f[n + 1] = f[n] \o b[n + 1]
<1>1. PICK i \in 1..Len(b) : i = n + 1
  OBVIOUS
<1>2. f[i] = IF i = 1 THEN b[i] ELSE f[i - 1] \o b[i]
  BY DEF Joins
<1>3. i - 1 = n /\ (i = 1 <=> n = 0)
  BY <1>1
<1>4. /\ n = 0 => f[i] = b[i]
      /\ n # 0 => f[i] = f[n] \o b[i]
  BY <1>2, <1>3
<1> QED  BY <1>1, <1>4

\* There is such a function for every sequence, by induction over its length.
LEMMA JoinsExists ==
  ASSUME NEW b, Len(b) \in Nat
  PROVE  \E f : Joins(f, b)
<1> DEFINE J(f, n) == f = [i \in 1..n |-> IF i = 1 THEN b[i] ELSE f[i - 1] \o b[i]]
<1> DEFINE N == {n \in Nat : \E f : J(f, n)}
<1>1. 0 \in N
  <2>1. J([i \in 1..0 |-> <<>>], 0)
    OBVIOUS
  <2> QED  BY <2>1
<1>2. ASSUME NEW n \in Nat, n \in N  PROVE n + 1 \in N
  <2>1. PICK f : J(f, n)
    BY <1>2
  <2> DEFINE g == [i \in 1..(n + 1) |->
                     IF i = n + 1 THEN IF i = 1 THEN b[i] ELSE f[i - 1] \o b[i] ELSE f[i]]
  <2>2. J(g, n + 1)
    <3>1. ASSUME NEW i \in 1..(n + 1)
          PROVE  g[i] = IF i = 1 THEN b[i] ELSE g[i - 1] \o b[i]
      <4>1. CASE i = n + 1 /\ i = 1
        BY <4>1
      <4>2. CASE i = n + 1 /\ i # 1
        <5>1. i - 1 \in 1..n /\ i - 1 # n + 1 /\ i - 1 \in 1..(n + 1)
          BY <4>2
        <5>2. g[i - 1] = f[i - 1]
          BY <5>1
        <5> QED  BY <4>2, <5>2
      <4>3. CASE i # n + 1 /\ i = 1
        <5>1. i \in 1..n
          BY <4>3
        <5> QED  BY <4>3, <5>1, <2>1
      <4>4. CASE i # n + 1 /\ i # 1
        <5>1. i \in 1..n /\ i - 1 \in 1..n /\ i - 1 # n + 1 /\ i - 1 \in 1..(n + 1)
          BY <4>4
        <5>2. g[i] = f[i] /\ g[i - 1] = f[i - 1]
          BY <5>1, <4>4
        <5> HIDE DEF g
        <5> QED  BY <4>4, <5>1, <5>2, <2>1
      <4> QED  BY <4>1, <4>2, <4>3, <4>4
    <3> QED  BY <3>1
  <2> HIDE DEF J
  <2> QED  BY <2>2
<1>3. Nat \subseteq N
  <2> HIDE DEF N
  <2> QED  BY <1>1, <1>2, NatSetInduction
<1> QED  BY <1>3 DEF Joins

\* FlattenSeq returns its last value.
LEMMA FlattenJoins ==
  ASSUME NEW b, Len(b) \in Nat \ {0}
  PROVE  \E f : Joins(f, b) /\ FlattenSeq(b) = f[Len(b)]
<1> DEFINE f == CHOOSE f : f = [i \in 1..Len(b) |-> IF i = 1 THEN b[i] ELSE f[i - 1] \o b[i]]
<1>1. FlattenSeq(b) = f[Len(b)]
  BY DEF FlattenSeq
<1>2. Joins(f, b)
  BY JoinsExists, Zenon DEF Joins
<1> QED  BY <1>1, <1>2
\* What is joined last comes last.
LEMMA FlattenAppend ==
  ASSUME NEW S, NEW b \in Seq(Seq(S)), NEW e \in Seq(S)
  PROVE  FlattenSeq(Append(b, e)) = FlattenSeq(b) \o e
<1> DEFINE c == Append(b, e)
<1>1. /\ Len(b) \in Nat /\ Len(c) = Len(b) + 1 /\ c[Len(b) + 1] = e
      /\ \A i \in 1..Len(b) : c[i] = b[i]
  BY AppendProperties, LenProperties
<1> HIDE DEF c
<1>2. PICK g : Joins(g, c) /\ FlattenSeq(c) = g[Len(b) + 1]
  BY <1>1, FlattenJoins
<1>3. CASE Len(b) = 0
  <2>1. g[1] = e
    BY <1>1, <1>2, <1>3 DEF Joins
  <2>2. b = <<>> /\ FlattenSeq(b) = <<>>
    BY <1>3, EmptySeq DEF FlattenSeq
  <2> QED  BY <1>2, <1>3, <2>1, <2>2, ConcatEmptySeq DEF c
<1>4. CASE Len(b) # 0
  <2>1. PICK f : Joins(f, b) /\ FlattenSeq(b) = f[Len(b)]
    BY <1>1, <1>4, FlattenJoins
  <2> DEFINE N == {n \in Nat : n \in 1..Len(b) => f[n] = g[n]}
  <2>2. ASSUME NEW n \in Nat, n \in N  PROVE n + 1 \in N
    <3>1. SUFFICES ASSUME n + 1 \in 1..Len(b)  PROVE f[n + 1] = g[n + 1]
      OBVIOUS
    <3>2. n + 1 \in 1..Len(c) /\ c[n + 1] = b[n + 1]
      BY <1>1, <3>1
    <3>3. (n = 0 => f[n + 1] = b[n + 1]) /\ (n # 0 => f[n + 1] = f[n] \o b[n + 1])
      BY <2>1, <3>1, JoinsStep
    <3>4. (n = 0 => g[n + 1] = c[n + 1]) /\ (n # 0 => g[n + 1] = g[n] \o c[n + 1])
      BY <1>2, <3>2, JoinsStep
    <3>5. n # 0 => f[n] = g[n]
      BY <2>2, <3>1
    <3> QED  BY <3>2, <3>3, <3>4, <3>5
  <2>3. Nat \subseteq N
    <3>1. 0 \in N
      OBVIOUS
    <3> HIDE DEF N
    <3> QED  BY <3>1, <2>2, NatSetInduction
  <2>4. f[Len(b)] = g[Len(b)]
    BY <2>3, <1>1, <1>4
  <2>5. g[Len(b) + 1] = g[Len(b)] \o e
    <3>1. /\ Len(b) + 1 \in 1..Len(c) /\ Len(b) # 0
      BY <1>1, <1>4
    <3> QED  BY <3>1, <1>1, <1>2, JoinsStep
  <2> QED  BY <1>2, <2>1, <2>4, <2>5 DEF c
<1> QED  BY <1>3, <1>4

-----------------------------------------------------------------------------
\* A sequence that is neither empty nor longer than one is its element.
LEMMA OneElement ==
  ASSUME NEW S, NEW k \in Seq(S), k # <<>>, Len(k) <= 1
  PROVE  k = <<k[1]>> /\ k[1] \in S
<1>1. Len(k) = 1
  <2>1. PICK n \in Nat \ {0} : n = Len(k)
    BY EmptySeq
  <2>2. n <= 1
    BY <2>1
  <2>3. n = 1
    BY <2>2
  <2> QED  BY <2>1, <2>3
<1>2. k[1] \in S
  BY <1>1, ElementOfSeq
<1>3. <<k[1]>> \in Seq(S) /\ Len(<<k[1]>>) = 1
  BY <1>2
<1> QED  BY <1>1, <1>2, <1>3, SeqEqual

\* Nothing joined is nothing.
LEMMA FlattenEmpty == FlattenSeq(<<>>) = <<>>
BY DEF FlattenSeq

\* One sequence joined is itself.
LEMMA FlattenOne ==
  ASSUME NEW S, NEW e \in Seq(S)
  PROVE  FlattenSeq(<<e>>) = e
<1>1. <<>> \in Seq(Seq(S)) /\ Append(<<>>, e) = <<e>>
  OBVIOUS
<1>2. FlattenSeq(Append(<<>>, e)) = FlattenSeq(<<>>) \o e
  BY <1>1, FlattenAppend
<1>3. <<>> \o e = e
  BY ConcatEmptySeq
<1> QED  BY <1>1, <1>2, <1>3, FlattenEmpty

\* Sequences over a set are joined to a sequence over the set.
LEMMA FlattenType ==
  ASSUME NEW S
  PROVE  \A b \in Seq(Seq(S)) : FlattenSeq(b) \in Seq(S)
<1> DEFINE T == {b \in Seq(Seq(S)) : FlattenSeq(b) \in Seq(S)}
<1>1. <<>> \in T
  BY FlattenEmpty, EmptySeq
<1>2. ASSUME NEW b \in Seq(Seq(S)), NEW e \in Seq(S), b \in T
      PROVE  Append(b, e) \in T
  BY <1>2, FlattenAppend, ConcatProperties, AppendProperties
<1>3. Seq(Seq(S)) \subseteq T
  <2> HIDE DEF T
  <2> QED  BY <1>1, <1>2, SeqSetInduction
<1> QED  BY <1>3

\* No sequence is longer than what it is joined to.
LEMMA FlattenLonger ==
  ASSUME NEW S
  PROVE  \A b \in Seq(Seq(S)) : \A i \in 1..Len(b) : Len(b[i]) <= Len(FlattenSeq(b))
<1> DEFINE T == {b \in Seq(Seq(S)) : \A i \in 1..Len(b) : Len(b[i]) <= Len(FlattenSeq(b))}
<1>1. <<>> \in T
  BY EmptySeq
<1>2. ASSUME NEW b \in Seq(Seq(S)), NEW e \in Seq(S), b \in T
      PROVE  Append(b, e) \in T
  <2>1. /\ Append(b, e) \in Seq(Seq(S)) /\ Len(Append(b, e)) = Len(b) + 1
        /\ \A i \in 1..Len(b) : Append(b, e)[i] = b[i]
        /\ Append(b, e)[Len(b) + 1] = e
    BY AppendProperties
  <2>2. FlattenSeq(b) \in Seq(S)
    BY FlattenType
  <2>3. /\ Len(FlattenSeq(b)) \in Nat /\ Len(e) \in Nat
        /\ Len(FlattenSeq(Append(b, e))) = Len(FlattenSeq(b)) + Len(e)
    BY <2>2, FlattenAppend, ConcatProperties, LenProperties
  <2>4. ASSUME NEW i \in 1..(Len(b) + 1)
        PROVE  Len(Append(b, e)[i]) <= Len(FlattenSeq(b)) + Len(e)
    <3>1. CASE i = Len(b) + 1
      BY <3>1, <2>1, <2>3
    <3>2. CASE i # Len(b) + 1
      <4>1. i \in 1..Len(b) /\ b[i] \in Seq(S)
        BY <3>2, ElementOfSeq, LenProperties
      <4>2. Len(b[i]) <= Len(FlattenSeq(b)) /\ Len(b[i]) \in Nat
        BY <4>1, <1>2, LenProperties
      <4> QED  BY <4>1, <4>2, <2>1, <2>3
    <3> QED  BY <3>1, <3>2
  <2> QED  BY <2>1, <2>3, <2>4
<1>3. Seq(Seq(S)) \subseteq T
  <2> HIDE DEF T
  <2> QED  BY <1>1, <1>2, SeqSetInduction
<1> QED  BY <1>3

LEMMA Associative ==
  \A S : \A x, y, z \in Seq(S) : (x \o y) \o z = x \o (y \o z)
BY ConcatAssociative

\* Joining two rows of sequences one behind the other joins the results.
LEMMA FlattenConcat ==
  ASSUME NEW S, NEW a \in Seq(Seq(S))
  PROVE  \A b \in Seq(Seq(S)) : FlattenSeq(a \o b) = FlattenSeq(a) \o FlattenSeq(b)
<1> DEFINE T == {b \in Seq(Seq(S)) : FlattenSeq(a \o b) = FlattenSeq(a) \o FlattenSeq(b)}
<1>1. <<>> \in T
  BY FlattenEmpty, FlattenType, EmptySeq, ConcatEmptySeq
<1>2. ASSUME NEW b \in Seq(Seq(S)), NEW e \in Seq(S), b \in T
      PROVE  Append(b, e) \in T
  <2>1. a \o b \in Seq(Seq(S)) /\ Append(b, e) \in Seq(Seq(S))
    BY ConcatProperties, AppendProperties
  <2>2. a \o Append(b, e) = Append(a \o b, e)
    <3>1. <<e>> \in Seq(Seq(S)) /\ Append(b, e) = b \o <<e>>
      BY AppendIsConcat
    <3>2. Append(a \o b, e) = (a \o b) \o <<e>>
      BY <2>1, AppendIsConcat
    <3> QED  BY <3>1, <3>2, ConcatAssociative
  <2>3. FlattenSeq(a \o Append(b, e)) = (FlattenSeq(a) \o FlattenSeq(b)) \o e
    BY <2>1, <2>2, <1>2, FlattenAppend
  <2>4. FlattenSeq(a) \in Seq(S) /\ FlattenSeq(b) \in Seq(S)
    BY FlattenType
  <2>5. FlattenSeq(Append(b, e)) = FlattenSeq(b) \o e
    BY FlattenAppend
  <2>6. (FlattenSeq(a) \o FlattenSeq(b)) \o e = FlattenSeq(a) \o (FlattenSeq(b) \o e)
    <3> DEFINE x == FlattenSeq(a)
               y == FlattenSeq(b)
    <3>1. x \in Seq(S) /\ y \in Seq(S)
      BY <2>4
    <3> HIDE DEF T, x, y
    <3>2. (x \o y) \o e = x \o (y \o e)
      BY <3>1, Associative
    <3> QED  BY <3>2 DEF x, y
  <2> QED  BY <2>1, <2>3, <2>5, <2>6
<1>3. Seq(Seq(S)) \subseteq T
  <2> HIDE DEF T
  <2> QED  BY <1>1, <1>2, SeqSetInduction
<1> QED  BY <1>3
=============================================================================
