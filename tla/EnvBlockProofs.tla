--------------------------- MODULE EnvBlockProofs ---------------------------
(***************************************************************************)
(* What the operators of EnvBlock do, for blocks of every length and for   *)
(* every name and value.  The names have no "=": an entry with such a name *)
(* is one of a shorter name.                                               *)
(***************************************************************************)
EXTENDS EnvBlock, FlattenProofs

\* What Kept joins.
Pieces(b, n) == [i \in DOMAIN b |-> IF NameOf(b[i]) # n THEN <<b[i]>> ELSE <<>>]

\* There is one piece for every entry.
LEMMA PiecesType ==
  ASSUME NEW S, NEW b \in Seq(S), NEW n
  PROVE  Pieces(b, n) \in Seq(Seq(S)) /\ Len(Pieces(b, n)) = Len(b)
<1>1. Len(b) \in Nat /\ DOMAIN b = 1..Len(b) /\ \A i \in 1..Len(b) : b[i] \in S
  BY LenProperties, ElementOfSeq
<1>2. \A e \in S : <<e>> \in Seq(S)
  OBVIOUS
<1>3. <<>> \in Seq(S)
  OBVIOUS
<1>4. Pieces(b, n) \in [1..Len(b) -> Seq(S)]
  BY <1>1, <1>2, <1>3 DEF Pieces
<1> QED  BY <1>1, <1>4

\* Of an empty block nothing is kept.
LEMMA KeptEmpty ==
  ASSUME NEW n
  PROVE  Kept(<<>>, n) = <<>>
<1>1. Pieces(<<>>, n) = <<>>
  BY DEF Pieces
<1> QED  BY <1>1, FlattenEmpty DEF Kept, Pieces

\* What is kept are entries of the block.
LEMMA KeptType ==
  ASSUME NEW S, NEW b \in Seq(S), NEW n
  PROVE  Kept(b, n) \in Seq(S)
BY PiecesType, FlattenType DEF Kept, Pieces

\* An entry is kept unless it has the name.
LEMMA KeptAppend ==
  ASSUME NEW S, NEW b \in Seq(S), NEW e \in S, NEW n
  PROVE  /\ NameOf(e) # n => Kept(Append(b, e), n) = Append(Kept(b, n), e)
         /\ NameOf(e) = n => Kept(Append(b, e), n) = Kept(b, n)
<1> DEFINE p == IF NameOf(e) # n THEN <<e>> ELSE <<>>
<1>1. p \in Seq(S)
  OBVIOUS
<1>2. Append(b, e) \in Seq(S)
  BY AppendProperties
<1>3. Pieces(Append(b, e), n) = Append(Pieces(b, n), p)
  <2>1. /\ Pieces(Append(b, e), n) \in Seq(Seq(S)) /\ Append(Pieces(b, n), p) \in Seq(Seq(S))
        /\ Len(Pieces(Append(b, e), n)) = Len(b) + 1
        /\ Len(Append(Pieces(b, n), p)) = Len(b) + 1
    <3>1. Pieces(b, n) \in Seq(Seq(S)) /\ Len(Pieces(b, n)) = Len(b)
      BY PiecesType
    <3>2. Len(Append(b, e)) = Len(b) + 1
      BY AppendProperties
    <3>3. Append(Pieces(b, n), p) \in Seq(Seq(S)) /\ Len(Append(Pieces(b, n), p)) = Len(b) + 1
      <4> HIDE DEF p
      <4> QED  BY <1>1, <3>1, AppendProperties
    <3> HIDE DEF p
    <3> QED  BY <1>2, <3>2, <3>3, PiecesType
  <2>2. Len(b) \in Nat /\ DOMAIN b = 1..Len(b) /\ DOMAIN Append(b, e) = 1..(Len(b) + 1)
    BY <1>2, LenProperties, AppendProperties
  <2>3. ASSUME NEW i \in 1..(Len(b) + 1)
        PROVE  Pieces(Append(b, e), n)[i] = Append(Pieces(b, n), p)[i]
    <3>1. CASE i = Len(b) + 1
      <4>1. Append(Pieces(b, n), p)[i] = p
        BY <3>1, <1>1, PiecesType, AppendProperties
      <4>2. Append(b, e)[i] = e
        BY <3>1, AppendProperties
      <4> QED  BY <4>1, <4>2, <2>2 DEF Pieces
    <3>2. CASE i # Len(b) + 1
      <4>1. i \in 1..Len(b)
        BY <3>2, <2>2
      <4>2. Append(Pieces(b, n), p)[i] = Pieces(b, n)[i]
        BY <4>1, <1>1, PiecesType, AppendProperties
      <4>3. Append(b, e)[i] = b[i]
        BY <4>1, AppendProperties
      <4> QED  BY <4>1, <4>2, <4>3, <2>2 DEF Pieces
    <3> QED  BY <3>1, <3>2
  <2>4. \A i \in 1..Len(Pieces(Append(b, e), n)) :
          Pieces(Append(b, e), n)[i] = Append(Pieces(b, n), p)[i]
    BY <2>1, <2>3
  <2> HIDE DEF p
  <2> QED  BY <2>1, <2>4, SeqEqual
<1>4. Kept(Append(b, e), n) = FlattenSeq(Pieces(Append(b, e), n)) /\ Kept(b, n) = FlattenSeq(Pieces(b, n))
  BY DEF Kept, Pieces
<1>5. Kept(Append(b, e), n) = Kept(b, n) \o p
  <2> HIDE DEF p
  <2> QED  BY <1>1, <1>3, <1>4, PiecesType, FlattenAppend
<1>6. Kept(b, n) \in Seq(S)
  BY KeptType
<1>7. NameOf(e) # n => Kept(Append(b, e), n) = Append(Kept(b, n), e)
  BY <1>5, <1>6, AppendIsConcat
<1>8. NameOf(e) = n => Kept(Append(b, e), n) = Kept(b, n)
  BY <1>5, <1>6, ConcatEmptySeq
<1> QED  BY <1>7, <1>8

\* The entries kept are exactly those of another name.
LEMMA KeptElements ==
  ASSUME NEW S, NEW n
  PROVE  \A b \in Seq(S) :
           /\ \A j \in 1..Len(Kept(b, n)) :
                \E i \in 1..Len(b) : Kept(b, n)[j] = b[i] /\ NameOf(b[i]) # n
           /\ \A i \in 1..Len(b) :
                NameOf(b[i]) # n => \E j \in 1..Len(Kept(b, n)) : Kept(b, n)[j] = b[i]
<1> DEFINE P(b) ==
           /\ \A j \in 1..Len(Kept(b, n)) :
                \E i \in 1..Len(b) : Kept(b, n)[j] = b[i] /\ NameOf(b[i]) # n
           /\ \A i \in 1..Len(b) :
                NameOf(b[i]) # n => \E j \in 1..Len(Kept(b, n)) : Kept(b, n)[j] = b[i]
<1> DEFINE T == {b \in Seq(S) : P(b)}
<1>1. <<>> \in T
  BY KeptEmpty, EmptySeq
<1>2. ASSUME NEW b \in Seq(S), NEW e \in S, b \in T
      PROVE  Append(b, e) \in T
  <2> DEFINE k == Kept(b, n)
  <2> DEFINE c == Append(b, e)
  <2> DEFINE m == Kept(c, n)
  <2>1. /\ c \in Seq(S) /\ Len(b) \in Nat /\ Len(c) = Len(b) + 1
        /\ c[Len(b) + 1] = e /\ \A i \in 1..Len(b) : c[i] = b[i]
    BY AppendProperties, LenProperties
  <2>2. k \in Seq(S) /\ Len(k) \in Nat
    BY KeptType, LenProperties
  <2>3. P(b)
    BY <1>2
  <2>4. CASE NameOf(e) # n
    <3>1. m = Append(k, e)
      BY <2>4, KeptAppend
    <3>2. /\ Len(m) = Len(k) + 1 /\ m[Len(k) + 1] = e /\ \A j \in 1..Len(k) : m[j] = k[j]
      BY <2>2, <3>1, AppendProperties
    <3> HIDE DEF m, c, k
    <3>3. P(c)
      <4>1. ASSUME NEW j \in 1..Len(m)
            PROVE  \E i \in 1..Len(c) : m[j] = c[i] /\ NameOf(c[i]) # n
        <5>1. CASE j = Len(k) + 1
          <6>1. Len(b) + 1 \in 1..Len(c) /\ m[j] = c[Len(b) + 1] /\ NameOf(c[Len(b) + 1]) # n
            BY <5>1, <3>2, <2>1, <2>4
          <6> QED  BY <6>1
        <5>2. CASE j # Len(k) + 1
          <6>1. j \in 1..Len(k)
            BY <5>2, <3>2, <2>2
          <6>2. PICK i \in 1..Len(b) : k[j] = b[i] /\ NameOf(b[i]) # n
            BY <6>1, <2>3 DEF k
          <6>3. i \in 1..Len(c)
            BY <2>1
          <6> QED  BY <6>1, <6>2, <6>3, <2>1, <3>2
        <5> QED  BY <5>1, <5>2
      <4>2. ASSUME NEW i \in 1..Len(c), NameOf(c[i]) # n
            PROVE  \E j \in 1..Len(m) : m[j] = c[i]
        <5>1. CASE i = Len(b) + 1
          <6>1. Len(k) + 1 \in 1..Len(m) /\ m[Len(k) + 1] = c[i]
            BY <5>1, <3>2, <2>1, <2>2
          <6> QED  BY <6>1
        <5>2. CASE i # Len(b) + 1
          <6>1. i \in 1..Len(b) /\ NameOf(b[i]) # n
            BY <5>2, <4>2, <2>1
          <6>2. PICK j \in 1..Len(k) : k[j] = b[i]
            BY <6>1, <2>3 DEF k
          <6>3. j \in 1..Len(m) /\ m[j] = c[i]
            BY <6>1, <6>2, <3>2, <2>1, <2>2
          <6> QED  BY <6>3
        <5> QED  BY <5>1, <5>2
      <4> QED  BY <4>1, <4>2 DEF m
    <3> QED  BY <3>3, <2>1 DEF c
  <2>5. CASE NameOf(e) = n
    <3>1. m = k
      BY <2>5, KeptAppend
    <3> HIDE DEF m, c, k
    <3>2. P(c)
      <4>1. ASSUME NEW j \in 1..Len(m)
            PROVE  \E i \in 1..Len(c) : m[j] = c[i] /\ NameOf(c[i]) # n
        <5>1. PICK i \in 1..Len(b) : k[j] = b[i] /\ NameOf(b[i]) # n
          BY <3>1, <2>3 DEF k
        <5>2. i \in 1..Len(c)
          BY <2>1
        <5> QED  BY <5>1, <5>2, <3>1, <2>1
      <4>2. ASSUME NEW i \in 1..Len(c), NameOf(c[i]) # n
            PROVE  \E j \in 1..Len(m) : m[j] = c[i]
        <5>1. i \in 1..Len(b) /\ NameOf(b[i]) # n
          BY <4>2, <2>1, <2>5
        <5>2. PICK j \in 1..Len(k) : k[j] = b[i]
          BY <5>1, <2>3 DEF k
        <5> QED  BY <5>1, <5>2, <3>1, <2>1
      <4> QED  BY <4>1, <4>2 DEF m
    <3> QED  BY <3>2, <2>1 DEF c
  <2> QED  BY <2>4, <2>5
<1>3. Seq(S) \subseteq T
  <2> HIDE DEF T
  <2> QED  BY <1>1, <1>2, SeqSetInduction
<1> QED  BY <1>3

-----------------------------------------------------------------------------
\* The characters.  (That "=" is a string is more than the provers know.)
Chars == STRING \cup {"="}

\* An entry is the name, "=" and the value.
LEMMA EntryProperties ==
  ASSUME NEW n \in Seq(Chars), NEW v \in Seq(Chars)
  PROVE  /\ Entry(n, v) \in Seq(Chars)
         /\ Len(n) \in Nat /\ Len(v) \in Nat
         /\ Len(Entry(n, v)) = Len(n) + 1 + Len(v)
         /\ \A i \in 1..Len(n) : Entry(n, v)[i] = n[i]
         /\ Entry(n, v)[Len(n) + 1] = "="
         /\ \A i \in 1..Len(v) : Entry(n, v)[Len(n) + 1 + i] = v[i]
<1> DEFINE q == <<"=">>
<1>1. q \in Seq(Chars) /\ Len(q) = 1 /\ q[1] = "="
  BY DEF Chars
<1>2. Len(n) \in Nat /\ Len(v) \in Nat
  BY LenProperties
<1> HIDE DEF q
<1> DEFINE r == n \o q
<1>3. /\ r \in Seq(Chars) /\ Len(r) = Len(n) + 1
      /\ \A i \in 1..Len(n) : r[i] = n[i]
      /\ r[Len(n) + 1] = "="
  <2>1. /\ r \in Seq(Chars) /\ Len(r) = Len(n) + Len(q)
        /\ \A i \in 1..(Len(n) + Len(q)) : r[i] = IF i <= Len(n) THEN n[i] ELSE q[i - Len(n)]
    BY <1>1, ConcatProperties
  <2>2. Len(n) + 1 \in 1..(Len(n) + Len(q)) /\ ~(Len(n) + 1 <= Len(n)) /\ (Len(n) + 1) - Len(n) = 1
    BY <1>1, <1>2
  <2> HIDE DEF r
  <2> QED  BY <1>1, <1>2, <2>1, <2>2
<1> HIDE DEF r
<1>4. /\ r \o v \in Seq(Chars) /\ Len(r \o v) = Len(r) + Len(v)
      /\ \A i \in 1..(Len(r) + Len(v)) : (r \o v)[i] = IF i <= Len(r) THEN r[i] ELSE v[i - Len(r)]
  BY <1>3, ConcatProperties
<1>5. Entry(n, v) = r \o v
  BY DEF Entry, r, q
<1>6. ASSUME NEW i \in 1..Len(v)  PROVE (r \o v)[Len(n) + 1 + i] = v[i]
  <2>1. /\ Len(n) + 1 + i \in 1..(Len(r) + Len(v)) /\ ~(Len(n) + 1 + i <= Len(r))
        /\ (Len(n) + 1 + i) - Len(r) = i
    BY <1>2, <1>3
  <2> QED  BY <2>1, <1>4
<1> QED  BY <1>2, <1>3, <1>4, <1>5, <1>6

\* A name without "=" is read back from the entry it is stored in.
LEMMA NameOfEntry ==
  ASSUME NEW n \in Seq(Chars), NEW v \in Seq(Chars), \A i \in 1..Len(n) : n[i] # "="
  PROVE  NameOf(Entry(n, v)) = n
<1> DEFINE e == Entry(n, v)
<1> DEFINE I == {i \in 1..Len(e) : e[i] = "="}
<1>1. /\ e \in Seq(Chars) /\ Len(e) = Len(n) + 1 + Len(v)
      /\ Len(n) \in Nat /\ Len(v) \in Nat
      /\ \A i \in 1..Len(n) : e[i] = n[i]
      /\ e[Len(n) + 1] = "="
  BY EntryProperties
<1> HIDE DEF e
<1>2. Len(n) + 1 \in I /\ \A j \in I : Len(n) + 1 <= j
  <2>1. Len(n) + 1 \in 1..Len(e)
    BY <1>1
  <2>2. \A j \in 1..Len(e) : j < Len(n) + 1 => e[j] = n[j] /\ n[j] # "="
    BY <1>1
  <2> QED  BY <1>1, <2>1, <2>2
<1>3. Min(I) = Len(n) + 1
  <2>1. \E x \in I : \A y \in I : x =< y
    BY <1>2
  <2>2. Min(I) \in I /\ \A y \in I : Min(I) =< y
    <3> HIDE DEF I
    <3> QED  BY <2>1 DEF Min
  <2> QED  BY <2>2, <1>2, <1>1
<1>4. SelectInSeq(e, LAMBDA ch : ch = "=") = Len(n) + 1
  BY <1>2, <1>3 DEF SelectInSeq
<1>5. SubSeq(e, 1, Len(n)) = n
  <2>1. \A i \in 1..Len(n) : e[i] \in Chars
    BY <1>1, ElementOfSeq
  <2>2. /\ SubSeq(e, 1, Len(n)) \in Seq(Chars)
        /\ Len(SubSeq(e, 1, Len(n))) = Len(n)
        /\ \A i \in 1..Len(n) : SubSeq(e, 1, Len(n))[i] = n[i]
    BY <1>1, <2>1, SubSeqProperties
  <2> QED  BY <1>1, <2>2, SeqEqual
<1> QED  BY <1>4, <1>5, <1>1 DEF NameOf, e

\* And so is the value, which may have any characters.
LEMMA ValueOfEntry ==
  ASSUME NEW n \in Seq(Chars), NEW v \in Seq(Chars), \A i \in 1..Len(n) : n[i] # "="
  PROVE  ValueOf(Entry(n, v)) = v
<1> DEFINE e == Entry(n, v)
<1>1. /\ e \in Seq(Chars) /\ Len(e) = Len(n) + 1 + Len(v)
      /\ Len(n) \in Nat /\ Len(v) \in Nat
      /\ e[Len(n) + 1] = "="
      /\ \A i \in 1..Len(v) : e[Len(n) + 1 + i] = v[i]
  BY EntryProperties
<1>2. NameOf(e) = n
  BY NameOfEntry
<1> HIDE DEF e
<1>3. Contains(e, "=")
  BY <1>1 DEF Contains
<1> DEFINE s == SubSeq(e, Len(n) + 2, Len(e))
<1>4. s = v
  <2>1. \A i \in (Len(n) + 2)..Len(e) : e[i] \in Chars
    BY <1>1, ElementOfSeq
  <2>2. /\ s \in Seq(Chars)
        /\ Len(s) = IF Len(n) + 2 <= Len(e) THEN Len(e) - (Len(n) + 2) + 1 ELSE 0
        /\ \A i \in 1..(Len(e) - (Len(n) + 2) + 1) : s[i] = e[(Len(n) + 2) + i - 1]
    BY <1>1, <2>1, SubSeqProperties
  <2>3. Len(s) = Len(v)
    BY <1>1, <2>2
  <2>4. ASSUME NEW i \in 1..Len(v)  PROVE s[i] = v[i]
    <3>1. i \in 1..(Len(e) - (Len(n) + 2) + 1) /\ (Len(n) + 2) + i - 1 = Len(n) + 1 + i
      BY <1>1
    <3> QED  BY <3>1, <2>2, <1>1
  <2> HIDE DEF s
  <2> QED  BY <2>2, <2>3, <2>4, SeqEqual
<1> QED  BY <1>2, <1>3, <1>4 DEF ValueOf, e

-----------------------------------------------------------------------------
\* No two entries have the same name.
UniqueNames(b) == \A i, j \in DOMAIN b : NameOf(b[i]) = NameOf(b[j]) => i = j

\* An addition keeps the length of a block that has the name, and adds one otherwise.
LEMMA AddOrReplaceType ==
  ASSUME NEW S, NEW b \in Seq(S), NEW n, NEW v, Entry(n, v) \in S
  PROVE  /\ AddOrReplace(b, n, v) \in Seq(S)
         /\ Len(AddOrReplace(b, n, v)) = IF Has(b, n) THEN Len(b) ELSE Len(b) + 1
         /\ Len(AddOrReplace(b, n, v)) \in Nat \ {0}
<1>1. /\ Len(b) \in Nat /\ DOMAIN b = 1..Len(b) /\ \A i \in 1..Len(b) : b[i] \in S
  BY LenProperties, ElementOfSeq
<1>2. CASE Has(b, n)
  <2>1. AddOrReplace(b, n, v) \in [1..Len(b) -> S]
    BY <1>1, <1>2 DEF AddOrReplace
  <2>2. AddOrReplace(b, n, v) \in Seq(S) /\ Len(AddOrReplace(b, n, v)) = Len(b)
    BY <1>1, <2>1
  <2>3. Len(b) # 0
    BY <1>1, <1>2 DEF Has
  <2> QED  BY <1>1, <1>2, <2>2, <2>3
<1>3. CASE ~Has(b, n)
  BY <1>1, <1>3, AppendProperties DEF AddOrReplace
<1> QED  BY <1>2, <1>3

\* The other entries keep their places, and what has the name is the new entry.
LEMMA AddOrReplaceElements ==
  ASSUME NEW S, NEW b \in Seq(S), NEW n, NEW v, Entry(n, v) \in S,
         NameOf(Entry(n, v)) = n
  PROVE  LET a == AddOrReplace(b, n, v)
         IN  /\ \A i \in 1..Len(b) : a[i] = IF NameOf(b[i]) = n THEN Entry(n, v) ELSE b[i]
             /\ \A i \in 1..Len(a) : i \notin 1..Len(b) => a[i] = Entry(n, v) /\ ~Has(b, n)
             /\ \A i \in 1..Len(a) : NameOf(a[i]) = n => a[i] = Entry(n, v)
             /\ \E i \in 1..Len(a) : NameOf(a[i]) = n
<1> DEFINE a == AddOrReplace(b, n, v)
<1>1. /\ Len(b) \in Nat /\ DOMAIN b = 1..Len(b)
  BY LenProperties
<1>2. CASE Has(b, n)
  <2>1. Len(a) = Len(b) /\ \A i \in 1..Len(b) : a[i] = IF NameOf(b[i]) = n THEN Entry(n, v) ELSE b[i]
    BY <1>1, <1>2, AddOrReplaceType DEF AddOrReplace
  <2>2. PICK i \in 1..Len(b) : NameOf(b[i]) = n
    BY <1>1, <1>2 DEF Has
  <2> HIDE DEF a
  <2>3. i \in 1..Len(a) /\ NameOf(a[i]) = n
    BY <2>1, <2>2
  <2>4. \A k \in 1..Len(a) : NameOf(a[k]) = n => a[k] = Entry(n, v)
    BY <2>1
  <2> QED  BY <2>1, <2>3, <2>4 DEF a
<1>3. CASE ~Has(b, n)
  <2>1. /\ Len(a) = Len(b) + 1 /\ a[Len(b) + 1] = Entry(n, v)
        /\ \A i \in 1..Len(b) : a[i] = b[i]
    BY <1>1, <1>3, AppendProperties DEF AddOrReplace
  <2>2. \A i \in 1..Len(b) : NameOf(b[i]) # n
    BY <1>1, <1>3 DEF Has
  <2> HIDE DEF a
  <2>3. \A i \in 1..Len(a) : i \notin 1..Len(b) => i = Len(b) + 1
    BY <1>1, <2>1
  <2>4. \A k \in 1..Len(a) : NameOf(a[k]) = n => a[k] = Entry(n, v)
    BY <2>1, <2>2, <2>3
  <2>5. Len(b) + 1 \in 1..Len(a) /\ NameOf(a[Len(b) + 1]) = n
    BY <1>1, <2>1
  <2> QED  BY <1>3, <2>1, <2>2, <2>3, <2>4, <2>5 DEF a
<1> QED  BY <1>2, <1>3

\* An addition gives no name a second entry.
LEMMA AddOrReplaceUnique ==
  ASSUME NEW S, NEW b \in Seq(S), NEW n, NEW v, Entry(n, v) \in S,
         NameOf(Entry(n, v)) = n, UniqueNames(b)
  PROVE  UniqueNames(AddOrReplace(b, n, v))
<1> DEFINE a == AddOrReplace(b, n, v)
<1>1. /\ Len(b) \in Nat /\ DOMAIN b = 1..Len(b)
      /\ DOMAIN a = 1..Len(a) /\ Len(a) \in Nat
      /\ Len(a) = IF Has(b, n) THEN Len(b) ELSE Len(b) + 1
  BY LenProperties, AddOrReplaceType
<1>2. /\ \A i \in 1..Len(b) : a[i] = IF NameOf(b[i]) = n THEN Entry(n, v) ELSE b[i]
      /\ \A i \in 1..Len(a) : i \notin 1..Len(b) => a[i] = Entry(n, v) /\ ~Has(b, n)
  BY AddOrReplaceElements
<1> HIDE DEF a
<1>3. \A i \in 1..Len(b) : NameOf(a[i]) = NameOf(b[i])
  BY <1>2
<1>4. ~Has(b, n) => \A i \in 1..Len(b) : NameOf(b[i]) # n
  BY <1>1 DEF Has
<1>5. ASSUME NEW i \in 1..Len(a), NEW j \in 1..Len(a), NameOf(a[i]) = NameOf(a[j])
      PROVE  i = j
  <2>1. CASE i \in 1..Len(b) /\ j \in 1..Len(b)
    BY <2>1, <1>1, <1>3, <1>5 DEF UniqueNames
  <2>2. CASE i \notin 1..Len(b) /\ j \notin 1..Len(b)
    BY <2>2, <1>1
  <2>3. CASE i \in 1..Len(b) /\ j \notin 1..Len(b)
    BY <2>3, <1>2, <1>3, <1>4, <1>5
  <2>4. CASE i \notin 1..Len(b) /\ j \in 1..Len(b)
    BY <2>4, <1>2, <1>3, <1>4, <1>5
  <2> QED  BY <2>1, <2>2, <2>3, <2>4
<1> QED  BY <1>1, <1>5 DEF UniqueNames, a

-----------------------------------------------------------------------------
\* The variables are the names of the entries.
LEMMA EnvOfDomain ==
  ASSUME NEW b
  PROVE  DOMAIN EnvOf(b) = {NameOf(b[i]) : i \in DOMAIN b}
BY DEF EnvOf

\* When no name has two entries, every entry gives its variable the value.
LEMMA EnvOfAt ==
  ASSUME NEW S, NEW b \in Seq(S), UniqueNames(b), NEW i \in 1..Len(b)
  PROVE  EnvOf(b)[NameOf(b[i])] = ValueOf(b[i])
<1> DEFINE n == NameOf(b[i])
<1> DEFINE I == {k \in 1..Len(b) : NameOf(b[k]) = n}
<1>1. Len(b) \in Nat /\ DOMAIN b = 1..Len(b)
  BY LenProperties
<1>2. I = {i}
  BY <1>1 DEF UniqueNames
<1>3. Max(I) = i
  <2>1. i \in Nat
    BY <1>1
  <2>2. Max({i}) = i
    <3> HIDE DEF I
    <3> QED  BY <2>1 DEF Max
  <2> HIDE DEF I
  <2> QED  BY <1>2, <2>2
<1>4. SelectLastInSeq(b, LAMBDA e : NameOf(e) = n) = i
  <2>1. SelectLastInSeq(b, LAMBDA e : NameOf(e) = n) = IF I # {} THEN Max(I) ELSE 0
    BY DEF SelectLastInSeq
  <2> QED  BY <2>1, <1>2, <1>3
<1>5. n \in {NameOf(b[k]) : k \in DOMAIN b}
  BY <1>1
<1>6. EnvOf(b)[n] = ValueOf(b[SelectLastInSeq(b, LAMBDA e : NameOf(e) = n)])
  <2> HIDE DEF n
  <2> QED  BY <1>5 DEF EnvOf
<1> QED  BY <1>4, <1>6

\* A removal stores one entry or none, so no name has two.
LEMMA RemovedUnique ==
  ASSUME NEW b, NEW n
  PROVE  UniqueNames(Removed(b, n))
<1>1. CASE Kept(b, n) = <<>>
  BY <1>1 DEF Removed, UniqueNames
<1>2. CASE Kept(b, n) # <<>>
  <2>1. DOMAIN Removed(b, n) = {1}
    BY <1>2 DEF Removed
  <2> QED  BY <2>1 DEF UniqueNames
<1> QED  BY <1>1, <1>2

\* add_or_replace_environment_value, on every block without equal names: the variable
\* has the new value afterwards, and every other one keeps its own.
THEOREM AdditionUpdatesOne ==
  ASSUME NEW b \in Seq(Seq(Chars)), UniqueNames(b),
         NEW n \in Seq(Chars), NEW v \in Seq(Chars), \A i \in 1..Len(n) : n[i] # "="
  PROVE  LET before == EnvOf(b)
             after  == EnvOf(AddOrReplace(b, n, v))
         IN  /\ DOMAIN after = DOMAIN before \cup {n}
             /\ \A m \in DOMAIN after \ {n} : after[m] = before[m]
             /\ after[n] = v
<1> DEFINE S == Seq(Chars)
<1> DEFINE e == Entry(n, v)
<1> DEFINE a == AddOrReplace(b, n, v)
<1>1. e \in S /\ NameOf(e) = n /\ ValueOf(e) = v
  BY EntryProperties, NameOfEntry, ValueOfEntry
<1>2. /\ a \in Seq(S) /\ UniqueNames(a)
      /\ Len(b) \in Nat /\ DOMAIN b = 1..Len(b)
      /\ Len(a) \in Nat /\ DOMAIN a = 1..Len(a)
      /\ Len(a) = IF Has(b, n) THEN Len(b) ELSE Len(b) + 1
  <2>1. a \in Seq(S) /\ Len(a) = IF Has(b, n) THEN Len(b) ELSE Len(b) + 1
    BY <1>1, AddOrReplaceType
  <2>2. UniqueNames(a)
    BY <1>1, AddOrReplaceUnique
  <2> HIDE DEF a
  <2> QED  BY <2>1, <2>2, LenProperties
<1>3. /\ \A i \in 1..Len(b) : a[i] = IF NameOf(b[i]) = n THEN e ELSE b[i]
      /\ \A i \in 1..Len(a) : i \notin 1..Len(b) => a[i] = e /\ ~Has(b, n)
      /\ \A i \in 1..Len(a) : NameOf(a[i]) = n => a[i] = e
      /\ \E i \in 1..Len(a) : NameOf(a[i]) = n
  BY <1>1, AddOrReplaceElements
<1> HIDE DEF a, e
<1>4. 1..Len(b) \subseteq 1..Len(a)
  BY <1>2
<1>5. /\ DOMAIN EnvOf(a) = {NameOf(a[i]) : i \in 1..Len(a)}
      /\ DOMAIN EnvOf(b) = {NameOf(b[i]) : i \in 1..Len(b)}
  BY <1>2, EnvOfDomain
<1>6. \A i \in 1..Len(b) : NameOf(a[i]) = NameOf(b[i])
  BY <1>1, <1>3
<1>7. DOMAIN EnvOf(a) = DOMAIN EnvOf(b) \cup {n}
  <2>1. ASSUME NEW m \in DOMAIN EnvOf(a)  PROVE m \in DOMAIN EnvOf(b) \cup {n}
    <3>1. PICK i \in 1..Len(a) : m = NameOf(a[i])
      BY <1>5
    <3> QED  BY <3>1, <1>1, <1>3, <1>5, <1>6
  <2>2. n \in DOMAIN EnvOf(a)
    BY <1>3, <1>5
  <2>3. DOMAIN EnvOf(b) \subseteq DOMAIN EnvOf(a)
    BY <1>4, <1>5, <1>6
  <2> QED  BY <2>1, <2>2, <2>3
<1>8. ASSUME NEW m \in DOMAIN EnvOf(a) \ {n}  PROVE EnvOf(a)[m] = EnvOf(b)[m]
  <2>1. PICK i \in 1..Len(a) : m = NameOf(a[i])
    BY <1>5
  <2>2. i \in 1..Len(b) /\ a[i] = b[i]
    BY <2>1, <1>1, <1>3
  <2>3. EnvOf(a)[NameOf(a[i])] = ValueOf(a[i])
    BY <1>2, EnvOfAt
  <2>4. EnvOf(b)[NameOf(b[i])] = ValueOf(b[i])
    BY <2>2, EnvOfAt
  <2> QED  BY <2>1, <2>2, <2>3, <2>4
<1>9. EnvOf(a)[n] = v
  <2>1. PICK i \in 1..Len(a) : NameOf(a[i]) = n /\ a[i] = e
    BY <1>3
  <2>2. EnvOf(a)[NameOf(a[i])] = ValueOf(a[i])
    BY <1>2, EnvOfAt
  <2> QED  BY <2>1, <2>2, <1>1
<1> QED  BY <1>7, <1>8, <1>9 DEF a

\* remove_environment_value, on every block without equal names and as long as one other
\* variable, or none, is left: the variable is gone, and every other one keeps its value.
THEOREM RemovalUpdatesOne ==
  ASSUME NEW b \in Seq(Seq(Chars)), UniqueNames(b), NEW n, Len(Kept(b, n)) <= 1
  PROVE  LET before == EnvOf(b)
             after  == EnvOf(Removed(b, n))
         IN  /\ DOMAIN after = DOMAIN before \ {n}
             /\ \A m \in DOMAIN after \ {n} : after[m] = before[m]
<1> DEFINE S == Seq(Chars)
<1> DEFINE k == Kept(b, n)
<1> DEFINE a == Removed(b, n)
<1>1. /\ Len(b) \in Nat /\ DOMAIN b = 1..Len(b)
      /\ k \in Seq(S) /\ Len(k) \in Nat
  BY KeptType, LenProperties
<1>2. /\ \A j \in 1..Len(k) : \E i \in 1..Len(b) : k[j] = b[i] /\ NameOf(b[i]) # n
      /\ \A i \in 1..Len(b) : NameOf(b[i]) # n => \E j \in 1..Len(k) : k[j] = b[i]
  BY KeptElements
<1>3. a = k
  <2>1. CASE k = <<>>
    BY <2>1 DEF Removed
  <2>2. CASE k # <<>>
    <3> DEFINE e == k[1]
    <3>2. k = <<e>> /\ e \in S
      <4>1. k \in Seq(S) /\ k # <<>> /\ Len(k) <= 1
        BY <2>2, <1>1
      <4> HIDE DEF k, S
      <4> QED  BY <4>1, OneElement
    <3>3. FlattenSeq(<<e>>) = e
      BY <3>2, FlattenOne
    <3>4. a = <<FlattenSeq(k)>>
      BY <2>2 DEF Removed
    <3> HIDE DEF a, k, e
    <3> QED  BY <3>2, <3>3, <3>4
  <2> QED  BY <2>1, <2>2
<1>4. UniqueNames(a)
  BY RemovedUnique
<1> HIDE DEF a, k
<1>5. /\ DOMAIN EnvOf(a) = {NameOf(k[i]) : i \in 1..Len(k)}
      /\ DOMAIN EnvOf(b) = {NameOf(b[i]) : i \in 1..Len(b)}
  BY <1>1, <1>3, EnvOfDomain, LenProperties
<1>6. DOMAIN EnvOf(a) = DOMAIN EnvOf(b) \ {n}
  BY <1>2, <1>5
<1>7. ASSUME NEW m \in DOMAIN EnvOf(a)  PROVE EnvOf(a)[m] = EnvOf(b)[m]
  <2>1. PICK j \in 1..Len(k) : m = NameOf(k[j])
    BY <1>5
  <2>2. PICK i \in 1..Len(b) : k[j] = b[i]
    BY <1>2
  <2>3. EnvOf(a)[NameOf(k[j])] = ValueOf(k[j])
    BY <1>1, <1>3, <1>4, EnvOfAt
  <2>4. EnvOf(b)[NameOf(b[i])] = ValueOf(b[i])
    BY EnvOfAt
  <2> QED  BY <2>1, <2>2, <2>3, <2>4
<1> QED  BY <1>6, <1>7 DEF a
=============================================================================
