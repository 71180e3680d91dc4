-------------------------- MODULE EnvRegistryProofs --------------------------
(***************************************************************************)
(* The properties of EnvRegistry, for every number of processes, all names *)
(* and values, and values of every length the registry accepts.            *)
(*                                                                         *)
(* What a process has read is a copy of a value that was stored, so what   *)
(* holds of every stored value holds of every copy, however old, and of    *)
(* what is made of it.                                                     *)
(***************************************************************************)
EXTENDS EnvRegistry, EnvBlockProofs

\* The record of a call.
CallRecords ==
  [at : Points, op : {"none", "get", "add", "remove"},
   name : Names \cup {<<>>}, value : Values \cup {<<>>},
   key : BOOLEAN, size : Nat, data : Seq(Rows), dataLen : Nat]

\* A change has a name, an addition a value, and what was read has no equal names.
CallOK(k) ==
  /\ k.op = "none" <=> k.at = "idle"
  /\ k.op \in {"add", "remove"} => k.name \in Names
  /\ k.op = "add" => k.value \in Values
  /\ k.data = <<>> <=> k.dataLen = 0
  /\ UniqueNames(k.data)

\* The value: rows of entries, with no equal names, and a length unless it is absent.
BlockOK ==
  /\ environment \in [entries : Seq(Rows), len : Nat]
  /\ environment.entries = <<>> <=> environment.len = 0
  /\ UniqueNames(environment.entries)

\* A key that is open is the key of a service that exists.
CallsOK ==
  /\ call \in [Clients -> CallRecords]
  /\ \A c \in Clients : CallOK(call[c]) /\ (call[c].key => registered)

\* The inductive invariant.
IInv ==
  /\ registered \in BOOLEAN
  /\ BlockOK
  /\ ~registered => environment = Missing
  /\ CallsOK

-----------------------------------------------------------------------------
\* What is assumed of the names, the values and the bound.
LEMMA Constants ==
  /\ \A n \in Names : n \in Seq(Chars) /\ n # <<>> /\ \A i \in 1..Len(n) : n[i] # "="
  /\ \A v \in Values : v \in Seq(Chars)
  /\ MaxBytes \in Nat
<1>1. \A s \in Seq(STRING) : s \in Seq(Chars)
  BY SeqMonotonic DEF Chars
<1> QED  BY <1>1, EnvRegistryAssumption, PlainNames DEF Contains

\* An entry that is asked for has a name, "=" and is read back as what it was given.
LEMMA AskedProperties ==
  ASSUME NEW n \in Names, NEW v \in Values
  PROVE  /\ Entry(n, v) \in Asked
         /\ Entry(n, v) \in Seq(Chars) /\ Len(Entry(n, v)) \in Nat /\ Len(Entry(n, v)) >= 2
         /\ NameOf(Entry(n, v)) = n /\ ValueOf(Entry(n, v)) = v
<1>1. n \in Seq(Chars) /\ v \in Seq(Chars) /\ n # <<>> /\ \A i \in 1..Len(n) : n[i] # "="
  BY Constants
<1>2. Entry(n, v) \in Asked
  BY DEF Asked
<1>3. Len(n) \in Nat \ {0}
  BY <1>1, EmptySeq
<1>4. /\ Entry(n, v) \in Seq(Chars) /\ Len(v) \in Nat
      /\ Len(Entry(n, v)) = Len(n) + 1 + Len(v)
  BY <1>1, EntryProperties
<1>5. NameOf(Entry(n, v)) = n /\ ValueOf(Entry(n, v)) = v
  BY <1>1, NameOfEntry, ValueOfEntry
<1> QED  BY <1>2, <1>3, <1>4, <1>5

\* The shortest entry is a name of one character and "=".
LEMMA AskedType ==
  \A a \in Asked : a \in Seq(Chars) /\ Len(a) \in Nat /\ Len(a) >= 2
BY AskedProperties DEF Asked

\* A row of n entries has 2 n characters or more.
LEMMA RowLength ==
  \A s \in Seq(Asked) : /\ FlattenSeq(s) \in Seq(Chars)
                        /\ Len(FlattenSeq(s)) \in Nat
                        /\ 2 * Len(s) <= Len(FlattenSeq(s))
<1> DEFINE T == {s \in Seq(Asked) : 2 * Len(s) <= Len(FlattenSeq(s))}
<1>1. Asked \subseteq Seq(Chars)
  BY AskedType
<1>2. \A s \in Seq(Asked) : s \in Seq(Seq(Chars))
  BY <1>1, SeqMonotonic
<1>3. \A s \in Seq(Asked) : FlattenSeq(s) \in Seq(Chars) /\ Len(FlattenSeq(s)) \in Nat
  BY <1>2, FlattenType, LenProperties
<1>4. <<>> \in T
  BY FlattenEmpty, EmptySeq
<1>5. ASSUME NEW s \in Seq(Asked), NEW a \in Asked, s \in T
      PROVE  Append(s, a) \in T
  <2>1. Append(s, a) \in Seq(Asked) /\ Len(Append(s, a)) = Len(s) + 1 /\ Len(s) \in Nat
    BY AppendProperties, LenProperties
  <2>2. FlattenSeq(Append(s, a)) = FlattenSeq(s) \o a
    BY <1>1, <1>2, FlattenAppend
  <2>3. Len(FlattenSeq(s) \o a) = Len(FlattenSeq(s)) + Len(a)
    BY <1>3, AskedType, ConcatProperties
  <2> QED  BY <2>1, <2>2, <2>3, <1>3, <1>5, AskedType
<1>6. Seq(Asked) \subseteq T
  <2> HIDE DEF T
  <2> QED  BY <1>4, <1>5, SeqSetInduction
<1> QED  BY <1>3, <1>6

\* Entries that fit the registry in one row are one of Rows.
LEMMA RowIntro ==
  ASSUME NEW s \in Seq(Asked), s # <<>>, Len(FlattenSeq(s)) <= MaxBytes
  PROVE  FlattenSeq(s) \in Rows
<1>1. /\ Len(s) \in Nat \ {0} /\ s \in [1..Len(s) -> Asked]
  BY EmptySeq, LenProperties
<1>2. 2 * Len(s) <= MaxBytes
  BY <1>1, RowLength, Constants
<1>3. Len(s) \in 1..(MaxBytes \div 2)
  BY <1>1, <1>2, Constants
<1> QED  BY <1>1, <1>3 DEF Rows

\* A row consists of entries that were asked for.
LEMMA RowElim ==
  ASSUME NEW r \in Rows
  PROVE  /\ \E s \in Seq(Asked) : s # <<>> /\ r = FlattenSeq(s)
         /\ r \in Seq(Chars) /\ Len(r) \in Nat /\ Len(r) >= 2
<1>1. PICK n \in 1..(MaxBytes \div 2) : \E s \in [1..n -> Asked] : r = FlattenSeq(s)
  BY DEF Rows
<1>2. PICK s \in [1..n -> Asked] : r = FlattenSeq(s)
  BY <1>1
<1>3. n \in Nat /\ n >= 1
  BY Constants
<1>4. s \in Seq(Asked) /\ Len(s) = n
  BY <1>3
<1>5. s # <<>>
  BY <1>3, <1>4, EmptySeq
<1>6. Len(r) >= 2
  BY <1>2, <1>3, <1>4, RowLength
<1> QED  BY <1>2, <1>4, <1>5, <1>6, RowLength

\* Rows, and blocks of rows, are sequences of characters.
LEMMA RowsType ==
  /\ Rows \subseteq Seq(Chars)
  /\ \A b \in Seq(Rows) : b \in Seq(Seq(Chars)) /\ FlattenSeq(b) \in Seq(Chars)
                         /\ Len(FlattenSeq(b)) \in Nat /\ Len(b) \in Nat
<1>1. Rows \subseteq Seq(Chars)
  BY RowElim
<1>2. \A b \in Seq(Rows) : b \in Seq(Seq(Chars))
  BY <1>1, SeqMonotonic
<1> QED  BY <1>1, <1>2, FlattenType, LenProperties

\* Rows printed one behind the other are a row again.
LEMMA RowsJoined ==
  \A k \in Seq(Rows) :
     k # <<>> => \E s \in Seq(Asked) : s # <<>> /\ FlattenSeq(k) = FlattenSeq(s)
<1> DEFINE T == {k \in Seq(Rows) :
                  k # <<>> => \E s \in Seq(Asked) : s # <<>> /\ FlattenSeq(k) = FlattenSeq(s)}
<1>0. \A s \in Seq(Asked) : s \in Seq(Seq(Chars))
  BY AskedType, SeqMonotonic
<1>1. <<>> \in T
  BY EmptySeq
<1>2. ASSUME NEW k \in Seq(Rows), NEW r \in Rows, k \in T
      PROVE  Append(k, r) \in T
  <2>1. /\ Append(k, r) \in Seq(Rows)
        /\ FlattenSeq(Append(k, r)) = FlattenSeq(k) \o r
    BY RowsType, FlattenAppend, AppendProperties
  <2>2. PICK t \in Seq(Asked) : t # <<>> /\ r = FlattenSeq(t)
    BY RowElim
  <2>3. CASE k = <<>>
    <3>1. FlattenSeq(k) \o r = r
      BY <2>3, FlattenEmpty, RowElim, ConcatEmptySeq
    <3> QED  BY <3>1, <2>1, <2>2
  <2>4. CASE k # <<>>
    <3>1. PICK s \in Seq(Asked) : s # <<>> /\ FlattenSeq(k) = FlattenSeq(s)
      BY <1>2, <2>4
    <3>2. s \o t \in Seq(Asked) /\ s \o t # <<>>
      BY <3>1, ConcatProperties, ConcatEqualIffEmpty
    <3>3. FlattenSeq(s \o t) = FlattenSeq(s) \o FlattenSeq(t)
      BY <1>0, FlattenConcat
    <3> QED  BY <2>1, <2>2, <3>1, <3>2, <3>3
  <2> QED  BY <2>3, <2>4
<1>3. Seq(Rows) \subseteq T
  <2> HIDE DEF T
  <2> QED  BY <1>1, <1>2, SeqSetInduction
<1> QED  BY <1>3

-----------------------------------------------------------------------------
\* What an addition hands to the registry, when the registry accepts its length.
LEMMA AddStored ==
  ASSUME NEW b \in Seq(Rows), UniqueNames(b), NEW n \in Names, NEW v \in Values,
         BytesOfAdd(b, n, v) <= MaxBytes
  PROVE  /\ AddOrReplace(b, n, v) \in Seq(Rows) /\ AddOrReplace(b, n, v) # <<>>
         /\ UniqueNames(AddOrReplace(b, n, v))
         /\ BytesOfAdd(b, n, v) \in Nat \ {0}
<1> DEFINE e == Entry(n, v)
<1> DEFINE a == AddOrReplace(b, n, v)
<1> DEFINE S == Rows \cup {e}
<1>1. /\ e \in Asked /\ e \in Seq(Chars) /\ NameOf(e) = n /\ Len(e) \in Nat
  BY AskedProperties
<1>2. b \in Seq(S) /\ e \in S
  BY SeqMonotonic
<1>3. a \in Seq(S) /\ Len(a) \in Nat \ {0} /\ UniqueNames(a)
  BY <1>1, <1>2, AddOrReplaceType, AddOrReplaceUnique
<1>4. \E i \in 1..Len(a) : a[i] = e
  <2>1. /\ \A i \in 1..Len(a) : NameOf(a[i]) = n => a[i] = e
        /\ \E i \in 1..Len(a) : NameOf(a[i]) = n
    BY <1>1, <1>2, AddOrReplaceElements
  <2> HIDE DEF a, e
  <2> QED  BY <2>1
<1> HIDE DEF a, e
<1>5. S \subseteq Seq(Chars)
  BY <1>1, RowsType
<1>6. a \in Seq(Seq(Chars))
  BY <1>3, <1>5, SeqMonotonic
<1>7. FlattenSeq(a) \in Seq(Chars) /\ Len(FlattenSeq(a)) \in Nat
  BY <1>6, FlattenType, LenProperties
<1>8. BytesOfAdd(b, n, v) \in Nat /\ BytesOfAdd(b, n, v) >= Len(FlattenSeq(a)) + 1
  BY <1>3, <1>7 DEF BytesOfAdd, Bytes, a
<1>9. Len(e) <= MaxBytes
  <2>1. Len(e) <= Len(FlattenSeq(a))
    BY <1>4, <1>6, FlattenLonger
  <2> QED  BY <2>1, <1>1, <1>7, <1>8, Constants
<1>10. e \in Rows
  <2>1. <<e>> \in Seq(Asked) /\ <<e>> # <<>>
    BY <1>1
  <2>2. FlattenSeq(<<e>>) = e
    BY <1>1, FlattenOne
  <2> QED  BY <2>1, <2>2, <1>9, RowIntro
<1>11. S = Rows
  BY <1>10
<1>12. a # <<>>
  BY <1>3, EmptySeq
<1> QED  BY <1>3, <1>8, <1>7, <1>11, <1>12 DEF a

\* What a removal hands to the registry: a row of what is left, or nothing.
LEMMA RemoveStored ==
  ASSUME NEW b \in Seq(Rows), NEW n, BytesOfRemove(b, n) <= MaxBytes
  PROVE  /\ Removed(b, n) \in Seq(Rows) /\ UniqueNames(Removed(b, n))
         /\ BytesOfRemove(b, n) \in Nat
         /\ Removed(b, n) = <<>> <=> BytesOfRemove(b, n) = 0
<1> DEFINE k == Kept(b, n)
<1>1. k \in Seq(Rows)
  BY KeptType
<1>2. UniqueNames(Removed(b, n))
  BY RemovedUnique
<1>3. CASE k = <<>>
  <2>1. Removed(b, n) = <<>> /\ BytesOfRemove(b, n) = 0
    BY <1>3, FlattenEmpty, EmptySeq DEF Removed, BytesOfRemove
  <2> QED  BY <1>2, <2>1, EmptySeq
<1>4. CASE k # <<>>
  <2>1. PICK s \in Seq(Asked) : s # <<>> /\ FlattenSeq(k) = FlattenSeq(s)
    BY <1>1, <1>4, RowsJoined
  <2>2. Len(s) \in Nat \ {0}
    BY <2>1, EmptySeq
  <2> DEFINE l == Len(FlattenSeq(k))
  <2>3. l \in Nat /\ l >= 2
    BY <2>1, <2>2, RowLength
  <2>4. BytesOfRemove(b, n) = l + 1
    BY <2>3 DEF BytesOfRemove
  <2>5. FlattenSeq(k) \in Rows
    BY <2>1, <2>3, <2>4, RowIntro, Constants
  <2>6. Removed(b, n) = <<FlattenSeq(k)>>
    BY <1>4 DEF Removed
  <2>7. Removed(b, n) \in Seq(Rows) /\ Removed(b, n) # <<>>
    <3> HIDE DEF k
    <3> QED  BY <2>5, <2>6
  <2> QED  BY <1>2, <2>3, <2>4, <2>7
<1> QED  BY <1>3, <1>4

-----------------------------------------------------------------------------
\* An empty block has no equal names.
LEMMA EmptyUnique == UniqueNames(<<>>)
BY DEF UniqueNames

\* A process without a call satisfies the invariant.
LEMMA NoCallOK == NoCall \in CallRecords /\ CallOK(NoCall) /\ ~NoCall.key
BY EmptyUnique, EmptySeq DEF NoCall, CallRecords, CallOK, Points

\* A step of one process leaves the calls of the others alone.
LEMMA OneCall ==
  ASSUME CallsOK, NEW c \in Clients, NEW k \in CallRecords, CallOK(k), k.key => registered,
         call' = [call EXCEPT ![c] = k], UNCHANGED registered
  PROVE  CallsOK'
<1>1. /\ call \in [Clients -> CallRecords]
      /\ \A d \in Clients : CallOK(call[d]) /\ (call[d].key => registered)
  BY DEF CallsOK
<1>2. \A d \in Clients : call'[d] = IF d = c THEN k ELSE call[d]
  BY <1>1
<1>3. /\ call' \in [Clients -> CallRecords]
      /\ \A d \in Clients : CallOK(call'[d]) /\ (call'[d].key => registered')
  BY <1>1, <1>2
<1> QED  BY <1>3 DEF CallsOK, CallOK

\* A value that is there has entries, and is read with a length.
LEMMA ReadLenPositive ==
  ASSUME BlockOK, environment # Missing
  PROVE  ReadLen \in Nat \ {0} /\ environment.entries # <<>>
<1>1. environment.entries \in Seq(Rows) /\ environment.len \in Nat
      /\ environment = [entries |-> environment.entries, len |-> environment.len]
  BY DEF BlockOK
<1>2. environment.entries # <<>> /\ environment.len # 0
  BY <1>1 DEF BlockOK, Missing
<1>3. Bytes(environment.entries) \in Nat
  BY <1>1, RowsType DEF Bytes
<1> QED  BY <1>1, <1>2, <1>3 DEF ReadLen

\* The initial states satisfy the invariant.
LEMMA InitInv == Init => IInv
<1> SUFFICES ASSUME Init  PROVE IInv
  OBVIOUS
<1>1. Missing \in [entries : Seq(Rows), len : Nat] /\ Missing.entries = <<>> /\ Missing.len = 0
  BY EmptySeq DEF Missing
<1>2. CallsOK
  BY NoCallOK DEF Init, CallsOK
<1> QED  BY <1>1, <1>2, EmptyUnique DEF Init, IInv, BlockOK

\* The deletion takes the value and all open keys.
LEMMA DeletedInv == IInv /\ ServiceDeleted => IInv'
<1> SUFFICES ASSUME IInv, ServiceDeleted  PROVE IInv'
  OBVIOUS
<1>1. Missing \in [entries : Seq(Rows), len : Nat] /\ Missing.entries = <<>> /\ Missing.len = 0
  BY EmptySeq DEF Missing
<1>2. BlockOK'
  BY <1>1, EmptyUnique DEF ServiceDeleted, BlockOK
<1>3. ASSUME NEW c \in Clients
      PROVE  call'[c] \in CallRecords /\ CallOK(call'[c]) /\ ~call'[c].key
  <2>1. call[c] \in CallRecords /\ CallOK(call[c])
    BY DEF IInv, CallsOK
  <2>2. call'[c] = [call[c] EXCEPT !.key = FALSE]
    BY DEF ServiceDeleted
  <2> DEFINE k == call'[c]
  <2>3. /\ k \in CallRecords
        /\ k.at = call[c].at /\ k.op = call[c].op /\ k.name = call[c].name /\ k.value = call[c].value
        /\ k.data = call[c].data /\ k.dataLen = call[c].dataLen
        /\ ~k.key
    BY <2>1, <2>2 DEF CallRecords
  <2> HIDE DEF k
  <2>4. CallOK(k)
    BY <2>1, <2>3 DEF CallOK
  <2> QED  BY <2>3, <2>4 DEF k
<1>4. call' \in [Clients -> CallRecords]
  <2>1. call' = [c \in Clients |-> call'[c]]
    BY DEF ServiceDeleted
  <2> QED  BY <2>1, <1>3
<1>5. CallsOK'
  BY <1>3, <1>4 DEF CallsOK, CallOK
<1> QED  BY <1>2, <1>5 DEF IInv, ServiceDeleted

\* A call that ends.
LEMMA OverInv ==
  ASSUME IInv, NEW c \in Clients, Over(c), UNCHANGED registered
  PROVE  CallsOK'
BY NoCallOK, OneCall DEF Over, IInv

\* A call that goes on keeps what it was asked for.
LEMMA GoesOn ==
  ASSUME IInv, NEW c \in Clients, call[c].at # "idle",
         NEW k \in CallRecords, k.at # "idle",
         k.op = call[c].op, k.name = call[c].name, k.value = call[c].value,
         UniqueNames(k.data), k.data = <<>> <=> k.dataLen = 0,
         k.key => registered, call' = [call EXCEPT ![c] = k], UNCHANGED registered
  PROVE  CallsOK'
<1>1. CallsOK /\ CallOK(call[c])
  BY DEF IInv, CallsOK
<1>2. CallOK(k)
  BY <1>1 DEF CallOK
<1> QED  BY <1>1, <1>2, OneCall

\* A new call.
LEMMA CallsInv ==
  ASSUME IInv, NEW c \in Clients, NEW op \in {"get", "add", "remove"},
         NEW n \in Names \cup {<<>>}, NEW v \in Values \cup {<<>>},
         op \in {"add", "remove"} => n \in Names, op = "add" => v \in Values,
         Calls(c, op, n, v)
  PROVE  IInv'
<1> DEFINE k == [NoCall EXCEPT !.at = "size", !.op = op, !.name = n, !.value = v]
<1>1. /\ k \in CallRecords
      /\ k.at = "size" /\ k.op = op /\ k.name = n /\ k.value = v
      /\ k.data = <<>> /\ k.dataLen = 0 /\ ~k.key
  BY EmptySeq DEF NoCall, CallRecords, Points
<1>2. call' = [call EXCEPT ![c] = k] /\ UNCHANGED <<registered, environment>>
  BY DEF Calls
<1> HIDE DEF k
<1>3. CallOK(k)
  BY <1>1, EmptyUnique DEF CallOK
<1>4. CallsOK'
  BY <1>1, <1>2, <1>3, OneCall DEF IInv
<1> QED  BY <1>2, <1>4 DEF IInv, BlockOK

\* There is no value: an addition goes on, without data.
LEMMA WithoutValueInv ==
  ASSUME IInv, NEW c \in Clients, call[c].at # "idle", WithoutValue(c),
         UNCHANGED registered
  PROVE  CallsOK'
<1>1. CASE call[c].op = "add"
  <2> DEFINE k == [call[c] EXCEPT !.at = "open", !.key = FALSE, !.size = 0]
  <2>1. call \in [Clients -> CallRecords] /\ call[c] \in CallRecords /\ CallOK(call[c])
    BY DEF IInv, CallsOK
  <2>2. /\ k \in CallRecords
        /\ k.at = "open" /\ k.op = call[c].op /\ k.name = call[c].name /\ k.value = call[c].value
        /\ k.data = call[c].data /\ k.dataLen = call[c].dataLen /\ ~k.key
    BY <2>1 DEF CallRecords, Points
  <2>3. call' = [call EXCEPT ![c] = k]
    BY <1>1, <2>1 DEF WithoutValue, CallRecords
  <2>4. UniqueNames(k.data) /\ (k.data = <<>> <=> k.dataLen = 0)
    BY <2>1, <2>2 DEF CallOK
  <2> HIDE DEF k
  <2> QED  BY <2>2, <2>3, <2>4, GoesOn
<1>2. CASE call[c].op # "add"
  BY <1>2, OverInv DEF WithoutValue
<1> QED  BY <1>1, <1>2

\* The question for the size opens the key of a service that exists.
LEMMA ReadsSizeInv ==
  ASSUME IInv, NEW c \in Clients, ReadsSize(c)
  PROVE  IInv'
<1>1. call[c].at = "size" /\ UNCHANGED <<registered, environment>>
  BY DEF ReadsSize
<1>2. CallsOK'
  <2>1. CASE ~registered /\ Over(c)
    BY <2>1, <1>1, OverInv
  <2>2. CASE registered /\ environment = Missing /\ WithoutValue(c)
    BY <2>2, <1>1, WithoutValueInv
  <2>3. CASE /\ registered /\ environment # Missing
             /\ call' = [call EXCEPT ![c].at = "read", ![c].key = TRUE, ![c].size = ReadLen]
    <3> DEFINE k == [call[c] EXCEPT !.at = "read", !.key = TRUE, !.size = ReadLen]
    <3>1. call \in [Clients -> CallRecords] /\ call[c] \in CallRecords /\ CallOK(call[c])
      BY DEF IInv, CallsOK
    <3>2. ReadLen \in Nat
      BY <2>3, ReadLenPositive DEF IInv
    <3>3. /\ k \in CallRecords
          /\ k.at = "read" /\ k.op = call[c].op /\ k.name = call[c].name /\ k.value = call[c].value
          /\ k.data = call[c].data /\ k.dataLen = call[c].dataLen
      BY <3>1, <3>2 DEF CallRecords, Points
    <3>4. call' = [call EXCEPT ![c] = k]
      BY <2>3, <3>1 DEF CallRecords
    <3>5. UniqueNames(k.data) /\ (k.data = <<>> <=> k.dataLen = 0)
      BY <3>1, <3>3 DEF CallOK
    <3> HIDE DEF k
    <3> QED  BY <1>1, <2>3, <3>3, <3>4, <3>5, GoesOn
  <2> QED  BY <2>1, <2>2, <2>3 DEF ReadsSize
<1> QED  BY <1>1, <1>2 DEF IInv, BlockOK

\* What is read is what is stored.
LEMMA ReadsValueInv ==
  ASSUME IInv, NEW c \in Clients, ReadsValue(c)
  PROVE  IInv'
<1>1. call[c].at = "read" /\ UNCHANGED <<registered, environment>>
  BY DEF ReadsValue
<1>2. CallsOK'
  <2>1. CASE Over(c)
    BY <2>1, <1>1, OverInv
  <2>2. CASE WithoutValue(c)
    BY <2>2, <1>1, WithoutValueInv
  <2>3. CASE environment # Missing /\ Obtains(c, environment.entries)
    <3>1. CASE call[c].op = "get"
      BY <2>3, <3>1, <1>1, OverInv DEF Obtains
    <3>2. CASE call[c].op # "get"
      <4> DEFINE k == [call[c] EXCEPT !.at = "open", !.key = FALSE, !.size = 0,
                                      !.data = environment.entries, !.dataLen = ReadLen]
      <4>1. call \in [Clients -> CallRecords] /\ call[c] \in CallRecords /\ BlockOK
        BY DEF IInv, CallsOK
      <4>2. /\ ReadLen \in Nat \ {0} /\ environment.entries # <<>>
            /\ environment.entries \in Seq(Rows) /\ UniqueNames(environment.entries)
        BY <2>3, <4>1, ReadLenPositive DEF BlockOK
      <4>3. /\ k \in CallRecords
            /\ k.at = "open" /\ k.op = call[c].op /\ k.name = call[c].name /\ k.value = call[c].value
            /\ k.data = environment.entries /\ k.dataLen = ReadLen /\ ~k.key
        BY <4>1, <4>2 DEF CallRecords, Points
      <4>4. call' = [call EXCEPT ![c] = k]
        BY <2>3, <3>2, <4>1 DEF Obtains, CallRecords
      <4> HIDE DEF k
      <4> QED  BY <1>1, <4>2, <4>3, <4>4, GoesOn
    <3> QED  BY <3>1, <3>2
  <2> QED  BY <2>1, <2>2, <2>3 DEF ReadsValue
<1> QED  BY <1>1, <1>2 DEF IInv, BlockOK

\* The second key, for writing, is the key of a service that exists.
LEMMA OpensKeyInv ==
  ASSUME IInv, NEW c \in Clients, OpensKey(c)
  PROVE  IInv'
<1>1. call[c].at = "open" /\ UNCHANGED <<registered, environment>>
  BY DEF OpensKey
<1>2. CallsOK'
  <2>1. CASE registered
    <3> DEFINE k == [call[c] EXCEPT !.at = "write", !.key = TRUE]
    <3>1. call \in [Clients -> CallRecords] /\ call[c] \in CallRecords /\ CallOK(call[c])
      BY DEF IInv, CallsOK
    <3>2. /\ k \in CallRecords
          /\ k.at = "write" /\ k.op = call[c].op /\ k.name = call[c].name /\ k.value = call[c].value
          /\ k.data = call[c].data /\ k.dataLen = call[c].dataLen
      BY <3>1 DEF CallRecords, Points
    <3>3. call' = [call EXCEPT ![c] = k]
      BY <2>1, <3>1 DEF OpensKey, CallRecords
    <3>4. UniqueNames(k.data) /\ (k.data = <<>> <=> k.dataLen = 0)
      BY <3>1, <3>2 DEF CallOK
    <3> HIDE DEF k
    <3> QED  BY <1>1, <2>1, <3>2, <3>3, <3>4, GoesOn
  <2>2. CASE ~registered
    BY <2>2, <1>1, OverInv DEF OpensKey
  <2> QED  BY <2>1, <2>2
<1> QED  BY <1>1, <1>2 DEF IInv, BlockOK

\* Only through a key of a service that exists is anything stored.
LEMMA StoresInv ==
  ASSUME IInv, NEW c \in Clients, NEW block, NEW bytes, Stores(c, block, bytes),
         bytes <= MaxBytes =>
           /\ block \in Seq(Rows) /\ UniqueNames(block)
           /\ bytes \in Nat /\ (block = <<>> <=> bytes = 0)
  PROVE  IInv'
<1>1. Over(c) /\ UNCHANGED registered
  BY DEF Stores
<1>2. CallsOK'
  BY <1>1, OverInv
<1>3. CASE UNCHANGED environment
  BY <1>1, <1>2, <1>3 DEF IInv, BlockOK
<1>4. CASE /\ call[c].key /\ bytes <= MaxBytes
           /\ environment' = [entries |-> block, len |-> bytes]
  <2>1. registered
    BY <1>4 DEF IInv, CallsOK
  <2>2. BlockOK'
    BY <1>4 DEF BlockOK
  <2> QED  BY <1>1, <1>2, <2>1, <2>2 DEF IInv
<1> QED  BY <1>3, <1>4 DEF Stores

\* An addition stores one block more without equal names.
LEMMA WritesAddInv ==
  ASSUME IInv, NEW c \in Clients, WritesAdd(c)
  PROVE  IInv'
<1> DEFINE k == call[c]
<1>1. /\ k.data \in Seq(Rows) /\ UniqueNames(k.data) /\ k.name \in Names /\ k.value \in Values
  BY DEF IInv, CallsOK, CallRecords, CallOK, WritesAdd
<1> DEFINE block == AddOrReplace(k.data, k.name, k.value)
<1> DEFINE bytes == BytesOfAdd(k.data, k.name, k.value)
<1>2. bytes <= MaxBytes => /\ block \in Seq(Rows) /\ UniqueNames(block)
                          /\ bytes \in Nat /\ (block = <<>> <=> bytes = 0)
  <2> HIDE DEF k
  <2> QED  BY <1>1, AddStored
<1>3. Stores(c, block, bytes)
  BY DEF WritesAdd
<1> HIDE DEF block, bytes
<1> QED  BY <1>2, <1>3, StoresInv

\* A removal stores a row, or deletes the value.
LEMMA WritesRemoveInv ==
  ASSUME IInv, NEW c \in Clients, WritesRemove(c)
  PROVE  IInv'
<1> DEFINE k == call[c]
<1>1. k.data \in Seq(Rows)
  BY DEF IInv, CallsOK, CallRecords
<1> DEFINE block == Removed(k.data, k.name)
<1> DEFINE bytes == BytesOfRemove(k.data, k.name)
<1>2. bytes <= MaxBytes => /\ block \in Seq(Rows) /\ UniqueNames(block)
                          /\ bytes \in Nat /\ (block = <<>> <=> bytes = 0)
  <2> HIDE DEF k
  <2> QED  BY <1>1, RemoveStored
<1>3. Stores(c, block, bytes)
  BY DEF WritesRemove
<1> HIDE DEF block, bytes
<1> QED  BY <1>2, <1>3, StoresInv

-----------------------------------------------------------------------------
\* The inductive invariant holds in every reachable state.
THEOREM InductiveInvariant == Spec => []IInv
<1>1. Init => IInv
  BY InitInv
<1>2. IInv /\ [Next]_vars => IInv'
  <2> SUFFICES ASSUME IInv, [Next]_vars  PROVE IInv'
    OBVIOUS
  <2>1. CASE ServiceCreated
    BY <2>1 DEF ServiceCreated, IInv, BlockOK, CallsOK, CallOK
  <2>2. CASE ServiceDeleted
    BY <2>2, DeletedInv
  <2>3. ASSUME NEW c \in Clients, Calls(c, "get", <<>>, <<>>)  PROVE IInv'
    BY <2>3, CallsInv
  <2>4. ASSUME NEW c \in Clients, NEW n \in Names, Calls(c, "remove", n, <<>>)  PROVE IInv'
    BY <2>4, CallsInv
  <2>5. ASSUME NEW c \in Clients, NEW n \in Names, NEW v \in Values, Calls(c, "add", n, v)
        PROVE  IInv'
    BY <2>5, CallsInv
  <2>6. ASSUME NEW c \in Clients, ReadsSize(c)  PROVE IInv'
    BY <2>6, ReadsSizeInv
  <2>7. ASSUME NEW c \in Clients, ReadsValue(c)  PROVE IInv'
    BY <2>7, ReadsValueInv
  <2>8. ASSUME NEW c \in Clients, OpensKey(c)  PROVE IInv'
    BY <2>8, OpensKeyInv
  <2>9. ASSUME NEW c \in Clients, WritesAdd(c)  PROVE IInv'
    BY <2>9, WritesAddInv
  <2>10. ASSUME NEW c \in Clients, WritesRemove(c)  PROVE IInv'
    BY <2>10, WritesRemoveInv
  <2>11. CASE UNCHANGED vars
    BY <2>11 DEF vars, IInv, BlockOK, CallsOK, CallOK
  <2> QED  BY <2>1, <2>2, <2>3, <2>4, <2>5, <2>6, <2>7, <2>8, <2>9, <2>10, <2>11 DEF Next
<1> QED  BY <1>1, <1>2, PTL DEF Spec

\* The value is absent or has entries, a process reads only through a key it has opened,
\* and between calls nothing of a call is left.
THEOREM TypeCorrect == Spec => []TypeOK
<1>1. IInv => TypeOK
  BY DEF IInv, BlockOK, CallsOK, CallOK, CallRecords, TypeOK
<1> QED  BY <1>1, InductiveInvariant, PTL

\* No variable has two entries, however the calls of the processes interleave with each
\* other and with the deletion of the service.
THEOREM NoDoubles == Spec => []NamesUnique
<1>1. IInv => NamesUnique
  BY DEF IInv, BlockOK, UniqueNames, NamesUnique
<1> QED  BY <1>1, InductiveInvariant, PTL

\* Every stored entry is an entry, or a row of entries, that calls have asked for, although
\* the value can change between the question for its size and its reading.
THEOREM NothingCut == Spec => []EntriesUncut
<1>1. ASSUME IInv  PROVE EntriesUncut
  <2>1. environment.entries \in Seq(Rows)
    BY <1>1 DEF IInv, BlockOK
  <2> QED  BY <2>1, LenProperties, ElementOfSeq DEF EntriesUncut
<1> QED  BY <1>1, InductiveInvariant, PTL

\* A process whose call ends with a new value has written that value itself.
LEMMA StoredByOne ==
  ASSUME IInv, [Next]_vars, NEW c \in Clients,
         call[c].at = "write", environment' # environment, call'[c].at = "idle"
  PROVE  /\ registered' = registered
         /\ \/ /\ call[c].op = "add"
               /\ environment'.entries = AddOrReplace(call[c].data, call[c].name, call[c].value)
            \/ /\ call[c].op = "remove"
               /\ environment'.entries = Removed(call[c].data, call[c].name)
<1>1. call \in [Clients -> CallRecords] /\ call[c] \in CallRecords
  BY DEF IInv, CallsOK
<1>2. ~ServiceDeleted
  <2>1. SUFFICES ASSUME ServiceDeleted  PROVE FALSE
    OBVIOUS
  <2>2. call'[c] = [call[c] EXCEPT !.key = FALSE]
    BY <2>1 DEF ServiceDeleted
  <2>3. call'[c].at = call[c].at
    BY <2>2, <1>1 DEF CallRecords
  <2> QED  BY <2>3
<1>3. \E d \in Clients : WritesAdd(d) \/ WritesRemove(d)
  BY <1>2 DEF Next, vars, ServiceCreated, Calls, ReadsSize, ReadsValue, OpensKey
<1>4. PICK d \in Clients : WritesAdd(d) \/ WritesRemove(d)
  BY <1>3
<1>5. Over(d) /\ UNCHANGED registered
  BY <1>4 DEF WritesAdd, WritesRemove, Stores
<1>6. d = c
  <2>1. d # c => call'[c] = call[c]
    BY <1>1, <1>5 DEF Over
  <2> QED  BY <2>1
<1> QED  BY <1>4, <1>5, <1>6 DEF WritesAdd, WritesRemove, Stores

\* A change whose process has read what is still stored sets, or removes, its own variable
\* and leaves every other one.
THEOREM ChangesItsOwn == Spec => WriteUpdatesOne
<1>1. IInv /\ [Next]_vars =>
        \A c \in Clients :
          /\ call[c].at = "write" /\ environment' # environment
          /\ call'[c].at = "idle" /\ environment.entries = call[c].data
          /\ call[c].op = "remove" => Len(Kept(call[c].data, call[c].name)) <= 1
          => LET before == EnvOf(environment.entries)
                 after  == EnvOf(environment'.entries)
                 own    == call[c].name
             IN  /\ DOMAIN after = IF call[c].op = "add" THEN DOMAIN before \cup {own}
                                   ELSE DOMAIN before \ {own}
                 /\ \A n \in DOMAIN after \ {own} : after[n] = before[n]
                 /\ call[c].op = "add" => after[own] = call[c].value
  <2> SUFFICES ASSUME IInv, [Next]_vars, NEW c \in Clients,
                      call[c].at = "write", environment' # environment,
                      call'[c].at = "idle", environment.entries = call[c].data,
                      call[c].op = "remove" => Len(Kept(call[c].data, call[c].name)) <= 1
               PROVE  LET before == EnvOf(environment.entries)
                          after  == EnvOf(environment'.entries)
                          own    == call[c].name
                      IN  /\ DOMAIN after = IF call[c].op = "add" THEN DOMAIN before \cup {own}
                                            ELSE DOMAIN before \ {own}
                          /\ \A n \in DOMAIN after \ {own} : after[n] = before[n]
                          /\ call[c].op = "add" => after[own] = call[c].value
    OBVIOUS
  <2>1. /\ call[c].data \in Seq(Seq(Chars)) /\ UniqueNames(call[c].data)
        /\ call[c].op = "add" => call[c].name \in Names /\ call[c].value \in Values
    BY RowsType DEF IInv, CallsOK, CallRecords, CallOK
  <2>2. CASE /\ call[c].op = "add"
             /\ environment'.entries = AddOrReplace(call[c].data, call[c].name, call[c].value)
    <3> DEFINE b == call[c].data
    <3> DEFINE n == call[c].name
    <3> DEFINE v == call[c].value
    <3>1. /\ b \in Seq(Seq(Chars)) /\ UniqueNames(b)
          /\ n \in Seq(Chars) /\ v \in Seq(Chars) /\ \A i \in 1..Len(n) : n[i] # "="
      BY <2>1, <2>2, Constants
    <3> HIDE DEF b, n, v
    <3>2. /\ DOMAIN EnvOf(AddOrReplace(b, n, v)) = DOMAIN EnvOf(b) \cup {n}
          /\ \A m \in DOMAIN EnvOf(AddOrReplace(b, n, v)) \ {n} :
                EnvOf(AddOrReplace(b, n, v))[m] = EnvOf(b)[m]
          /\ EnvOf(AddOrReplace(b, n, v))[n] = v
      BY <3>1, AdditionUpdatesOne
    <3> QED  BY <2>2, <3>2 DEF b, n, v
  <2>3. CASE /\ call[c].op = "remove"
             /\ environment'.entries = Removed(call[c].data, call[c].name)
    <3> DEFINE b == call[c].data
    <3> DEFINE n == call[c].name
    <3>1. /\ b \in Seq(Seq(Chars)) /\ UniqueNames(b) /\ Len(Kept(b, n)) <= 1
      BY <2>1, <2>3
    <3> HIDE DEF b, n
    <3>2. /\ DOMAIN EnvOf(Removed(b, n)) = DOMAIN EnvOf(b) \ {n}
          /\ \A m \in DOMAIN EnvOf(Removed(b, n)) \ {n} :
                EnvOf(Removed(b, n))[m] = EnvOf(b)[m]
      BY <3>1, RemovalUpdatesOne
    <3> QED  BY <2>3, <3>2 DEF b, n
  <2> QED  BY <2>2, <2>3, StoredByOne
<1> QED  BY <1>1, InductiveInvariant, PTL DEF Spec, WriteUpdatesOne
=============================================================================
