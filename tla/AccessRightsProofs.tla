-------------------------- MODULE AccessRightsProofs --------------------------
(***************************************************************************)
(* The safety properties of AccessRights and its refinement of AccessList, *)
(* for every number of processes, every set of accounts, names and masks   *)
(* and every default list.                                                 *)
(*                                                                         *)
(* Nothing protects the list, so no invariant can speak of the list of a   *)
(* later moment.  What a change relies on is in its own call: the copy it  *)
(* has taken is a list that was in force, and the accounts it has found    *)
(* are accounts of the name it was given.                                  *)
(***************************************************************************)
EXTENDS AccessRights, TLAPS

Fields == {"at", "op", "name", "mask", "size", "copy", "accounts", "infos"}

EntriesOK(entries) ==
  \A e \in entries : e.account \in Accounts /\ e.mode \in {GRANT, DENY} /\ Allowed(e.mask)

\* What is true of the record of a call.
IsCall(r) ==
  /\ r = [f \in Fields |-> r[f]]
  /\ r.at \in {"idle", "size", "data", "build", "write", "infos", "returned"}
  /\ r.op \in Changes \cup Reads \cup {"none"}
  /\ r.op = "none" <=> r.at = "idle"
  /\ r.at \in {"idle", "size", "data"} => r.copy = {}
  /\ r.infos # {} => r.at = "returned"
  /\ r.accounts \subseteq Accounts

\* What a change was given stays with it, and its mask is an allowed one.
ChangeGiven(r) ==
  r.at \in {"size", "data", "build", "write"} =>
    r.op \in Changes /\ r.name \in Names /\ Allowed(r.mask) /\ (r.op = "add" => r.mask \in Masks)

\* A list a change holds was in force.
CopyOK(r) ==
  /\ EntriesOK(r.copy)
  /\ r.at \in {"build", "write"} => Unnamed(r.copy) = Unnamed(Default)

AccountsFound(r) == r.at = "write" => r.accounts \subseteq Named(r.name)

IsInfo(i) == i = CreateRightInfo(i.domain, i.username, i.mask, i.accessMode)

InfosTyped(r) == \A i \in r.infos : IsInfo(i)

InfosTell(r) ==
  r.at = "returned" /\ r.op = "readAll" =>
    {<<Called(GetFullname(i)), UNION {BitsOf(b) : b \in GetRights(i)}, IsDenyAccess(i)>> : i \in r.infos}
      = {<<{e.account}, e.mask \cap VALID_MASK, e.mode = DENY>> : e \in r.copy}

CallInv(r) ==
  IsCall(r) /\ ChangeGiven(r) /\ CopyOK(r) /\ AccountsFound(r) /\ InfosTyped(r) /\ InfosTell(r)

ListInv == EntriesOK(list) /\ known \subseteq Accounts /\ OthersKept

IInv ==
  /\ ListInv
  /\ call = [c \in Clients |-> call[c]]
  /\ \A c \in Clients : CallInv(call[c])

-----------------------------------------------------------------------------
(* Lemmas about the operators.                                             *)

\* A name nobody has is resolved to nothing, and a name to accounts of that name.
LEMMA ResolvedIsNamed ==
  ASSUME known \subseteq Accounts, NEW name PROVE Resolved(name) \subseteq Named(name)
BY DEF Resolved, Named

\* A change of an account somebody has a name for leaves the others' entries alone.
LEMMA NewListKeepsOthers ==
  ASSUME NEW entries, NEW mode, NEW name \in Names, NEW a \in Named(name), NEW mask
  PROVE  Unnamed(NewList(entries, mode, a, mask)) = Unnamed(entries)
<1>1. ASSUME NEW e, e.account = a PROVE ~ \A n \in Names : n.user # e.account.user
  BY <1>1 DEF Named
<1>2. [account |-> a, mode |-> GRANT, mask |-> mask].account = a
  OBVIOUS
<1> QED
  BY <1>1, <1>2 DEF Unnamed, NewList

LEMMA NewListOK ==
  ASSUME NEW entries, EntriesOK(entries), NEW mode, NEW a \in Accounts, NEW mask, Allowed(mask)
  PROVE  EntriesOK(NewList(entries, mode, a, mask))
BY DEF EntriesOK, NewList

\* The names of rights stand for the bits of a mask that have one.
LEMMA RightsTellTheMask ==
  ASSUME NEW info
  PROVE  UNION {BitsOf(r) : r \in GetRights(info)} = info.mask \cap VALID_MASK
<1>1. "SERVICE_ALL_ACCESS" \notin VALID_MASK
  BY DEF VALID_MASK, SERVICE_ALL_ACCESS, ServiceBits, StandardBits, GenericBits
<1>2. SERVICE_ALL_ACCESS \subseteq VALID_MASK
  BY DEF VALID_MASK
<1>3. ASSUME NEW b \in info.mask \cap VALID_MASK
      PROVE  b \in GetRights(info) /\ b \in BitsOf(b)
  BY <1>1, <1>3 DEF GetRights, BitsOf, Rights
<1>4. ASSUME NEW r \in GetRights(info)
      PROVE  BitsOf(r) \subseteq info.mask \cap VALID_MASK
  BY <1>2, <1>4 DEF GetRights, BitsOf, Rights
<1> QED
  BY <1>3, <1>4

\* A restored object is the one that was stored.
LEMMA RestoredIsSame ==
  ASSUME NEW i, IsInfo(i) PROVE Unserialized(Serialized(i)) = i
<1>1. /\ Serialized(i)["domain"] = i["domain"]
      /\ Serialized(i)["username"] = i["username"]
      /\ Serialized(i)["mask"] = i["mask"]
      /\ Serialized(i)["accessMode"] = i["accessMode"]
  BY DEF Serialized, Keys
<1> QED
  BY <1>1 DEF Unserialized, IsInfo, CreateRightInfo

\* What is made of an entry tells its account, its bits and its mode.
LEMMA InfoTellsTheEntry ==
  ASSUME NEW e, e.account \in Accounts, e.mode \in {GRANT, DENY}
  PROVE  LET i == EntryInfo(e)
         IN  /\ IsInfo(i)
             /\ Called(GetFullname(i)) = {e.account}
             /\ i.mask = e.mask
             /\ IsDenyAccess(i) = (e.mode = DENY)
<1> DEFINE i == EntryInfo(e)
<1>1. IsInfo(i) /\ i.mask = e.mask /\ i.accessMode = e.mode
  BY DEF EntryInfo, CreateRightInfo, IsInfo
<1>2. CASE e.account \in known
  <2>1. GetFullname(i) = [domain |-> e.account.domain, user |-> e.account.user]
    BY <1>2 DEF EntryInfo, CreateRightInfo, GetFullname
  <2>2. Called(GetFullname(i)) = {e.account}
    BY <2>1, AccessRightsAssumption DEF Called
  <2> QED
    BY <1>1, <2>2 DEF IsDenyAccess, GRANT, DENY
<1>3. CASE e.account \notin known
  <2>1. GetFullname(i) = [domain |-> Null, user |-> e.account.sid]
    BY <1>3 DEF EntryInfo, CreateRightInfo, GetFullname
  <2>2. Called(GetFullname(i)) = {e.account}
    BY <2>1, AccessRightsAssumption DEF Called
  <2> QED
    BY <1>1, <2>2 DEF IsDenyAccess, GRANT, DENY
<1> QED
  BY <1>2, <1>3

-----------------------------------------------------------------------------
(* The invariant.                                                          *)

LEMMA InvImplies == IInv => TypeOK /\ OthersKept /\ InfosTellTheList
BY DEF IInv, ListInv, CallInv, IsCall, InfosTell, TypeOK, EntriesOK, InfosTellTheList

\* A process outside of a call satisfies everything.
LEMMA IdleOK == CallInv(NoCall)
<1>1. IsCall(NoCall)
  BY DEF NoCall, IsCall, Fields
<1>2. ChangeGiven(NoCall) /\ AccountsFound(NoCall) /\ InfosTell(NoCall)
  BY DEF NoCall, ChangeGiven, AccountsFound, InfosTell
<1>3. CopyOK(NoCall) /\ InfosTyped(NoCall)
  BY DEF NoCall, CopyOK, InfosTyped, EntriesOK
<1> QED
  BY <1>1, <1>2, <1>3 DEF CallInv

LEMMA InitInv == Init => IInv
<1> SUFFICES ASSUME Init PROVE IInv
  OBVIOUS
<1>1. ListInv
  BY AccessRightsAssumption DEF Init, ListInv, EntriesOK, OthersKept
<1>2. call = [c \in Clients |-> call[c]] /\ \A c \in Clients : call[c] = NoCall
  BY DEF Init
<1> QED
  BY <1>1, <1>2, IdleOK DEF IInv

\* A step changes the record of one call, and the others keep theirs.
LEMMA OneCallInv ==
  ASSUME IInv, NEW c \in Clients, NEW r, call' = [call EXCEPT ![c] = r], CallInv(r), ListInv'
  PROVE  IInv'
<1>1. /\ call' = [d \in Clients |-> call'[d]]
      /\ \A d \in Clients : call'[d] = IF d = c THEN r ELSE call[d]
  BY DEF IInv
<1> QED
  BY <1>1 DEF IInv

\* A call may end whenever the list is as it should be.
LEMMA OverInv ==
  ASSUME IInv, NEW c \in Clients, Over(c), ListInv' PROVE IInv'
BY OneCallInv, IdleOK DEF Over

LEMMA SameListInv == ASSUME IInv, UNCHANGED <<list, known>> PROVE ListInv'
BY DEF IInv, ListInv, EntriesOK, OthersKept

-----------------------------------------------------------------------------
(* Every step preserves the invariant.                                     *)

\* A change that begins has what it was given, and nothing else.
LEMMA BeginsInv ==
  ASSUME IInv, NEW c \in Clients, NEW op \in Changes, NEW name \in Names, NEW mask,
         Allowed(mask), op = "add" => mask \in Masks, Begins(c, op, name, mask, "size")
  PROVE  IInv'
<1> DEFINE r == [NoCall EXCEPT !.at = "size", !.op = op, !.name = name, !.mask = mask]
<1>1. call' = [call EXCEPT ![c] = r] /\ ListInv'
  BY SameListInv DEF Begins
<1>2. /\ r = [f \in Fields |-> r[f]]
      /\ r.at = "size" /\ r.op = op /\ r.name = name /\ r.mask = mask
      /\ r.copy = {} /\ r.accounts = {} /\ r.infos = {}
  BY DEF NoCall, Fields
<1> HIDE DEF r
<1>3. IsCall(r)
  BY <1>2 DEF IsCall, Fields, Changes, Reads
<1>4. ChangeGiven(r) /\ AccountsFound(r) /\ InfosTell(r)
  BY <1>2 DEF ChangeGiven, AccountsFound, InfosTell
<1>5. CopyOK(r) /\ InfosTyped(r)
  BY <1>2 DEF CopyOK, InfosTyped, EntriesOK
<1>6. CallInv(r)
  BY <1>3, <1>4, <1>5 DEF CallInv
<1> QED
  BY <1>1, <1>6, OneCallInv

LEMMA AsksSizeInv == ASSUME IInv, NEW c \in Clients, AsksSize(c) PROVE IInv'
<1>1. ListInv'
  BY SameListInv DEF AsksSize
<1>2. CASE Over(c)
  BY <1>1, <1>2, OverInv
<1>3. CASE ~Over(c)
  <2> DEFINE old == call[c]
             r == [old EXCEPT !.at = "data", !.size = Cardinality(list)]
  <2>1. call' = [call EXCEPT ![c] = r] /\ old.at = "size" /\ CallInv(old)
    BY <1>3 DEF AsksSize, IInv
  <2> HIDE DEF old
  <2>2. r.at = "data" /\ \A f \in Fields \ {"at", "size"} : r[f] = old[f]
    BY <2>1 DEF CallInv, IsCall, Fields
  <2>3. r = [f \in Fields |-> r[f]]
    BY <2>1 DEF CallInv, IsCall
  <2> HIDE DEF r
  <2>4. /\ r.op = old.op /\ r.name = old.name /\ r.mask = old.mask /\ r.copy = old.copy
        /\ r.accounts = old.accounts /\ r.infos = old.infos
    BY <2>2 DEF Fields
  <2>5. CallInv(r)
    BY <2>1, <2>2, <2>3, <2>4
       DEF CallInv, IsCall, ChangeGiven, CopyOK, AccountsFound, InfosTyped, InfosTell
  <2> QED
    BY <1>1, <2>1, <2>5, OneCallInv
<1> QED
  BY <1>2, <1>3

LEMMA TakesListInv == ASSUME IInv, NEW c \in Clients, TakesList(c) PROVE IInv'
<1>1. ListInv'
  BY SameListInv DEF TakesList
<1>2. CASE Over(c)
  BY <1>1, <1>2, OverInv
<1>3. CASE ~Over(c)
  <2> DEFINE old == call[c]
             r == [old EXCEPT !.at = "build", !.size = 0, !.copy = list]
  <2>1. call' = [call EXCEPT ![c] = r] /\ old.at = "data" /\ CallInv(old)
    BY <1>3 DEF TakesList, IInv
  <2> HIDE DEF old
  <2>2. /\ r = [f \in Fields |-> r[f]]
        /\ r.at = "build" /\ r.copy = list
        /\ r.op = old.op /\ r.name = old.name /\ r.mask = old.mask
        /\ r.accounts = old.accounts /\ r.infos = old.infos
    BY <2>1 DEF CallInv, IsCall, Fields
  <2> HIDE DEF r
  <2>3. CopyOK(r)
    BY <2>2 DEF CopyOK, IInv, ListInv, OthersKept
  <2>4. CallInv(r)
    BY <2>1, <2>2, <2>3
       DEF CallInv, IsCall, ChangeGiven, AccountsFound, InfosTyped, InfosTell
  <2> QED
    BY <1>1, <2>1, <2>4, OneCallInv
<1> QED
  BY <1>2, <1>3

LEMMA FindsAccountInv == ASSUME IInv, NEW c \in Clients, FindsAccount(c) PROVE IInv'
<1>1. ListInv'
  BY SameListInv DEF FindsAccount
<1>2. CASE Over(c)
  BY <1>1, <1>2, OverInv
<1>3. CASE ~Over(c)
  <2> DEFINE old == call[c]
             found == Resolved(old.name)
             r == [old EXCEPT !.at = "write", !.accounts = found]
  <2>1. call' = [call EXCEPT ![c] = r] /\ old.at = "build" /\ CallInv(old)
    BY <1>3 DEF FindsAccount, IInv
  <2>2. found \subseteq Named(old.name)
    BY ResolvedIsNamed DEF IInv, ListInv
  <2> HIDE DEF old, found
  <2>3. /\ r = [f \in Fields |-> r[f]]
        /\ r.at = "write" /\ r.accounts = found
        /\ r.op = old.op /\ r.name = old.name /\ r.mask = old.mask
        /\ r.copy = old.copy /\ r.infos = old.infos
    BY <2>1 DEF CallInv, IsCall, Fields
  <2> HIDE DEF r
  <2>4. r.accounts \subseteq Accounts /\ AccountsFound(r)
    BY <2>2, <2>3 DEF Named, AccountsFound
  <2>5. CallInv(r)
    BY <2>1, <2>3, <2>4 DEF CallInv, IsCall, ChangeGiven, CopyOK, InfosTyped, InfosTell
  <2> QED
    BY <1>1, <2>1, <2>5, OneCallInv
<1> QED
  BY <1>2, <1>3

LEMMA StoresListInv == ASSUME IInv, NEW c \in Clients, StoresList(c) PROVE IInv'
<1> DEFINE old == call[c]
<1>1. old.at = "write" /\ CallInv(old)
  BY DEF StoresList, IInv
<1>2. ASSUME NEW a \in old.accounts,
             list' = NewList(old.copy, ModeOf(old.op), a, old.mask), UNCHANGED known
      PROVE  ListInv'
  <2>1. a \in Named(old.name) /\ a \in Accounts /\ old.name \in Names /\ Allowed(old.mask)
    BY <1>1, <1>2 DEF CallInv, AccountsFound, ChangeGiven, Named
  <2>2. EntriesOK(list')
    BY <1>1, <1>2, <2>1, NewListOK DEF CallInv, CopyOK
  <2>3. Unnamed(list') = Unnamed(Default)
    BY <1>1, <1>2, <2>1, NewListKeepsOthers DEF CallInv, CopyOK
  <2> QED
    BY <1>2, <2>2, <2>3 DEF ListInv, OthersKept, IInv, EntriesOK
<1>3. ListInv'
  BY <1>2, SameListInv DEF StoresList
<1> QED
  BY <1>3, OverInv DEF StoresList

\* The reads.
LEMMA ReadsListInv ==
  ASSUME IInv, NEW c \in Clients, NEW op \in Reads, NEW name, ReadsList(c, op, name)
  PROVE  IInv'
<1> DEFINE r == [NoCall EXCEPT !.at = "infos", !.op = op, !.name = name, !.copy = list]
<1>1. call' = [call EXCEPT ![c] = r] /\ ListInv'
  BY SameListInv DEF ReadsList
<1>2. /\ r = [f \in Fields |-> r[f]]
      /\ r.at = "infos" /\ r.op = op /\ r.copy = list /\ r.accounts = {} /\ r.infos = {}
  BY DEF NoCall, Fields
<1> HIDE DEF r
<1>3. CallInv(r)
  BY <1>2 DEF IInv, ListInv, CallInv, IsCall, ChangeGiven, CopyOK, AccountsFound, InfosTyped,
              InfosTell, Reads
<1> QED
  BY <1>1, <1>3, OneCallInv

LEMMA ReturnsInfoInv == ASSUME IInv, NEW c \in Clients, ReturnsInfo(c) PROVE IInv'
<1>1. ListInv'
  BY SameListInv DEF ReturnsInfo
<1>2. CASE Over(c)
  BY <1>1, <1>2, OverInv
<1>3. CASE ~Over(c)
  <2> DEFINE old == call[c]
  <2>1. PICK a \in Resolved(old.name) :
          call' = [call EXCEPT ![c].at = "returned",
                     ![c].infos = {NameInfo(old.name, Effective(old.copy, a))}]
    BY <1>3 DEF ReturnsInfo
  <2> DEFINE info == NameInfo(old.name, Effective(old.copy, a))
             r == [old EXCEPT !.at = "returned", !.infos = {info}]
  <2>2. call' = [call EXCEPT ![c] = r] /\ old.at = "infos" /\ old.op = "read" /\ CallInv(old)
    BY <2>1 DEF ReturnsInfo, IInv
  <2>3. IsInfo(info)
    BY DEF NameInfo, CreateRightInfo, IsInfo
  <2> HIDE DEF old, info
  <2>4. /\ r = [f \in Fields |-> r[f]]
        /\ r.at = "returned" /\ r.op = "read" /\ r.infos = {info}
        /\ r.copy = old.copy /\ r.accounts = old.accounts
    BY <2>2 DEF CallInv, IsCall, Fields
  <2> HIDE DEF r
  <2>5. CallInv(r)
    BY <2>2, <2>3, <2>4
       DEF CallInv, IsCall, ChangeGiven, CopyOK, AccountsFound, InfosTyped, InfosTell
  <2> QED
    BY <1>1, <2>2, <2>5, OneCallInv
<1> QED
  BY <1>2, <1>3

\* Whatever accounts are known when the list is described, every entry is told.
LEMMA EntriesTold ==
  ASSUME NEW entries, EntriesOK(entries)
  PROVE  LET infos == {EntryInfo(e) : e \in entries}
         IN  /\ \A i \in infos : IsInfo(i)
             /\ {<<Called(GetFullname(i)), UNION {BitsOf(b) : b \in GetRights(i)}, IsDenyAccess(i)>>
                    : i \in infos}
                  = {<<{e.account}, e.mask \cap VALID_MASK, e.mode = DENY>> : e \in entries}
<1> DEFINE Tell(i) == <<Called(GetFullname(i)), UNION {BitsOf(b) : b \in GetRights(i)}, IsDenyAccess(i)>>
           Say(e) == <<{e.account}, e.mask \cap VALID_MASK, e.mode = DENY>>
<1>1. ASSUME NEW e \in entries PROVE IsInfo(EntryInfo(e)) /\ Tell(EntryInfo(e)) = Say(e)
  BY <1>1, InfoTellsTheEntry, RightsTellTheMask DEF EntriesOK
<1> HIDE DEF Tell, Say
<1>2. {Tell(i) : i \in {EntryInfo(e) : e \in entries}} = {Say(e) : e \in entries}
  BY <1>1
<1> QED
  BY <1>1, <1>2 DEF Tell, Say

LEMMA ReturnsInfosInv == ASSUME IInv, NEW c \in Clients, ReturnsInfos(c) PROVE IInv'
<1> DEFINE old == call[c]
           infos == {EntryInfo(e) : e \in old.copy}
           r == [old EXCEPT !.at = "returned", !.infos = infos]
<1>1. call' = [call EXCEPT ![c] = r] /\ old.op = "readAll" /\ CallInv(old) /\ ListInv'
  BY SameListInv DEF ReturnsInfos, IInv
<1>2. /\ \A i \in infos : IsInfo(i)
      /\ {<<Called(GetFullname(i)), UNION {BitsOf(b) : b \in GetRights(i)}, IsDenyAccess(i)>> : i \in infos}
           = {<<{e.account}, e.mask \cap VALID_MASK, e.mode = DENY>> : e \in old.copy}
  BY <1>1, EntriesTold DEF CallInv, CopyOK
<1> HIDE DEF old, infos
<1>3. /\ r = [f \in Fields |-> r[f]]
      /\ r.at = "returned" /\ r.op = "readAll" /\ r.infos = infos
      /\ r.copy = old.copy /\ r.accounts = old.accounts
  BY <1>1 DEF CallInv, IsCall, Fields
<1> HIDE DEF r
<1>4. IsCall(r) /\ ChangeGiven(r) /\ CopyOK(r) /\ AccountsFound(r)
  BY <1>1, <1>3 DEF CallInv, IsCall, ChangeGiven, CopyOK, AccountsFound, Reads
<1>5. InfosTyped(r) /\ InfosTell(r)
  BY <1>2, <1>3 DEF InfosTyped, InfosTell
<1> QED
  BY <1>1, <1>4, <1>5, OneCallInv DEF CallInv

\* A restored answer is the answer that was stored.
LEMMA RestoresInv == ASSUME IInv, NEW c \in Clients, Restores(c) PROVE IInv'
<1>1. CallInv(call[c]) /\ ListInv'
  BY SameListInv DEF IInv, Restores
<1> DEFINE restored == {Unserialized(Serialized(i)) : i \in call[c].infos}
<1>2. restored = call[c].infos
  <2>1. \A i \in call[c].infos : Unserialized(Serialized(i)) = i
    BY <1>1, RestoredIsSame DEF CallInv, InfosTyped
  <2> QED
    BY <2>1
<1>3. call' = [call EXCEPT ![c] = [call[c] EXCEPT !.infos = restored]]
  BY DEF Restores
<1> HIDE DEF restored
<1>4. [call[c] EXCEPT !.infos = restored] = call[c]
  BY <1>1, <1>2 DEF CallInv, IsCall, Fields
<1> QED
  BY <1>1, <1>3, <1>4, OneCallInv

LEMMA NextInv == IInv /\ [Next]_vars => IInv'
<1> SUFFICES ASSUME IInv, [Next]_vars PROVE IInv'
  OBVIOUS
<1>1. ASSUME NEW c \in Clients, Client(c) PROVE IInv'
  <2>1. ASSUME NEW n \in Names, NEW m \in Masks, Adds(c, n, m) PROVE IInv'
    BY <2>1, BeginsInv DEF Adds, Changes
  <2>2. ASSUME NEW n \in Names, Removes(c, n) PROVE IInv'
    <3>1. Allowed(SERVICE_ALL_ACCESS)
      BY DEF Allowed, VALID_MASK, SERVICE_ALL_ACCESS, StandardBits
    <3> QED
      BY <2>2, <3>1, BeginsInv DEF Removes, Changes
  <2>3. CASE AsksSize(c) \/ TakesList(c) \/ FindsAccount(c) \/ StoresList(c)
    BY <2>3, AsksSizeInv, TakesListInv, FindsAccountInv, StoresListInv
  <2>4. ASSUME NEW n, NEW op \in Reads, ReadsList(c, op, n) PROVE IInv'
    BY <2>4, ReadsListInv
  <2>5. CASE ReturnsInfo(c) \/ ReturnsInfos(c) \/ Restores(c)
    BY <2>5, ReturnsInfoInv, ReturnsInfosInv, RestoresInv
  <2>6. CASE Forgets(c)
    BY <2>6, OverInv, SameListInv DEF Forgets
  <2> QED
    BY <1>1, <2>1, <2>2, <2>3, <2>4, <2>5, <2>6 DEF Client, Reads
<1>2. ASSUME NEW a \in Accounts, AccountDeleted(a) PROVE IInv'
  BY <1>2 DEF AccountDeleted, IInv, ListInv, EntriesOK, OthersKept
<1>3. CASE UNCHANGED vars
  BY <1>3 DEF vars, IInv, ListInv, EntriesOK, OthersKept
<1> QED
  BY <1>1, <1>2, <1>3 DEF Next

-----------------------------------------------------------------------------
(* Every change is exact.                                                  *)

Exact(c) ==
  \E a \in Named(call[c].name) :
    {<<e.mode, e.mask>> : e \in {f \in list' : f.account = a}} =
      IF call[c].op = "add" THEN {<<GRANT, call[c].mask>>} ELSE {}

\* Only its own store ends a call that is about to store.
LEMMA EndsByStore ==
  ASSUME IInv, [Next]_vars, NEW c \in Clients, call[c].at = "write", call'[c].at = "idle"
  PROVE  StoresList(c)
<1>1. call = [d \in Clients |-> call[d]]
  BY DEF IInv
<1>2. ASSUME NEW d \in Clients, d # c, Client(d) PROVE FALSE
  <2>1. \E r : call' = [call EXCEPT ![d] = r]
    BY <1>2, ZenonT(60) DEF Client, Adds, Removes, Begins, AsksSize, TakesList, FindsAccount, StoresList,
              ReadsList, ReturnsInfo, ReturnsInfos, Restores, Forgets, Over
  <2> QED
    BY <1>1, <1>2, <2>1
<1>3. ASSUME Client(c) PROVE StoresList(c)
  BY <1>3 DEF Client, Adds, Removes, AsksSize, TakesList, FindsAccount,
              ReadsList, ReturnsInfo, ReturnsInfos, Restores, Forgets
<1>4. ASSUME NEW a \in Accounts, AccountDeleted(a) PROVE FALSE
  BY <1>4 DEF AccountDeleted
<1>5. CASE UNCHANGED vars
  BY <1>5 DEF vars
<1> QED
  BY <1>2, <1>3, <1>4, <1>5 DEF Next

LEMMA StoreIsExact ==
  ASSUME IInv, NEW c \in Clients, StoresList(c), list' # list
  PROVE  Exact(c)
<1>1. CallInv(call[c]) /\ call[c].at = "write"
  BY DEF IInv, StoresList
<1>2. PICK a \in call[c].accounts :
        list' = NewList(call[c].copy, ModeOf(call[c].op), a, call[c].mask)
  BY DEF StoresList
<1>3. a \in Named(call[c].name) /\ call[c].op \in Changes
  BY <1>1 DEF CallInv, AccountsFound, ChangeGiven
<1> DEFINE own == {f \in list' : f.account = a}
<1>4. CASE call[c].op = "add"
  <2> DEFINE grant == [account |-> a, mode |-> GRANT, mask |-> call[c].mask]
  <2>1. own = {grant}
    BY <1>2, <1>4 DEF NewList, ModeOf, SET
  <2>2. grant.mode = GRANT /\ grant.mask = call[c].mask
    OBVIOUS
  <2> HIDE DEF grant, own
  <2>3. {<<e.mode, e.mask>> : e \in own} = {<<GRANT, call[c].mask>>}
    BY <2>1, <2>2
  <2> QED
    BY <1>3, <1>4, <2>3 DEF Exact, own
<1>5. CASE call[c].op = "remove"
  <2>1. own = {}
    BY <1>2, <1>5 DEF NewList, ModeOf, SET, REVOKE
  <2>2. {<<e.mode, e.mask>> : e \in own} = {}
    BY <2>1
  <2> QED
    BY <1>3, <1>5, <2>2 DEF Exact
<1> QED
  BY <1>3, <1>4, <1>5 DEF Changes

-----------------------------------------------------------------------------
(* The refinement of AccessList.                                           *)

Taken(r) == IF r.at \in {"build", "write"} THEN {r.copy} ELSE {}

taken == [c \in Clients |-> Taken(call[c])]

ListVars == <<list, taken>>

LEMMA OneTaken ==
  ASSUME IInv, NEW c \in Clients, NEW r, call' = [call EXCEPT ![c] = r]
  PROVE  taken' = [taken EXCEPT ![c] = Taken(r)]
<1>1. \A d \in Clients : call'[d] = IF d = c THEN r ELSE call[d]
  BY DEF IInv
<1> QED
  BY <1>1 DEF taken, Taken

\* The module that is implemented, with taken for what is held.
LEMMA ListActions ==
  ASSUME NEW c \in Clients
  PROVE  /\ taken[c] = {} /\ taken' = [taken EXCEPT ![c] = {list}] /\ UNCHANGED list
              => TheList!Next
         /\ taken[c] # {} /\ taken' = [taken EXCEPT ![c] = {}] /\ UNCHANGED list
              => TheList!Next
BY DEF TheList!Next, TheList!Takes, TheList!GivesUp, taken, Taken

LEMMA StoreIsStore ==
  ASSUME IInv, NEW c \in Clients, StoresList(c), list' # list
  PROVE  TheList!Next
<1>1. CallInv(call[c]) /\ call[c].at = "write"
  BY DEF IInv, StoresList
<1> DEFINE old == call[c].copy
<1>2. PICK a \in call[c].accounts :
        list' = NewList(old, ModeOf(call[c].op), a, call[c].mask)
  BY DEF StoresList
<1>3. a \in Accounts /\ call[c].op \in Changes /\ (call[c].op = "add" => call[c].mask \in Masks)
  BY <1>1 DEF CallInv, IsCall, ChangeGiven
<1>4. old \in taken[c]
  BY <1>1 DEF taken, Taken
<1>5. taken' = [taken EXCEPT ![c] = {}]
  <2>1. call' = [call EXCEPT ![c] = NoCall]
    BY DEF StoresList, Over
  <2>2. Taken(NoCall) = {}
    BY DEF Taken, NoCall
  <2> QED
    BY <2>1, <2>2, OneTaken
<1> DEFINE grant == [account |-> a, mode |-> GRANT, mask |-> call[c].mask]
           own == IF call[c].op = "add" THEN {grant} ELSE {}
<1>6. /\ \A e \in own : e.account = a
      /\ own \in {{}} \cup {{g} : g \in Grants}
      /\ list' = {e \in old : e.account # a} \cup own
  <2>1. call[c].op = "add" => grant \in Grants
    BY <1>3 DEF Grants
  <2>2. grant.account = a
    OBVIOUS
  <2>3. list' = {e \in old : e.account # a} \cup own
    BY <1>2, <1>3 DEF NewList, ModeOf, SET, REVOKE, Changes
  <2> HIDE DEF grant
  <2> QED
    BY <2>1, <2>2, <2>3
<1> HIDE DEF old, own
<1>7. TheList!Stores(c)
  BY <1>3, <1>4, <1>5, <1>6 DEF TheList!Stores, TheList!OfOthers, taken, Taken
<1> QED
  BY <1>7 DEF TheList!Next

\* A step that leaves the list alone takes it, gives it up, or keeps what it holds.
LEMMA HeldAs ==
  ASSUME IInv, NEW c \in Clients, NEW r, call' = [call EXCEPT ![c] = r], UNCHANGED list,
         Taken(r) \in {Taken(call[c]), {}, {list}},
         Taken(r) = {list} => Taken(call[c]) \in {{}, {list}}
  PROVE  TheList!Next \/ UNCHANGED ListVars
<1>1. taken[c] = Taken(call[c]) /\ taken' = [taken EXCEPT ![c] = Taken(r)]
  BY OneTaken DEF taken
<1>2. CASE Taken(r) = Taken(call[c])
  <2>1. taken' = taken
    BY <1>1, <1>2 DEF taken
  <2> QED
    BY <2>1 DEF ListVars
<1>3. CASE Taken(r) # Taken(call[c]) /\ Taken(r) = {}
  BY <1>1, <1>3, ListActions
<1>4. CASE Taken(r) # Taken(call[c]) /\ Taken(r) = {list}
  BY <1>1, <1>4, ListActions
<1> QED
  BY <1>2, <1>3, <1>4

LEMMA ClientImplements ==
  ASSUME IInv, NEW c \in Clients, Client(c)
  PROVE  TheList!Next \/ UNCHANGED ListVars
<1> DEFINE old == call[c]
<1>1. IsCall(old)
  BY DEF IInv, CallInv
<1>2. ASSUME Over(c), UNCHANGED list PROVE TheList!Next \/ UNCHANGED ListVars
  BY <1>2, HeldAs DEF Over, Taken, NoCall
<1>3. ASSUME NEW op, NEW name, NEW mask, old.at = "idle", Begins(c, op, name, mask, "size")
      PROVE  TheList!Next \/ UNCHANGED ListVars
  <2> DEFINE r == [NoCall EXCEPT !.at = "size", !.op = op, !.name = name, !.mask = mask]
  <2>1. Taken(r) = {}
    BY DEF Taken, NoCall
  <2>2. call' = [call EXCEPT ![c] = r] /\ UNCHANGED list
    BY <1>3 DEF Begins
  <2> HIDE DEF r
  <2> QED
    BY <2>1, <2>2, HeldAs
<1>4. ASSUME NEW op, NEW name, ReadsList(c, op, name)
      PROVE  TheList!Next \/ UNCHANGED ListVars
  <2> DEFINE r == [NoCall EXCEPT !.at = "infos", !.op = op, !.name = name, !.copy = list]
  <2>1. Taken(r) = {}
    BY DEF Taken, NoCall
  <2>2. call' = [call EXCEPT ![c] = r] /\ UNCHANGED list
    BY <1>4 DEF ReadsList
  <2> HIDE DEF r
  <2> QED
    BY <2>1, <2>2, HeldAs
<1>5. ASSUME AsksSize(c), ~Over(c) PROVE TheList!Next \/ UNCHANGED ListVars
  <2> DEFINE r == [old EXCEPT !.at = "data", !.size = Cardinality(list)]
  <2>1. call' = [call EXCEPT ![c] = r] /\ UNCHANGED list
    BY <1>5 DEF AsksSize
  <2>2. r.at = "data"
    BY <1>1 DEF IsCall, Fields
  <2> HIDE DEF r
  <2> QED
    BY <2>1, <2>2, HeldAs DEF Taken
<1>6. ASSUME TakesList(c), ~Over(c) PROVE TheList!Next \/ UNCHANGED ListVars
  <2> DEFINE r == [old EXCEPT !.at = "build", !.size = 0, !.copy = list]
  <2>1. call' = [call EXCEPT ![c] = r] /\ UNCHANGED list /\ old.at = "data"
    BY <1>6 DEF TakesList
  <2>2. r.at = "build" /\ r.copy = list
    BY <1>1 DEF IsCall, Fields
  <2> HIDE DEF r
  <2> QED
    BY <2>1, <2>2, HeldAs DEF Taken
<1>7. ASSUME FindsAccount(c), ~Over(c) PROVE TheList!Next \/ UNCHANGED ListVars
  <2> DEFINE r == [old EXCEPT !.at = "write", !.accounts = Resolved(old.name)]
  <2>1. call' = [call EXCEPT ![c] = r] /\ UNCHANGED list /\ old.at = "build"
    BY <1>7 DEF FindsAccount
  <2>2. r.at = "write" /\ r.copy = old.copy
    BY <1>1 DEF IsCall, Fields
  <2> HIDE DEF r
  <2> QED
    BY <2>1, <2>2, HeldAs DEF Taken
<1>8. CASE StoresList(c)
  BY <1>2, <1>8, StoreIsStore DEF StoresList
<1>9. ASSUME ReturnsInfo(c) \/ ReturnsInfos(c), ~Over(c)
      PROVE  TheList!Next \/ UNCHANGED ListVars
  <2>1. UNCHANGED list /\ old.at = "infos"
    BY <1>9 DEF ReturnsInfo, ReturnsInfos
  <2>2. PICK infos : call' = [call EXCEPT ![c] = [old EXCEPT !.at = "returned", !.infos = infos]]
    <3>1. CASE ReturnsInfos(c)
      BY <3>1 DEF ReturnsInfos
    <3>2. CASE ReturnsInfo(c)
      BY <1>9, <3>2 DEF ReturnsInfo
    <3> QED
      BY <1>9, <3>1, <3>2
  <2> DEFINE r == [old EXCEPT !.at = "returned", !.infos = infos]
  <2>3. r.at = "returned"
    BY <1>1 DEF IsCall, Fields
  <2> HIDE DEF r
  <2> QED
    BY <2>1, <2>2, <2>3, HeldAs DEF Taken, r
<1>10. CASE Restores(c)
  <2> DEFINE infos == {Unserialized(Serialized(i)) : i \in old.infos}
             r == [old EXCEPT !.infos = infos]
  <2>1. call' = [call EXCEPT ![c] = r] /\ UNCHANGED list /\ old.at = "returned"
    BY <1>10 DEF Restores
  <2> HIDE DEF infos
  <2>2. r.at = "returned"
    BY <1>1, <2>1 DEF IsCall, Fields
  <2> HIDE DEF r
  <2> QED
    BY <2>1, <2>2, HeldAs DEF Taken
<1>11. CASE Forgets(c)
  BY <1>2, <1>11 DEF Forgets
<1>12. CASE AsksSize(c) \/ TakesList(c) \/ FindsAccount(c) \/ ReturnsInfo(c) \/ ReturnsInfos(c)
  <2>1. UNCHANGED list
    BY <1>12 DEF AsksSize, TakesList, FindsAccount, ReturnsInfo, ReturnsInfos
  <2> QED
    BY <1>2, <1>5, <1>6, <1>7, <1>9, <1>12, <2>1
<1> QED
  BY <1>3, <1>4, <1>8, <1>10, <1>11, <1>12 DEF Client, Adds, Removes

LEMMA NextImplements == IInv /\ [Next]_vars => TheList!Next \/ UNCHANGED ListVars
<1> SUFFICES ASSUME IInv, [Next]_vars PROVE TheList!Next \/ UNCHANGED ListVars
  OBVIOUS
<1>1. CASE \E c \in Clients : Client(c)
  BY <1>1, ClientImplements
<1>2. CASE \E a \in Accounts : AccountDeleted(a)
  BY <1>2 DEF AccountDeleted, ListVars, taken
<1>3. CASE UNCHANGED vars
  BY <1>3 DEF vars, ListVars, taken
<1> QED
  BY <1>1, <1>2, <1>3 DEF Next

-----------------------------------------------------------------------------
(* Theorems.                                                               *)

\* The inductive invariant: what every call holds is what it was given, a list that was
\* in force, and accounts of the name it was given.
THEOREM InductiveInvariant == Spec => []IInv
<1> QED
  BY InitInv, NextInv, PTL DEF Spec

\* No call of any process brings a mask without rights, or with unknown ones, into the
\* list (win32service.c:697).
THEOREM TypeCorrect == Spec => []TypeOK
<1> QED
  BY InductiveInvariant, InvImplies, PTL

\* The entries of accounts no caller has a name for are never touched
\* (change_service_right).
THEOREM OthersAreKept == Spec => []OthersKept
<1> QED
  BY InductiveInvariant, InvImplies, PTL

\* The objects of win32_read_all_rights_access_service identify every entry that was
\* read, whichever accounts disappear meanwhile.
THEOREM InfosAreTrue == Spec => []InfosTellTheList
<1> QED
  BY InductiveInvariant, InvImplies, PTL

\* A change that is stored does to one account of its name exactly what it was asked
\* (change_service_right, with SET_ACCESS or REVOKE_ACCESS).
THEOREM ChangesAreExact == Spec => ChangeIsExact
<1>1. IInv /\ [Next]_vars =>
        [\A c \in Clients :
           call[c].at = "write" /\ call'[c].at = "idle" /\ list' # list => Exact(c)]_vars
  BY EndsByStore, StoreIsExact
<1> QED
  BY <1>1, InductiveInvariant, PTL DEF Spec, ChangeIsExact, Exact

\* Every step of the processes is a step of AccessList or leaves list and copies alone:
\* a change stores a list that was in force, with one account's entries replaced.
THEOREM ImplementsAccessList == Spec => ListSpec
<1>1. Init => TheList!Init
  BY DEF Init, NoCall, TheList!Init
<1>2. IInv /\ [Next]_vars => [TheList!Next]_ListVars
  BY NextImplements
<1> QED
  BY <1>1, <1>2, InductiveInvariant, PTL DEF Spec, ListSpec, TheList!Spec, ListVars, taken, Taken
=============================================================================
