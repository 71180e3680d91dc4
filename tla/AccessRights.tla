----------------------------- MODULE AccessRights ------------------------------
(***************************************************************************)
(* The access list of one service and the PHP processes that read and      *)
(* change it: win32_add_right_access_service and                           *)
(* win32_remove_right_access_service ask for the size of the list, read    *)
(* it, make a new list and store it, without a lock; the functions that    *)
(* read return Win32Service\RightInfo objects.  Accounts are named by the  *)
(* callers and may disappear from the system while their entries stay.     *)
(*                                                                         *)
(* The list is a set of entries: Windows keeps denials before grants, and  *)
(* the order among them decides nothing; its size is the number of them.   *)
(* Any system call may fail.                                               *)
(***************************************************************************)
EXTENDS RightInfo, FiniteSets

CONSTANTS
  Clients,      \* PHP processes
  Accounts,     \* records of a domain, a user and a sid
  LocalDomain,  \* the domain of the machine's own accounts
  Names,        \* names the callers use: a domain, or Null, and a user
  Masks,        \* masks the callers ask for
  Default       \* the list of the new service

Allowed(mask) == mask # {} /\ mask \subseteq VALID_MASK

ASSUME AccessRightsAssumption ==
  /\ \A a \in Accounts : a.domain # Null
  /\ \A a, b \in Accounts : a.sid = b.sid \/ (a.domain = b.domain /\ a.user = b.user) => a = b
  /\ \A e \in Default : e.account \in Accounts /\ e.mode \in {GRANT, DENY} /\ Allowed(e.mask)

VARIABLES
  list,   \* the access list of the service
  known,  \* the accounts the system knows
  call    \* the call each process is in, and what it has returned

vars == <<list, known, call>>

NoCall == [at |-> "idle", op |-> "none", name |-> [domain |-> Null, user |-> Null],
           mask |-> {}, size |-> 0, copy |-> {}, accounts |-> {}, infos |-> {}]

Changes == {"add", "remove"}
Reads   == {"read", "readAll"}

\* TypeOK: no call stores an entry without a right, or with a right no constant has,
\* and a list is held only between its reading and the end of the call.
TypeOK ==
  /\ \A e \in list : e.account \in Accounts /\ e.mode \in {GRANT, DENY} /\ Allowed(e.mask)
  /\ known \subseteq Accounts
  /\ \A c \in Clients :
       /\ call[c].at \in {"idle", "size", "data", "build", "write", "infos", "returned"}
       /\ call[c].op \in Changes \cup Reads \cup {"none"}
       /\ call[c].op = "none" <=> call[c].at = "idle"
       /\ call[c].at \in {"idle", "size", "data"} => call[c].copy = {}
       /\ call[c].infos # {} => call[c].at = "returned"
       /\ call[c].accounts \subseteq Accounts

Init ==
  /\ list = Default /\ known = Accounts
  /\ call = [c \in Clients |-> NoCall]

-----------------------------------------------------------------------------
(* Windows: names of accounts, and what it does with an access list.       *)

AccountDeleted(a) ==
  /\ a \in known /\ \E n \in Names : n.user = a.user   \* never one of the system
  /\ known' = known \ {a}
  /\ UNCHANGED <<list, call>>

\* The account of a name; a name without a domain is looked for on the machine first.
Resolved(name) ==
  LET domains == IF name.domain # Null THEN {name.domain}
                 ELSE IF \E a \in known : a.user = name.user /\ a.domain = LocalDomain
                      THEN {LocalDomain} ELSE {a.domain : a \in known}
  IN  {a \in known : a.user = name.user /\ a.domain \in domains}

\* SetEntriesInAcl: SET_ACCESS and REVOKE_ACCESS discard what the account has.
NewList(entries, mode, account, mask) ==
  {e \in entries : e.account # account}
    \cup (IF mode = SET THEN {[account |-> account, mode |-> GRANT, mask |-> mask]} ELSE {})

\* GetEffectiveRightsFromAcl.
MaskIn(entries, account, mode) ==
  UNION {e.mask : e \in {f \in entries : f.account = account /\ f.mode = mode}}

Effective(entries, account) == MaskIn(entries, account, GRANT) \ MaskIn(entries, account, DENY)

-----------------------------------------------------------------------------
(* Changes.                                                                *)

Over(c) == call' = [call EXCEPT ![c] = NoCall]

Begins(c, op, name, mask, at) ==
  /\ call' = [call EXCEPT ![c] = [NoCall EXCEPT !.at = at, !.op = op, !.name = name, !.mask = mask]]
  /\ UNCHANGED <<list, known>>

\* Fault: any number is a mask.
AddsUnchecked(c, name, mask) ==
  /\ call[c].at = "idle"
  /\ Begins(c, "add", name, mask, "size")

\* win32_add_right_access_service: a mask outside the constants is a ValueError.
Adds(c, name, mask) ==
  /\ call[c].at = "idle"
  /\ Allowed(mask)
  /\ Begins(c, "add", name, mask, "size")

Removes(c, name) ==
  /\ call[c].at = "idle"
  /\ Begins(c, "remove", name, SERVICE_ALL_ACCESS, "size")

\* The manager, the service and the size of the list, or an exception.
AsksSize(c) ==
  /\ call[c].at = "size"
  /\ \/ call' = [call EXCEPT ![c].at = "data", ![c].size = Cardinality(list)]
     \/ Over(c)
  /\ UNCHANGED <<list, known>>

\* Fault: a list that has grown is cut to the size asked for.
TakesListCut(c) ==
  /\ call[c].at = "data"
  /\ \/ \E part \in SUBSET list :
          /\ Cardinality(part) = IF Cardinality(list) < call[c].size THEN Cardinality(list)
                                 ELSE call[c].size
          /\ call' = [call EXCEPT ![c].at = "build", ![c].size = 0, ![c].copy = part]
     \/ Over(c)
  /\ UNCHANGED <<list, known>>

\* A list that has grown does not fit any more: an exception, as for any other failure.
TakesList(c) ==
  /\ call[c].at = "data"
  /\ \/ /\ Cardinality(list) <= call[c].size
        /\ call' = [call EXCEPT ![c].at = "build", ![c].size = 0, ![c].copy = list]
     \/ Over(c)
  /\ UNCHANGED <<list, known>>

\* SetEntriesInAcl looks the name up, and fails for one nobody has.
FindsAccount(c) ==
  /\ call[c].at = "build"
  /\ IF Resolved(call[c].name) # {}
     THEN call' = [call EXCEPT ![c].at = "write", ![c].accounts = Resolved(call[c].name)]
     ELSE Over(c)
  /\ UNCHANGED <<list, known>>

\* Fault: both functions set the right.
AlwaysSets(op) == SET

ModeOf(op) == IF op = "add" THEN SET ELSE REVOKE

StoresList(c) ==
  /\ call[c].at = "write"
  /\ \/ \E a \in call[c].accounts :
          list' = NewList(call[c].copy, ModeOf(call[c].op), a, call[c].mask)
     \/ UNCHANGED list
  /\ Over(c)
  /\ UNCHANGED known

-----------------------------------------------------------------------------
(* Reads.                                                                  *)

\* The list is copied at once, or the call throws.
ReadsList(c, op, name) ==
  /\ call[c].at = "idle"
  /\ call' = [call EXCEPT ![c] =
       [NoCall EXCEPT !.at = "infos", !.op = op, !.name = name, !.copy = list]]
  /\ UNCHANGED <<list, known>>

\* The name is split at its first backslash; both parts are then taken from the same
\* position.
NameInfo(name, mask) ==
  IF name.domain = Null THEN CreateRightInfo(Null, name.user, mask, GRANT)
                        ELSE CreateRightInfo(name.domain, name.domain, mask, GRANT)

ReturnsInfo(c) ==
  /\ call[c].at = "infos" /\ call[c].op = "read"
  /\ IF Resolved(call[c].name) # {}
     THEN \E a \in Resolved(call[c].name) :
            call' = [call EXCEPT ![c].at = "returned",
                       ![c].infos = {NameInfo(call[c].name, Effective(call[c].copy, a))}]
     ELSE Over(c)
  /\ UNCHANGED <<list, known>>

\* An account that has gone is reported by its sid.
EntryInfo(e) ==
  IF e.account \in known
  THEN CreateRightInfo(e.account.domain, e.account.user, e.mask, e.mode)
  ELSE CreateRightInfo(Null, e.account.sid, e.mask, e.mode)

ReturnsInfos(c) ==
  /\ call[c].at = "infos" /\ call[c].op = "readAll"
  /\ call' = [call EXCEPT ![c].at = "returned",
                          ![c].infos = {EntryInfo(e) : e \in call[c].copy}]
  /\ UNCHANGED <<list, known>>

\* A script may store what it has read and restore it.
Restores(c) ==
  /\ call[c].at = "returned"
  /\ call' = [call EXCEPT ![c].infos = {Unserialized(Serialized(i)) : i \in @}]
  /\ UNCHANGED <<list, known>>

Forgets(c) ==
  /\ call[c].at = "returned"
  /\ Over(c)
  /\ UNCHANGED <<list, known>>

-----------------------------------------------------------------------------
Client(c) ==
  \/ \E n \in Names, m \in Masks : Adds(c, n, m)
  \/ \E n \in Names : Removes(c, n)
  \/ AsksSize(c) \/ TakesList(c) \/ FindsAccount(c) \/ StoresList(c)
  \/ \E n \in Names : ReadsList(c, "read", n)
  \/ ReadsList(c, "readAll", NoCall.name)
  \/ ReturnsInfo(c) \/ ReturnsInfos(c) \/ Restores(c) \/ Forgets(c)

Next ==
  \/ \E c \in Clients : Client(c)
  \/ \E a \in Accounts : AccountDeleted(a)

Spec == Init /\ [][Next]_vars

-----------------------------------------------------------------------------
(* Properties.                                                             *)

\* Changes take the list once and store it with the entries of one account replaced:
\* the list may be stale, but never mixed, cut or older than the change.
Grants == {[account |-> a, mode |-> GRANT, mask |-> m] : a \in Accounts, m \in Masks}

TheList == INSTANCE AccessList WITH
  taken <- [c \in Clients |-> IF call[c].at \in {"build", "write"} THEN {call[c].copy} ELSE {}]

ListSpec == TheList!Spec

\* The entries of accounts no caller has a name for, the system's own for instance,
\* survive any interleaving of changes, failed ones included.
Unnamed(entries) == {e \in entries : \A n \in Names : n.user # e.account.user}

OthersKept == Unnamed(list) = Unnamed(Default)

\* A change that succeeds leaves an account of the name it was given with what it has
\* asked for and nothing else: the grant of that mask, or no entry, although the account
\* had a denial, another grant, or both, or is deleted between look-up and store.
Named(name) == {a \in Accounts : a.user = name.user /\ name.domain \in {Null, a.domain}}

ChangeIsExact ==
  [][\A c \in Clients :
       call[c].at = "write" /\ call'[c].at = "idle" /\ list' # list =>
         \E a \in Named(call[c].name) :
           {<<e.mode, e.mask>> : e \in {f \in list' : f.account = a}} =
             IF call[c].op = "add" THEN {<<GRANT, call[c].mask>>} ELSE {}]_vars

\* What win32_read_all_rights_access_service returns identifies every entry of the list
\* it has read: by account, by the bits its rights stand for and as a denial or not,
\* also when accounts have disappeared or share a user name, and also after it has been
\* serialized and restored.
Called(name) ==
  {a \in Accounts : name \in {[domain |-> a.domain, user |-> a.user], [domain |-> Null, user |-> a.sid]}}

InfosTellTheList ==
  \A c \in Clients :
    call[c].at = "returned" /\ call[c].op = "readAll" =>
      {<<Called(GetFullname(i)), UNION {BitsOf(r) : r \in GetRights(i)}, IsDenyAccess(i)>>
         : i \in call[c].infos}
        = {<<{e.account}, e.mask \cap VALID_MASK, e.mode = DENY>> : e \in call[c].copy}
=============================================================================
