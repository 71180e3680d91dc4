---------------------------- MODULE EnvRegistry -----------------------------
(***************************************************************************)
(* The environment of one service in the registry, and the PHP processes   *)
(* that read and change it: win32_get_service_env_vars,                    *)
(* win32_add_service_env_var and win32_remove_service_env_var.  Each of    *)
(* them asks for the size of the value, reads it, and a change writes the  *)
(* whole value back; nothing keeps another process, or the deletion of the *)
(* service, out of the steps between.  A call that throws leaves the       *)
(* registry alone and is over.                                             *)
(***************************************************************************)
EXTENDS EnvBlock

CONSTANTS
  Clients,  \* PHP processes
  Names,    \* names of variables, sequences of characters
  Values,   \* their values
  MaxBytes  \* bound: a longer value is refused by the registry

ASSUME EnvRegistryAssumption ==
  /\ \A n \in Names : n \in Seq(STRING) /\ n # <<>>
  /\ \A v \in Values : v \in Seq(STRING)
  /\ MaxBytes \in Nat

\* The name of an environment variable has no "=".  The code accepts one that has all
\* the same, and stores the entry of a shorter name; such calls are not modelled.
ASSUME PlainNames == \A n \in Names : ~Contains(n, "=")

VARIABLES
  registered,   \* the key of the service exists
  environment,  \* its value "Environment"
  call          \* the call each process is in

vars == <<registered, environment, call>>

Missing == [entries |-> <<>>, len |-> 0]   \* no value; a value is never empty

NoCall == [at |-> "idle", op |-> "none", name |-> <<>>, value |-> <<>>,
           key |-> FALSE, size |-> 0, data |-> <<>>, dataLen |-> 0]

Points == {"idle", "size", "read", "open", "write"}

\* TypeOK: the value is absent or has entries, a process reads only through a key
\* it has opened, and between calls nothing of a call is left.
TypeOK ==
  /\ registered \in BOOLEAN
  /\ environment.len \in Nat
  /\ environment.entries = <<>> <=> environment.len = 0
  /\ ~registered => environment = Missing
  /\ \A c \in Clients :
       /\ call[c].at \in Points /\ call[c].op \in {"none", "get", "add", "remove"}
       /\ call[c].op = "none" <=> call[c].at = "idle"
       /\ call[c].key \in BOOLEAN /\ call[c].size \in Nat /\ call[c].dataLen \in Nat
       /\ call[c].data = <<>> <=> call[c].dataLen = 0

Init ==
  /\ registered \in BOOLEAN /\ environment = Missing
  /\ call = [c \in Clients |-> NoCall]

-----------------------------------------------------------------------------
(* win32_create_service and win32_delete_service, as far as the key goes.  *)

ServiceCreated ==
  /\ ~registered
  /\ registered' = TRUE
  /\ UNCHANGED <<environment, call>>

\* Handles of the deleted key are good for nothing any more.
ServiceDeleted ==
  /\ registered
  /\ registered' = FALSE /\ environment' = Missing
  /\ call' = [c \in Clients |-> [call[c] EXCEPT !.key = FALSE]]

-----------------------------------------------------------------------------
(* The calls.                                                              *)

Calls(c, op, name, value) ==
  /\ call[c].at = "idle"
  /\ call' = [call EXCEPT ![c] =
       [NoCall EXCEPT !.at = "size", !.op = op, !.name = name, !.value = value]]
  /\ UNCHANGED <<registered, environment>>

\* RegGetValue completes a missing terminator.
ReadLen ==
  IF Bytes(environment.entries) > environment.len THEN Bytes(environment.entries)
  ELSE environment.len

Over(c) == call' = [call EXCEPT ![c] = NoCall]

\* Without a value, win32_add_service_env_var goes on and the others end: an empty
\* array, or an exception.
WithoutValue(c) ==
  IF call[c].op = "add"
  THEN call' = [call EXCEPT ![c].at = "open", ![c].key = FALSE, ![c].size = 0]
  ELSE Over(c)

ReadsSize(c) ==
  /\ call[c].at = "size"
  /\ \/ /\ ~registered
        /\ Over(c)
     \/ /\ registered /\ environment = Missing
        /\ WithoutValue(c)
     \/ /\ registered /\ environment # Missing
        /\ call' = [call EXCEPT ![c].at = "read", ![c].key = TRUE, ![c].size = ReadLen]
  /\ UNCHANGED <<registered, environment>>

Obtains(c, block) ==
  IF call[c].op = "get" THEN Over(c)
  ELSE call' = [call EXCEPT ![c].at = "open", ![c].key = FALSE, ![c].size = 0,
                            ![c].data = block, ![c].dataLen = ReadLen]

\* Fault: a value that has grown is cut to the size asked for.
ReadsCut(c) ==
  /\ call[c].at = "read"
  /\ \/ /\ ~call[c].key
        /\ Over(c)
     \/ /\ call[c].key /\ environment = Missing
        /\ WithoutValue(c)
     \/ /\ call[c].key /\ environment # Missing
        /\ LET last == Len(environment.entries)
           IN  Obtains(c, IF ReadLen > call[c].size
                          THEN [environment.entries EXCEPT ![last] = Front(@)]
                          ELSE environment.entries)
  /\ UNCHANGED <<registered, environment>>

\* The key is gone, the value is gone, the buffer has become too small, or the value
\* is read at once.
ReadsValue(c) ==
  /\ call[c].at = "read"
  /\ \/ /\ ~call[c].key
        /\ Over(c)
     \/ /\ call[c].key /\ environment = Missing
        /\ WithoutValue(c)
     \/ /\ call[c].key /\ environment # Missing /\ ReadLen > call[c].size
        /\ Over(c)
     \/ /\ call[c].key /\ environment # Missing /\ ReadLen <= call[c].size
        /\ Obtains(c, environment.entries)
  /\ UNCHANGED <<registered, environment>>

OpensKey(c) ==
  /\ call[c].at = "open"
  /\ IF registered THEN call' = [call EXCEPT ![c].at = "write", ![c].key = TRUE]
                   ELSE Over(c)
  /\ UNCHANGED <<registered, environment>>

\* RegSetValueEx or RegDeleteValue stores the new value, or fails: the key is gone,
\* the value is too long, or any other reason.  The call is over in both cases.
Stores(c, block, bytes) ==
  /\ \/ /\ call[c].key /\ bytes <= MaxBytes
        /\ environment' = [entries |-> block, len |-> bytes]
     \/ UNCHANGED environment
  /\ Over(c)
  /\ UNCHANGED registered

WritesAdd(c) ==
  /\ call[c].at = "write" /\ call[c].op = "add"
  /\ Stores(c, AddOrReplace(call[c].data, call[c].name, call[c].value),
               BytesOfAdd(call[c].data, call[c].name, call[c].value))

\* Fault: the value is deleted although variables are left.
DeletesValue(c) ==
  /\ call[c].at = "write" /\ call[c].op = "remove"
  /\ Stores(c, <<>>, 0)

\* Without entries the value is deleted; it may have gone already, an exception.
WritesRemove(c) ==
  /\ call[c].at = "write" /\ call[c].op = "remove"
  /\ Stores(c, Removed(call[c].data, call[c].name), BytesOfRemove(call[c].data, call[c].name))

-----------------------------------------------------------------------------
Next ==
  \/ ServiceCreated \/ ServiceDeleted
  \/ \E c \in Clients :
       \/ Calls(c, "get", <<>>, <<>>)
       \/ \E n \in Names : Calls(c, "remove", n, <<>>)
       \/ \E n \in Names, v \in Values : Calls(c, "add", n, v)
       \/ ReadsSize(c) \/ ReadsValue(c) \/ OpensKey(c) \/ WritesAdd(c) \/ WritesRemove(c)

Spec == Init /\ [][Next]_vars

-----------------------------------------------------------------------------
(* Properties.                                                             *)

Asked == {Entry(n, v) : n \in Names, v \in Values}

\* Every stored entry is one that a call of win32_add_service_env_var has asked for.
EntriesIntact == \A i \in DOMAIN environment.entries : environment.entries[i] \in Asked

\* No entry is cut: it is one, or a row, of the entries that were asked for, although
\* the value can change between the question for its size and its reading.
Rows == {FlattenSeq(s) : s \in UNION {[1..n -> Asked] : n \in 1..(MaxBytes \div 2)}}

EntriesUncut == \A i \in DOMAIN environment.entries : environment.entries[i] \in Rows

\* No variable has two entries, however the changes of the processes interleave.
NamesUnique ==
  \A i, j \in DOMAIN environment.entries :
    NameOf(environment.entries[i]) = NameOf(environment.entries[j]) => i = j

\* A change whose process has read what is still stored sets, or removes, its own
\* variable and leaves every other one: an update is lost only to a change made
\* between the reading and the writing.  (A removal that leaves more than one entry
\* is the subject of EntriesIntact.)
WriteUpdatesOne ==
  [][\A c \in Clients :
       /\ call[c].at = "write" /\ environment' # environment
       /\ call'[c].at = "idle" /\ environment.entries = call[c].data
       /\ call[c].op = "remove" => Len(Kept(call[c].data, call[c].name)) <= 1
       => LET before == EnvOf(environment.entries)
              after  == EnvOf(environment'.entries)
              own    == call[c].name
          IN  /\ DOMAIN after = IF call[c].op = "add" THEN DOMAIN before \cup {own}
                                ELSE DOMAIN before \ {own}
              /\ \A n \in DOMAIN after \ {own} : after[n] = before[n]
              /\ call[c].op = "add" => after[own] = call[c].value]_vars

\* "Calculer la longueur de la nouvelle chaine finale si besoin de reallocation": the
\* memory asked for is what the new block needs.
RoomIsEnough ==
  \A c \in Clients :
    call[c].at = "write" /\ call[c].op = "add" =>
      BytesOfAdd(call[c].data, call[c].name, call[c].value)
        <= RoomOfAdd(call[c].dataLen, call[c].name, call[c].value)
=============================================================================
