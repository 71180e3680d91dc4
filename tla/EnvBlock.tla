------------------------------ MODULE EnvBlock ------------------------------
(***************************************************************************)
(* The block of environment variables of a service: the REG_MULTI_SZ value *)
(* "Environment" as win32service_registry.c reads and rebuilds it.  A      *)
(* block is the sequence of its entries, an entry the sequence of its      *)
(* characters; every entry is followed by one NUL and the block by one     *)
(* more.  Only "=" is told apart from the other characters.                *)
(***************************************************************************)
EXTENDS Integers, SequencesExt

\* Everything before the first "=", or the whole entry: what strcmp compares.
NameOf(entry) ==
  LET i == SelectInSeq(entry, LAMBDA ch : ch = "=")
  IN  IF i = 0 THEN entry ELSE SubSeq(entry, 1, i - 1)

\* Everything after the first "=".
ValueOf(entry) ==
  IF Contains(entry, "=") THEN SubSeq(entry, Len(NameOf(entry)) + 2, Len(entry)) ELSE <<>>

Has(block, name) == \E i \in DOMAIN block : NameOf(block[i]) = name

Entry(name, value) == name \o <<"=">> \o value

\* The bytes of a block, with its terminators.
Bytes(block) == Len(FlattenSeq(block)) + Len(block) + 1

\* The array win32_get_service_env_vars returns; the last of equal names counts.
EnvOf(block) ==
  [n \in {NameOf(block[i]) : i \in DOMAIN block} |->
     ValueOf(block[SelectLastInSeq(block, LAMBDA e : NameOf(e) = n)])]

-----------------------------------------------------------------------------
(* add_or_replace_environment_value.                                       *)

\* Fault: every call appends.
AddsAlways(block, name, value) == Append(block, Entry(name, value))

AddOrReplace(block, name, value) ==
  IF Has(block, name)
  THEN [i \in DOMAIN block |->
          IF NameOf(block[i]) = name THEN Entry(name, value) ELSE block[i]]
  ELSE Append(block, Entry(name, value))

\* The terminators are written after the NUL of the last entry when the name was
\* found, and in its place when the new entry was appended or is the only one.
BytesOfAdd(block, name, value) ==
  Bytes(AddOrReplace(block, name, value)) + (IF Has(block, name) THEN 1 ELSE 0)

\* The memory the call asks for, when the value it has read has length dataLen.
RoomOfAdd(dataLen, name, value) ==
  IF dataLen = 0 THEN Len(name) + 1 + Len(value) + 2 ELSE dataLen + Len(value) + 1

-----------------------------------------------------------------------------
(* remove_environment_value.                                               *)

Kept(block, name) ==
  FlattenSeq([i \in DOMAIN block |-> IF NameOf(block[i]) # name THEN <<block[i]>> ELSE <<>>])

\* The entries that stay are printed one behind the other: the NUL that sprintf
\* leaves after each is not counted, and the next entry is written over it.
Removed(block, name) ==
  LET kept == Kept(block, name)
  IN  IF kept = <<>> THEN <<>> ELSE <<FlattenSeq(kept)>>

\* Fault: the last NUL is written, and counted, in any case.
BytesAlwaysEnded(block, name) == Len(FlattenSeq(Kept(block, name))) + 1

\* A single NUL ends the bytes handed to the registry.
BytesOfRemove(block, name) ==
  LET n == Len(FlattenSeq(Kept(block, name)))
  IN  IF n > 1 THEN n + 1 ELSE n
=============================================================================
