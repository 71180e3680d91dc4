------------------------------- MODULE RightInfo -------------------------------
(***************************************************************************)
(* Win32Service\RightInfo: what the functions that read the access list of *)
(* a service return.  A mask is the set of its bits, each bit named by its *)
(* right; a bit without a name of its own here can be in a mask as well.   *)
(***************************************************************************)
EXTENDS Naturals

\* The access modes of accctrl.h.
GRANT == 1
SET   == 2
DENY  == 3
REVOKE == 4

ServiceBits ==
  {"QUERY_CONFIG", "CHANGE_CONFIG", "QUERY_STATUS", "ENUMERATE_DEPENDENTS", "START", "STOP",
   "PAUSE_CONTINUE", "INTERROGATE", "USER_DEFINED_CONTROL"}

StandardBits == {"DELETE", "READ_CONTROL", "WRITE_DAC", "WRITE_OWNER"}

GenericBits == {"GENERIC_ALL", "GENERIC_READ", "GENERIC_WRITE", "GENERIC_EXECUTE"}

SERVICE_ALL_ACCESS == ServiceBits \cup StandardBits

VALID_MASK == SERVICE_ALL_ACCESS \cup {"ACCESS_SYSTEM_SECURITY"} \cup GenericBits

\* The right of a name: one bit, and one right made of many.
Rights == VALID_MASK \cup {"SERVICE_ALL_ACCESS"}

BitsOf(right) == IF right = "SERVICE_ALL_ACCESS" THEN SERVICE_ALL_ACCESS ELSE {right}

\* An absent string, NULL in the code.
Null == "null"

CreateRightInfo(domain, username, mask, accessMode) ==
  [domain |-> domain, username |-> username, mask |-> mask, accessMode |-> accessMode]

\* Fault: the domain is left out.
UsernameOnly(info) == [domain |-> Null, user |-> info.username]

GetFullname(info) == [domain |-> info.domain, user |-> info.username]

\* Fault: a right is listed when the mask has one of its bits.
GetAnyRights(info) == {r \in Rights : BitsOf(r) \cap info.mask # {}}

GetRights(info) == {r \in Rights : BitsOf(r) \subseteq info.mask}

\* accessMode & GRANT_ACCESS, which is true of a denial too; accessMode & DENY_ACCESS.
IsGrantAccess(info) == info.accessMode % 2 = GRANT

IsDenyAccess(info) == info.accessMode % 4 = DENY

\* The array of __serialize, and the object __unserialize makes of it.  The exceptions for
\* an array that lacks a key are left out: only arrays of __serialize are restored here.
Keys == {"domain", "username", "mask", "accessMode"}

Serialized(info) == [k \in Keys |-> info[k]]

Unserialized(data) ==
  CreateRightInfo(data["domain"], data["username"], data["mask"], data["accessMode"])
=============================================================================
