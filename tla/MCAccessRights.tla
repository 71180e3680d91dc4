---------------------------- MODULE MCAccessRights -----------------------------
(***************************************************************************)
(* Two accounts with the same user name, one of them denied a right by the *)
(* default list, and the account of the system, which no caller names.     *)
(***************************************************************************)
EXTENDS AccessRights, TLC

Local  == [domain |-> "PC", user |-> "web", sid |-> "S-1"]
Remote == [domain |-> "CORP", user |-> "web", sid |-> "S-2"]
System == [domain |-> "NT AUTHORITY", user |-> "SYSTEM", sid |-> "S-18"]

MCAccounts == {Local, Remote, System}

MCNames == {[domain |-> Null, user |-> "web"], [domain |-> "CORP", user |-> "web"]}

\* The last two are refused.
MCMasks == {{"START", "STOP"}, SERVICE_ALL_ACCESS, {}, {"START", "SYNCHRONIZE"}}

MCDefault == {[account |-> System, mode |-> GRANT, mask |-> SERVICE_ALL_ACCESS],
              [account |-> Remote, mode |-> DENY, mask |-> {"STOP"}]}

Symmetry == Permutations(Clients)
=============================================================================
