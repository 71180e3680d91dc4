------------------------------ MODULE AccessList -------------------------------
(***************************************************************************)
(* What the functions that change the access list of a service promise.    *)
(* A change takes the list as it is at one moment and stores it later with *)
(* the entries of a single account replaced; changes in between are lost,  *)
(* but no list is ever stored that is older than its change, incomplete,   *)
(* or different in more than one account from one that was in force.       *)
(***************************************************************************)
CONSTANTS Clients, Accounts, Grants

VARIABLES
  list,   \* the access list in force
  taken   \* the lists the changes in progress have taken, one at most for each client

Init == taken = [c \in Clients |-> {}]

OfOthers(account, entries) == {e \in entries : e.account # account}

Takes(c) ==
  /\ taken[c] = {}
  /\ taken' = [taken EXCEPT ![c] = {list}]
  /\ UNCHANGED list

Stores(c) ==
  /\ \E old \in taken[c], a \in Accounts, own \in {{}} \cup {{g} : g \in Grants} :
       /\ \A e \in own : e.account = a
       /\ list' = OfOthers(a, old) \cup own
  /\ taken' = [taken EXCEPT ![c] = {}]

GivesUp(c) ==
  /\ taken[c] # {}
  /\ taken' = [taken EXCEPT ![c] = {}]
  /\ UNCHANGED list

Next == \E c \in Clients : Takes(c) \/ Stores(c) \/ GivesUp(c)

Spec == Init /\ [][Next]_<<list, taken>>
=============================================================================
