--------------------------- MODULE MCServiceManager ----------------------------
(***************************************************************************)
(* Clients that create the service from one of a few arrays: the smallest, *)
(* one for each way through the configuration, and some that are refused.  *)
(* A long has 2^18 values, enough for every default and constant.          *)
(***************************************************************************)
EXTENDS ServiceManager, TLC

MCLongValues == 2^18

Smallest == [service |-> "svc", path |-> "php.exe"]

Delayed == Smallest @@ [delayed_start |-> TRUE, description |-> "text", recovery_enabled |-> TRUE]

OnDemand == Smallest @@ [start_type |-> DemandStart, recovery_action_1 |-> 1,
                         recovery_delay |-> 10, base_priority |-> 64]

Kept == Smallest @@ [start_type |-> Disabled, user |-> "web", error_control |-> 1]

\* Accepted by win32_create_service and refused by CreateService.
Desktop == Smallest @@ [svc_type |-> SERVICE_INTERACTIVE_PROCESS]

Accepted == {Smallest, Delayed, OnDemand, Kept, Desktop}

\* A start type, an action and a delay that do not fit a long, and a start type that does
\* not exist.
Wide    == Smallest @@ [start_type |-> MCLongValues + AutoStart]
Wrapped == Smallest @@ [recovery_action_2 |-> MCLongValues + 1]
TooLong == Smallest @@ [recovery_delay |-> MCLongValues \div 2]
Unknown == Smallest @@ [start_type |-> 8]

MCDetails == Accepted \cup {Wide, Wrapped, TooLong, Unknown}

Interactive ==
  {Smallest @@ [svc_type |-> SERVICE_WIN32_OWN_PROCESS + SERVICE_INTERACTIVE_PROCESS]}

Symmetry == Permutations(Clients)
=============================================================================
