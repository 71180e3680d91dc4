----------------------------- MODULE CreateParams ------------------------------
(***************************************************************************)
(* The array a script gives to win32_create_service: how its values are    *)
(* read, with the defaults and in the width of the C variables, which      *)
(* values are refused, and what is made of them.                           *)
(*                                                                         *)
(* An array is a function from keys to values, all its strings given; the  *)
(* keys "display", "password", "load_order", "dependencies" and            *)
(* "recovery_reboot_msg" are passed on as they are and left out.           *)
(***************************************************************************)
EXTENDS Integers

CONSTANTS
  LongValues,  \* how many values a long has: 2^32 on Windows, smaller in a model
  ShortNames   \* names of services of less than two characters

Null == "null"

\* winnt.h, winsvc.h and winbase.h.
SERVICE_WIN32_OWN_PROCESS   == 16
SERVICE_INTERACTIVE_PROCESS == 256

AutoStart   == 2
DemandStart == 3
Disabled    == 4

StartTypes   == 0..4
ErrorLevels  == 0..3
Priorities   == {32, 64, 128, 256, 16384, 32768}
ScActions    == 0..3   \* none, restart, reboot, run a command

\* In milliseconds, and in seconds: a day.
DefaultDelay  == 60000
DefaultPeriod == 86400

Keys ==
  {"service", "path", "params", "user", "description", "svc_type", "start_type",
   "error_control", "delayed_start", "base_priority", "recovery_delay", "recovery_action_1",
   "recovery_action_2", "recovery_action_3", "recovery_reset_period", "recovery_enabled",
   "recovery_command"}

\* The keys whose values are assigned to a long.
LongKeys ==
  {"svc_type", "start_type", "error_control", "recovery_delay", "recovery_reset_period",
   "recovery_action_1", "recovery_action_2", "recovery_action_3"}

Detail(details, key, default) == IF key \in DOMAIN details THEN details[key] ELSE default

\* A zend_long assigned to a long, and to a DWORD.
ToLong(v) == ((v + LongValues \div 2) % LongValues) - LongValues \div 2

ToDword(v) == v % LongValues

Params(d) ==
  [service       |-> Detail(d, "service", Null),
   path          |-> Detail(d, "path", Null),
   params        |-> Detail(d, "params", ""),
   user          |-> Detail(d, "user", Null),
   description   |-> Detail(d, "description", Null),
   svcType       |-> ToLong(Detail(d, "svc_type", SERVICE_WIN32_OWN_PROCESS)),
   startType     |-> ToLong(Detail(d, "start_type", AutoStart)),
   errorControl  |-> ToLong(Detail(d, "error_control", 0)),
   delayed       |-> Detail(d, "delayed_start", FALSE),
   priority      |-> ToDword(Detail(d, "base_priority", 32)),
   recoveryDelay |-> ToLong(Detail(d, "recovery_delay", DefaultDelay)),
   actions       |-> <<ToLong(Detail(d, "recovery_action_1", 0)),
                       ToLong(Detail(d, "recovery_action_2", 0)),
                       ToLong(Detail(d, "recovery_action_3", 0))>>,
   resetPeriod   |-> ToLong(Detail(d, "recovery_reset_period", DefaultPeriod)),
   enabled       |-> Detail(d, "recovery_enabled", FALSE),
   recoveryCmd   |-> Detail(d, "recovery_command", Null)]

\* svc_type != SERVICE_WIN32_OWN_PROCESS | SERVICE_INTERACTIVE_PROCESS: the macro has
\* no parentheses, and the comparison binds tighter than the "or".
NotOwnInteractive(svcType) ==
  (IF svcType # SERVICE_WIN32_OWN_PROCESS THEN 1 ELSE 0) + SERVICE_INTERACTIVE_PROCESS # 0

\* Fault: any start type is accepted.
ValidButStart(p) ==
  /\ p.service # Null /\ p.service \notin ShortNames /\ p.path # Null
  /\ p.svcType \in {SERVICE_WIN32_OWN_PROCESS, SERVICE_INTERACTIVE_PROCESS}
  /\ p.errorControl \in ErrorLevels /\ p.priority \in Priorities

\* The upper bounds of the delay and of the period are those of the type.
Valid(p) ==
  /\ p.service # Null /\ p.service \notin ShortNames
  /\ p.path # Null
  /\ ~(/\ p.svcType # SERVICE_WIN32_OWN_PROCESS
       /\ p.svcType # SERVICE_INTERACTIVE_PROCESS
       /\ NotOwnInteractive(p.svcType))
  /\ p.startType \in StartTypes
  /\ p.errorControl \in ErrorLevels
  /\ p.priority \in Priorities
  /\ p.recoveryDelay >= 0
  /\ \A i \in 1..3 : p.actions[i] \in ScActions
  /\ p.resetPeriod >= 0

\* An interactive service of the system account is started through %COMSPEC%.
Via(p) ==
  IF (p.svcType \div SERVICE_INTERACTIVE_PROCESS) % 2 = 1 /\ p.user = Null THEN "comspec" ELSE "direct"

\* What CreateService stores.
Entry(p) ==
  [svcType |-> p.svcType, startType |-> p.startType, errorControl |-> p.errorControl,
   user |-> p.user, command |-> <<Via(p), p.path, p.params>>]

\* What the calls of ChangeServiceConfig2 that follow store.
Setting(p, name) ==
  CASE name = "description"    -> p.description
    [] name = "delayedStart"   -> p.delayed
    [] name = "failureActions" -> [actions |-> p.actions, delay |-> p.recoveryDelay,
                                   reset |-> p.resetPeriod, command |-> p.recoveryCmd]
    [] name = "failureFlag"    -> p.enabled

\* start_type & SERVICE_AUTO_START, which the demand start has as well.
AsksDelayedStart(p) == (p.startType \div AutoStart) % 2 = 1
=============================================================================
