--------------------------- MODULE ServiceManager ---------------------------
(***************************************************************************)
(* The clients of one service: PHP scripts that create, delete, look for,  *)
(* query, start and control it, each call with a handle of its own, and    *)
(* the database of the Service Control Manager they share.  The service    *)
(* itself is seen as ServiceLifecycle describes it.                        *)
(*                                                                         *)
(* Checking the arguments and connecting to the SCM touch nothing that is  *)
(* shared: a call begins when it opens, or creates, the service, or refuses *)
(* the array it has been given.  Calls on other services do not interfere. *)
(***************************************************************************)
EXTENDS CreateParams

CONSTANTS
  Clients,  \* PHP scripts
  Details   \* the arrays they create the service from

ASSUME ServiceManagerAssumption ==
  /\ LongValues \in Nat /\ LongValues > 2 * DefaultPeriod   \* the defaults fit
  /\ \A d \in Details : DOMAIN d \subseteq Keys

Controls == {"stop", "pause", "continue", "custom"}
Acts     == {"exists", "delete", "query", "start"} \cup Controls

\* The parts of the configuration that win32_create_service sets one after the other.
Settings == {"description", "delayedStart", "failureActions", "failureFlag"}

VARIABLES
  service,   \* the entry in the database
  state,     \* the state of the service, ServiceLifecycle's
  handles,   \* the clients with an open handle of it
  call       \* the call each client is in, and how it is ending

vars == <<service, state, handles, call>>

Lifecycle == INSTANCE ServiceLifecycle

Stopped == state \in Lifecycle!Ends

Nothing == [key \in {} |-> Null]

NoService == [registered |-> FALSE, marked |-> FALSE, entry |-> Nothing, settings |-> Nothing]

Idle == [at |-> "idle", op |-> "none", result |-> "none", details |-> Nothing]

Results == {"none", "null", "threw", "partial", "invalid"}

\* TypeOK: an entry is marked, configured or running only while it is registered, only
\* a client inside a call has a handle, and no array brings a type, a start type or an
\* error control into the database that Windows does not know.
TypeOK ==
  /\ service.registered \in BOOLEAN /\ service.marked \in BOOLEAN
  /\ DOMAIN service.settings \subseteq Settings
  /\ service.registered =>
       /\ service.entry.svcType \in {SERVICE_WIN32_OWN_PROCESS,
                                    SERVICE_WIN32_OWN_PROCESS + SERVICE_INTERACTIVE_PROCESS}
       /\ service.entry.startType \in StartTypes /\ service.entry.errorControl \in ErrorLevels
  /\ ~service.registered => service = NoService /\ Stopped /\ handles = {}
  /\ state \in {"STOPPED", "ABORTED", "START_PENDING", "RUNNING", "STOP_PENDING"}
  /\ \A c \in Clients :
       /\ call[c].at \in {"idle", "act", "close", "refused"} \cup Settings
       /\ call[c].op \in Acts \cup {"none", "create"} /\ call[c].result \in Results
  /\ handles \subseteq {c \in Clients : call[c].at # "idle"}

Init ==
  /\ service = NoService /\ state = "STOPPED" /\ handles = {}
  /\ call = [c \in Clients |-> Idle]

-----------------------------------------------------------------------------
(* The SCM: an entry marked for deletion goes when the service has stopped *)
(* and the last handle is closed.                                          *)

Settles ==
  service' = IF service.marked /\ handles' = {} /\ state' \in Lifecycle!Ends THEN NoService
             ELSE service

ServiceAdvances ==
  /\ service.registered
  /\ Lifecycle!Advance
  /\ UNCHANGED <<handles, call>>
  /\ Settles

Deliverable(op) == IF op = "stop" THEN state \in {"START_PENDING", "RUNNING"}
                                  ELSE state = "RUNNING"

-----------------------------------------------------------------------------
(* The calls.                                                              *)

Over(c) == call' = [call EXCEPT ![c] = Idle]

Closing(c, result) == call' = [call EXCEPT ![c].at = "close", ![c].result = result]

\* OpenService finds the service, also one marked for deletion, or fails, and the call
\* is over with FALSE or an exception.
OpensService(c, op) ==
  /\ call[c].at = "idle"
  /\ \/ /\ service.registered
        /\ handles' = handles \cup {c}
        /\ call' = [call EXCEPT ![c] =
             IF op = "exists" THEN [Idle EXCEPT !.at = "close", !.op = op, !.result = "null"]
                              ELSE [Idle EXCEPT !.at = "act", !.op = op]]
     \/ UNCHANGED <<handles, call>>
  /\ UNCHANGED <<service, state>>

\* A ValueError; the call returns at once.
Refuses(c, details) ==
  /\ call[c].at = "idle"
  /\ ~Valid(Params(details))
  /\ call' = [call EXCEPT ![c] = [Idle EXCEPT !.at = "refused", !.op = "create",
                                             !.result = "invalid", !.details = details]]
  /\ UNCHANGED <<service, state, handles>>

Refused(c) ==
  /\ call[c].at = "refused"
  /\ Over(c)
  /\ UNCHANGED <<service, state, handles>>

\* CreateService fails for a service that exists, marked or not, for the interactive
\* type alone, which names no process, or for any other reason.
Creates(c, details) ==
  /\ call[c].at = "idle"
  /\ Valid(Params(details))
  /\ \/ /\ ~service.registered /\ Params(details).svcType # SERVICE_INTERACTIVE_PROCESS
        /\ service' = [NoService EXCEPT !.registered = TRUE, !.entry = Entry(Params(details))]
        /\ handles' = {c}
        /\ call' = [call EXCEPT ![c] =
             [Idle EXCEPT !.at = "description", !.op = "create", !.details = details]]
     \/ UNCHANGED <<service, handles, call>>
  /\ UNCHANGED state

\* Fault: the failure actions are left out without a delayed start.
FollowingShort(c) ==
  CASE call[c].at = "description" /\ AsksDelayedStart(Params(call[c].details)) -> "delayedStart"
    [] call[c].at = "delayedStart" -> "failureActions"
    [] call[c].at = "failureFlag"  -> "close"
    [] OTHER                       -> "failureFlag"

Following(c) ==
  CASE call[c].at = "description" ->
         IF AsksDelayedStart(Params(call[c].details)) THEN "delayedStart" ELSE "failureActions"
    [] call[c].at = "delayedStart"   -> "failureActions"
    [] call[c].at = "failureActions" -> "failureFlag"
    [] call[c].at = "failureFlag"    -> "close"

With(settings, name, value) ==
  [n \in DOMAIN settings \cup {name} |-> IF n = name THEN value ELSE settings[n]]

\* One ChangeServiceConfig2.  It fails for a service that has been deleted meanwhile,
\* or for any other reason, and the call then ends: partially configured.  The failure
\* flag is the last part: the function returns before the code that would store
\* base_priority in the registry, so no step does.
Configures(c) ==
  /\ call[c].at \in Settings
  /\ \/ /\ ~service.marked
        /\ service' = [service EXCEPT !.settings =
             With(@, call[c].at, Setting(Params(call[c].details), call[c].at))]
        /\ call' = [call EXCEPT ![c].at = Following(c),
                                ![c].result = IF call[c].at = "failureFlag" THEN "null" ELSE @]
     \/ Closing(c, "partial") /\ UNCHANGED service
  /\ UNCHANGED <<state, handles>>

Deletes(c) ==
  /\ call[c].at = "act" /\ call[c].op = "delete"
  /\ \/ /\ ~service.marked
        /\ service' = [service EXCEPT !.marked = TRUE]
        /\ Closing(c, "null")
     \/ Closing(c, "threw") /\ UNCHANGED service
  /\ UNCHANGED <<state, handles>>

Queries(c) ==
  /\ call[c].at = "act" /\ call[c].op = "query"
  /\ \E result \in {"null", "threw"} : Closing(c, result)
  /\ UNCHANGED <<service, state, handles>>

Starts(c) ==
  /\ call[c].at = "act" /\ call[c].op = "start"
  /\ \/ /\ Stopped /\ ~service.marked /\ service.entry.startType # Disabled
        /\ state' = "START_PENDING"
        /\ Closing(c, "null")
     \/ Closing(c, "threw") /\ UNCHANGED state
  /\ UNCHANGED <<service, handles>>

\* The handler of the service answers a stop with STOP_PENDING, others with its state.
Answered(op) == IF op = "stop" THEN "STOP_PENDING" ELSE state

\* ControlService returns when the handler of the service has answered.
SendsControl(c) ==
  /\ call[c].at = "act" /\ call[c].op \in Controls
  /\ \/ /\ Deliverable(call[c].op)
        /\ state' = Answered(call[c].op)
        /\ Closing(c, "null")
     \/ Closing(c, "threw") /\ UNCHANGED state
  /\ UNCHANGED <<service, handles>>

\* Fault: after a failure the handle of the service stays open.
ClosesOnSuccess(c) ==
  /\ call[c].at = "close"
  /\ handles' = IF call[c].result = "partial" THEN handles ELSE handles \ {c}
  /\ Over(c)
  /\ UNCHANGED state
  /\ Settles

Closes(c) ==
  /\ call[c].at = "close"
  /\ handles' = handles \ {c}
  /\ Over(c)
  /\ UNCHANGED state
  /\ Settles

-----------------------------------------------------------------------------
Call(c) ==
  \/ Configures(c) \/ Deletes(c) \/ Queries(c) \/ Starts(c) \/ SendsControl(c) \/ Closes(c)

Next ==
  \/ \E c \in Clients :
       \/ \E op \in Acts : OpensService(c, op)
       \/ \E d \in Details : Creates(c, d) \/ Refuses(c, d)
       \/ Refused(c)
       \/ Call(c)
  \/ ServiceAdvances

Spec == Init /\ [][Next]_vars

-----------------------------------------------------------------------------
(* Properties.                                                             *)

\* No call leaves a handle behind, whatever fails: a service that is deleted and has
\* stopped is still in the database, and in the way of a new one, only as long as a
\* call is in progress.
DeletedIsReleased == service.marked /\ Stopped => \E c \in Clients : call[c].at # "idle"

\* win32_create_service returns without an exception only when the service has what its
\* array asked for, defaults included: type, start, error control, account, command line,
\* description, delayed start and recovery.  It is not promised base_priority, which is
\* checked and never stored, nor a number that does not fit a long.  A service is reported
\* as partially configured only if the last part is missing.  Other clients start, stop
\* and delete what is being configured.
Asked(c, key, default) == Detail(call[c].details, key, default)

Fits(c) ==
  \A key \in DOMAIN call[c].details \cap LongKeys :
    ToLong(call[c].details[key]) = call[c].details[key]

ConfiguredAsAsked(c) ==
  LET startType == Asked(c, "start_type", AutoStart)
      recovery  == service.settings["failureActions"]
  IN  /\ service.entry.startType = startType
      /\ service.entry.svcType = Asked(c, "svc_type", SERVICE_WIN32_OWN_PROCESS)
      /\ service.entry.errorControl = Asked(c, "error_control", 0)
      /\ service.entry.user = Asked(c, "user", Null)
      /\ service.entry.command = <<"direct", Asked(c, "path", Null), Asked(c, "params", "")>>
      /\ {"description", "failureActions", "failureFlag"} \subseteq DOMAIN service.settings
      /\ service.settings["description"] = Asked(c, "description", Null)
      /\ service.settings["failureFlag"] = Asked(c, "recovery_enabled", FALSE)
      /\ recovery = [actions |-> <<Asked(c, "recovery_action_1", 0), Asked(c, "recovery_action_2", 0),
                                   Asked(c, "recovery_action_3", 0)>>,
                      delay   |-> Asked(c, "recovery_delay", DefaultDelay),
                      reset   |-> Asked(c, "recovery_reset_period", DefaultPeriod),
                      command |-> Asked(c, "recovery_command", Null)]
      /\ startType = AutoStart =>
           /\ "delayedStart" \in DOMAIN service.settings
           /\ service.settings["delayedStart"] = Asked(c, "delayed_start", FALSE)

CreatedAsAsked ==
  [][\A c \in Clients :
       call[c].op = "create" /\ call[c].at = "close" /\ call'[c].at = "idle" =>
         IF call[c].result = "null" THEN Fits(c) => ConfiguredAsAsked(c)
         ELSE "failureFlag" \notin DOMAIN service.settings]_vars

\* win32_create_service refuses an array only for a value that no constant documents:
\* WIN32_SERVICE_WIN32_OWN_PROCESS_INTERACTIVE is one of those it registers.
Documented(details) ==
  /\ Detail(details, "svc_type", SERVICE_WIN32_OWN_PROCESS) \in
       {SERVICE_WIN32_OWN_PROCESS, SERVICE_INTERACTIVE_PROCESS,
        SERVICE_WIN32_OWN_PROCESS + SERVICE_INTERACTIVE_PROCESS}
  /\ Detail(details, "start_type", AutoStart) \in StartTypes
  /\ Detail(details, "error_control", 0) \in ErrorLevels
  /\ Detail(details, "base_priority", 32) \in Priorities
  /\ Detail(details, "recovery_delay", 0) \in Nat /\ Detail(details, "recovery_reset_period", 0) \in Nat
  /\ \A key \in {"recovery_action_1", "recovery_action_2", "recovery_action_3"} :
       Detail(details, key, 0) \in ScActions
  /\ {"service", "path"} \subseteq DOMAIN details

DocumentedAccepted ==
  \A c \in Clients : call[c].result = "invalid" => ~Documented(call[c].details)
=============================================================================
