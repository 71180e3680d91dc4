------------------------- MODULE ServiceManagerProofs -------------------------
(***************************************************************************)
(* The safety properties of ServiceManager, for every number of clients,   *)
(* every set of arrays, every set of short names and every width of a long *)
(* that the defaults fit.                                                  *)
(*                                                                         *)
(* A client configures the service it has created in several calls, and    *)
(* nothing keeps the others away from it.  What protects it is its handle: *)
(* while one is open the entry cannot go, so there is no second creator.   *)
(***************************************************************************)
EXTENDS ServiceManager, TLAPS

ServiceFields == {"registered", "marked", "entry", "settings"}
CallFields    == {"at", "op", "result", "details"}

EntryOK(entry) ==
  /\ entry.svcType \in {SERVICE_WIN32_OWN_PROCESS,
                        SERVICE_WIN32_OWN_PROCESS + SERVICE_INTERACTIVE_PROCESS}
  /\ entry.startType \in StartTypes /\ entry.errorControl \in ErrorLevels

\* What is true of the entry in the database.
ServiceOK(s) ==
  /\ s = [f \in ServiceFields |-> s[f]]
  /\ s.registered \in BOOLEAN /\ s.marked \in BOOLEAN
  /\ DOMAIN s.settings \subseteq Settings
  /\ s.registered => EntryOK(s.entry)
  /\ ~s.registered => s = NoService

Open(r) == r.at \in {"act", "close"} \cup Settings

Creating(r) == r.op = "create" /\ Open(r)

\* What is true of the record of a call.
CallOK(r) ==
  /\ r = [f \in CallFields |-> r[f]]
  /\ r.at \in {"idle", "act", "close", "refused"} \cup Settings
  /\ r.op \in Acts \cup {"none", "create"}
  /\ r.result \in Results
  /\ r.at = "act" => r.op \in Acts
  /\ r.at \in Settings => r.op = "create"

\* The parts of the configuration a creator has made, by how far it has come.
Made(r) ==
  LET delayed == IF AsksDelayedStart(Params(r.details)) THEN {"delayedStart"} ELSE {}
  IN  CASE r.at = "description"    -> {}
        [] r.at = "delayedStart"   -> {"description"}
        [] r.at = "failureActions" -> {"description"} \cup delayed
        [] r.at = "failureFlag"    -> {"description", "failureActions"} \cup delayed
        [] r.at = "close"          -> Settings \ (IF delayed = {} THEN {"delayedStart"} ELSE {})

\* What a creator may rely on: the service is the one it has created, with the settings
\* it has made and no others.
Created(r, s) ==
  LET p == Params(r.details)
  IN  /\ Valid(p) /\ p.svcType # SERVICE_INTERACTIVE_PROCESS
      /\ s.entry = Entry(p)
      /\ \A name \in DOMAIN s.settings : s.settings[name] = Setting(p, name)
      /\ r.result = "partial" => "failureFlag" \notin DOMAIN s.settings
      /\ r.result # "partial" => DOMAIN s.settings = Made(r)
      /\ r.at = "close" => r.result \in {"null", "partial"}
      /\ r.at \in Settings => r.result = "none"
      /\ r.at = "delayedStart" => AsksDelayedStart(p)

\* Handles are those of the calls in progress; a service nobody has a handle of is not
\* both deleted and stopped.
HandlesInv ==
  /\ handles = {c \in Clients : Open(call[c])}
  /\ ~service.registered => Stopped /\ handles = {}
  /\ service.marked /\ Stopped => handles # {}

OneCreator ==
  \A c, d \in Clients : Creating(call[c]) /\ Creating(call[d]) => c = d

States == {"STOPPED", "ABORTED", "START_PENDING", "RUNNING", "STOP_PENDING"}

IInv ==
  /\ ServiceOK(service)
  /\ state \in States
  /\ call = [c \in Clients |-> call[c]]
  /\ \A c \in Clients : CallOK(call[c])
  /\ HandlesInv
  /\ OneCreator
  /\ \A c \in Clients : Creating(call[c]) => Created(call[c], service)
-----------------------------------------------------------------------------
(* Lemmas about the parameters.                                            *)

Defaults == 0..DefaultPeriod

LEMMA SmallRemainder ==
  ASSUME NEW x \in Nat, NEW n \in Nat, x < n PROVE x % n = x
<1>1. n > 0 /\ x >= 0
  OBVIOUS
<1> QED
  BY <1>1

\* A default is the same in a long.
LEMMA DefaultsFit ==
  ASSUME NEW v \in Defaults PROVE ToLong(v) = v
<1> DEFINE half == LongValues \div 2
<1>1. DefaultPeriod \in Nat
  BY SMT DEF DefaultPeriod
<1>2. LongValues \in Nat /\ LongValues > 2 * DefaultPeriod
  BY ServiceManagerAssumption
<1>3. half \in Nat /\ 2 * half <= LongValues
  BY <1>2, SMT
<1>4. ToLong(v) = ((v + half) % LongValues) - half
  BY DEF ToLong
<1> HIDE DEF half
<1>5. v \in Nat /\ v <= DefaultPeriod
  BY <1>1, SMT DEF Defaults
<1>6. v + half \in Nat /\ v + half < LongValues
  BY <1>1, <1>2, <1>3, <1>5, SMT
<1>7. (v + half) % LongValues = v + half
  BY <1>2, <1>6, SmallRemainder
<1> QED
  BY <1>3, <1>4, <1>5, <1>7, SMT

\* The entry of a service that Windows accepts has a type, a start type and an error
\* control it knows: the own process type, since the other accepted one names no process.
LEMMA ValidEntry ==
  ASSUME NEW p, Valid(p), p.svcType # SERVICE_INTERACTIVE_PROCESS
  PROVE  EntryOK(Entry(p))
<1>1. p.svcType = SERVICE_WIN32_OWN_PROCESS
  BY DEF Valid, NotOwnInteractive, SERVICE_WIN32_OWN_PROCESS, SERVICE_INTERACTIVE_PROCESS
<1>2. p.startType \in StartTypes /\ p.errorControl \in ErrorLevels
  BY DEF Valid
<1> QED
  BY <1>1, <1>2 DEF Entry, EntryOK

\* An automatic start has a branch for the delayed start.
LEMMA AutoStartAsksDelay ==
  ASSUME NEW p, p.startType = AutoStart PROVE AsksDelayedStart(p)
BY DEF AsksDelayedStart, AutoStart

\* A value that fits a long, or a default, is the one the array asks for.
LEMMA AskedIsRead ==
  ASSUME NEW c \in Clients, Fits(c), NEW key \in LongKeys, NEW default \in Defaults
  PROVE  ToLong(Detail(call[c].details, key, default)) = Asked(c, key, default)
<1>1. CASE key \in DOMAIN call[c].details
  <2>1. Detail(call[c].details, key, default) = call[c].details[key]
    BY <1>1, Zenon DEF Detail
  <2>2. ToLong(call[c].details[key]) = call[c].details[key]
    BY <1>1, Zenon DEF Fits
  <2> QED
    BY <2>1, <2>2, Zenon DEF Asked
<1>2. CASE key \notin DOMAIN call[c].details
  <2>1. Detail(call[c].details, key, default) = default
    BY <1>2, Zenon DEF Detail
  <2> QED
    BY <2>1, DefaultsFit, Zenon DEF Asked
<1> QED
  BY <1>1, <1>2

\* So the numbers among the parameters are those the array asks for.
LEMMA ParamsAsAsked ==
  ASSUME NEW c \in Clients, Fits(c)
  PROVE  LET p == Params(call[c].details)
         IN  /\ p.startType = Asked(c, "start_type", AutoStart)
             /\ p.svcType = Asked(c, "svc_type", SERVICE_WIN32_OWN_PROCESS)
             /\ p.errorControl = Asked(c, "error_control", 0)
             /\ p.recoveryDelay = Asked(c, "recovery_delay", DefaultDelay)
             /\ p.resetPeriod = Asked(c, "recovery_reset_period", DefaultPeriod)
             /\ p.actions = <<Asked(c, "recovery_action_1", 0), Asked(c, "recovery_action_2", 0),
                              Asked(c, "recovery_action_3", 0)>>
<1>1. /\ "svc_type" \in LongKeys /\ "start_type" \in LongKeys /\ "error_control" \in LongKeys
      /\ "recovery_delay" \in LongKeys /\ "recovery_reset_period" \in LongKeys
      /\ "recovery_action_1" \in LongKeys /\ "recovery_action_2" \in LongKeys
      /\ "recovery_action_3" \in LongKeys
  BY Zenon DEF LongKeys
<1>2. /\ AutoStart \in Defaults /\ SERVICE_WIN32_OWN_PROCESS \in Defaults
      /\ 0 \in Defaults /\ DefaultDelay \in Defaults /\ DefaultPeriod \in Defaults
  <2>1. AutoStart \in Defaults /\ 0 \in Defaults
    BY SMT DEF AutoStart, Defaults, DefaultPeriod
  <2>2. SERVICE_WIN32_OWN_PROCESS \in Defaults
    BY SMT DEF SERVICE_WIN32_OWN_PROCESS, Defaults, DefaultPeriod
  <2>3. DefaultDelay \in Defaults /\ DefaultPeriod \in Defaults
    BY SMT DEF Defaults, DefaultDelay, DefaultPeriod
  <2> QED
    BY <2>1, <2>2, <2>3
<1>3. Params(call[c].details).startType = Asked(c, "start_type", AutoStart)
  <2>1. Params(call[c].details).startType = ToLong(Detail(call[c].details, "start_type", AutoStart))
    BY DEF Params
  <2> QED
    BY <1>1, <1>2, <2>1, AskedIsRead, Zenon
<1>4. Params(call[c].details).svcType = Asked(c, "svc_type", SERVICE_WIN32_OWN_PROCESS)
  <2>1. Params(call[c].details).svcType =
          ToLong(Detail(call[c].details, "svc_type", SERVICE_WIN32_OWN_PROCESS))
    BY DEF Params
  <2> QED
    BY <1>1, <1>2, <2>1, AskedIsRead, Zenon
<1>5. Params(call[c].details).errorControl = Asked(c, "error_control", 0)
  <2>1. Params(call[c].details).errorControl = ToLong(Detail(call[c].details, "error_control", 0))
    BY DEF Params
  <2> QED
    BY <1>1, <1>2, <2>1, AskedIsRead, Zenon
<1>6. Params(call[c].details).recoveryDelay = Asked(c, "recovery_delay", DefaultDelay)
  <2>1. Params(call[c].details).recoveryDelay =
          ToLong(Detail(call[c].details, "recovery_delay", DefaultDelay))
    BY DEF Params
  <2> QED
    BY <1>1, <1>2, <2>1, AskedIsRead, Zenon
<1>7. Params(call[c].details).resetPeriod = Asked(c, "recovery_reset_period", DefaultPeriod)
  <2>1. Params(call[c].details).resetPeriod =
          ToLong(Detail(call[c].details, "recovery_reset_period", DefaultPeriod))
    BY DEF Params
  <2> QED
    BY <1>1, <1>2, <2>1, AskedIsRead, Zenon
<1>8. Params(call[c].details).actions =
        <<Asked(c, "recovery_action_1", 0), Asked(c, "recovery_action_2", 0),
          Asked(c, "recovery_action_3", 0)>>
  <2>1. Params(call[c].details).actions =
          <<ToLong(Detail(call[c].details, "recovery_action_1", 0)),
            ToLong(Detail(call[c].details, "recovery_action_2", 0)),
            ToLong(Detail(call[c].details, "recovery_action_3", 0))>>
    BY DEF Params
  <2>2. /\ ToLong(Detail(call[c].details, "recovery_action_1", 0)) = Asked(c, "recovery_action_1", 0)
        /\ ToLong(Detail(call[c].details, "recovery_action_2", 0)) = Asked(c, "recovery_action_2", 0)
        /\ ToLong(Detail(call[c].details, "recovery_action_3", 0)) = Asked(c, "recovery_action_3", 0)
    BY <1>1, <1>2, AskedIsRead, Zenon
  <2> QED
    BY <2>1, <2>2, Zenon
<1> QED
  BY <1>3, <1>4, <1>5, <1>6, <1>7, <1>8, Zenon

\* An own process is started by its own command line.
LEMMA OwnIsDirect ==
  ASSUME NEW p, Valid(p), p.svcType # SERVICE_INTERACTIVE_PROCESS
  PROVE  Via(p) = "direct"
<1>1. p.svcType = SERVICE_WIN32_OWN_PROCESS
  BY DEF Valid, NotOwnInteractive, SERVICE_WIN32_OWN_PROCESS, SERVICE_INTERACTIVE_PROCESS
<1>2. (p.svcType \div SERVICE_INTERACTIVE_PROCESS) % 2 # 1
  BY <1>1 DEF SERVICE_WIN32_OWN_PROCESS, SERVICE_INTERACTIVE_PROCESS
<1> QED
  BY <1>2 DEF Via

\* A creator that has made all its settings has configured the service as asked.
LEMMA CreatedIsConfigured ==
  ASSUME NEW c \in Clients, Created(call[c], service), call[c].at = "close",
         call[c].result # "partial", Fits(c)
  PROVE  ConfiguredAsAsked(c)
<1> DEFINE p == Params(call[c].details)
           made == DOMAIN service.settings
<1>1. /\ service.entry = Entry(p)
      /\ \A name \in made : service.settings[name] = Setting(p, name)
      /\ made = Made(call[c])
  BY DEF Created
<1>2. made = Settings \ (IF AsksDelayedStart(p) THEN {} ELSE {"delayedStart"})
  BY <1>1 DEF Made
<1>3. {"description", "failureActions", "failureFlag"} \subseteq made
  BY <1>2 DEF Settings
<1>4. /\ p.description = Asked(c, "description", Null)
      /\ p.delayed = Asked(c, "delayed_start", FALSE)
      /\ p.enabled = Asked(c, "recovery_enabled", FALSE)
      /\ p.recoveryCmd = Asked(c, "recovery_command", Null)
  BY DEF Params, Asked
<1>5. /\ service.entry.startType = p.startType
      /\ service.entry.svcType = p.svcType
      /\ service.entry.errorControl = p.errorControl
  BY <1>1 DEF Entry
<1>6. /\ service.settings["description"] = p.description
      /\ service.settings["failureFlag"] = p.enabled
      /\ service.settings["failureActions"] =
           [actions |-> p.actions, delay |-> p.recoveryDelay, reset |-> p.resetPeriod,
            command |-> p.recoveryCmd]
  BY <1>1, <1>3 DEF Setting
<1>7. p.startType = AutoStart => "delayedStart" \in made
  <2> HIDE DEF p, made
  <2> QED
    BY <1>2, AutoStartAsksDelay DEF Settings
<1>8. p.startType = AutoStart => service.settings["delayedStart"] = p.delayed
  BY <1>1, <1>7 DEF Setting
<1>9. /\ service.entry.startType = Asked(c, "start_type", AutoStart)
      /\ service.entry.svcType = Asked(c, "svc_type", SERVICE_WIN32_OWN_PROCESS)
      /\ service.entry.errorControl = Asked(c, "error_control", 0)
  BY <1>5, ParamsAsAsked, Zenon
<1>10. service.settings["failureActions"] =
         [actions |-> <<Asked(c, "recovery_action_1", 0), Asked(c, "recovery_action_2", 0),
                        Asked(c, "recovery_action_3", 0)>>,
          delay   |-> Asked(c, "recovery_delay", DefaultDelay),
          reset   |-> Asked(c, "recovery_reset_period", DefaultPeriod),
          command |-> Asked(c, "recovery_command", Null)]
  BY <1>4, <1>6, ParamsAsAsked, Zenon
<1>11. Asked(c, "start_type", AutoStart) = AutoStart =>
         /\ "delayedStart" \in DOMAIN service.settings
         /\ service.settings["delayedStart"] = Asked(c, "delayed_start", FALSE)
  BY <1>4, <1>7, <1>8, ParamsAsAsked, Zenon
<1>12. service.entry.user = Asked(c, "user", Null)
  <2>1. p.user = Asked(c, "user", Null)
    BY DEF Params, Asked
  <2>2. service.entry.user = p.user
    BY <1>1 DEF Entry
  <2> QED
    BY <2>1, <2>2, Zenon
<1>13. service.entry.command = <<"direct", Asked(c, "path", Null), Asked(c, "params", "")>>
  <2>1. p.path = Asked(c, "path", Null) /\ p.params = Asked(c, "params", "")
    BY DEF Params, Asked
  <2>2. Via(p) = "direct"
    BY OwnIsDirect DEF Created
  <2>3. service.entry.command = <<Via(p), p.path, p.params>>
    BY <1>1 DEF Entry
  <2> QED
    BY <2>1, <2>2, <2>3, Zenon
<1> QED
  BY <1>3, <1>4, <1>6, <1>9, <1>10, <1>11, <1>12, <1>13, Zenon DEF ConfiguredAsAsked

-----------------------------------------------------------------------------
(* The properties follow from the invariant.                               *)

LEMMA InvariantImpliesTypeOK == IInv => TypeOK
<1> SUFFICES ASSUME IInv PROVE TypeOK
  OBVIOUS
<1>1. ~service.registered => service = NoService /\ Stopped /\ handles = {}
  BY DEF IInv, ServiceOK, HandlesInv
<1>2. /\ service.registered \in BOOLEAN /\ service.marked \in BOOLEAN
      /\ DOMAIN service.settings \subseteq Settings
      /\ service.registered => EntryOK(service.entry)
  BY DEF IInv, ServiceOK
<1>3. \A c \in Clients : CallOK(call[c])
  BY DEF IInv
<1>4. handles \subseteq {c \in Clients : call[c].at # "idle"}
  BY DEF IInv, HandlesInv, Open, Settings
<1> QED
  BY <1>1, <1>2, <1>3, <1>4 DEF TypeOK, IInv, States, EntryOK, CallOK

LEMMA InvariantImpliesDeletedIsReleased == IInv => DeletedIsReleased
BY DEF IInv, HandlesInv, DeletedIsReleased, Open, Settings

LEMMA InvariantImpliesAsAsked ==
  ASSUME IInv, NEW c \in Clients, call[c].op = "create", call[c].at = "close"
  PROVE  IF call[c].result = "null" THEN Fits(c) => ConfiguredAsAsked(c)
         ELSE "failureFlag" \notin DOMAIN service.settings
<1>1. Created(call[c], service)
  BY DEF IInv, Creating, Open
<1>2. CASE call[c].result = "null"
  BY <1>1, <1>2, CreatedIsConfigured
<1>3. CASE call[c].result # "null"
  BY <1>1, <1>3 DEF Created
<1> QED
  BY <1>2, <1>3

-----------------------------------------------------------------------------
(* The steps.                                                              *)

\* A step of one call keeps the invariant if what the call becomes, the service and the
\* handles do.
LEMMA OneCall ==
  ASSUME IInv, NEW c \in Clients, NEW r, call' = [call EXCEPT ![c] = r],
         CallOK(r), ServiceOK(service'), state' \in States,
         handles' = IF Open(r) THEN handles \cup {c} ELSE handles \ {c},
         ~service'.registered => state' \in Lifecycle!Ends /\ handles' = {},
         service'.marked /\ state' \in Lifecycle!Ends => handles' # {},
         Creating(r) => Creating(call[c]) \/ handles = {},
         Creating(r) => Created(r, service'),
         \A d \in Clients \ {c} : Creating(call[d]) => Created(call[d], service')
  PROVE  IInv'
<1>1. /\ call' = [d \in Clients |-> call'[d]]
      /\ call'[c] = r
      /\ \A d \in Clients \ {c} : call'[d] = call[d]
  BY DEF IInv
<1>2. \A d \in Clients : CallOK(call'[d])
  BY <1>1 DEF IInv
<1>3. handles' = {d \in Clients : Open(call'[d])}
  BY <1>1 DEF IInv, HandlesInv
<1>4. \A d \in Clients : Creating(call[d]) => d \in handles
  BY DEF IInv, HandlesInv, Creating
<1>5. OneCreator'
  <2>1. \A d, e \in Clients : Creating(call'[d]) /\ Creating(call'[e]) => d = e
    BY <1>1, <1>4 DEF IInv, OneCreator
  <2> QED
    BY <2>1 DEF OneCreator, Creating, Open
<1>6. \A d \in Clients : Creating(call'[d]) => Created(call'[d], service')
  BY <1>1
<1>7. HandlesInv'
  BY <1>3 DEF HandlesInv, Open, Stopped
<1> QED
  BY <1>1, <1>2, <1>5, <1>6, <1>7 DEF IInv, CallOK, ServiceOK, Created, Creating, Open, Made,
     EntryOK

\* In the common case the service is not touched.
LEMMA OnlyTheCall ==
  ASSUME IInv, NEW c \in Clients, NEW r, call' = [call EXCEPT ![c] = r],
         CallOK(r), Open(r) <=> Open(call[c]), UNCHANGED <<service, state, handles>>,
         Creating(r) => Creating(call[c]) /\ Created(r, service)
  PROVE  IInv'
<1>1. handles' = IF Open(r) THEN handles \cup {c} ELSE handles \ {c}
  BY DEF IInv, HandlesInv
<1>2. /\ ~service.registered => state \in Lifecycle!Ends /\ handles = {}
      /\ service.marked /\ state \in Lifecycle!Ends => handles # {}
      /\ ServiceOK(service) /\ state \in States
      /\ \A d \in Clients : Creating(call[d]) => Created(call[d], service)
  BY DEF IInv, HandlesInv, Stopped
<1> QED
  BY <1>1, <1>2, OneCall

\* Who is in a call has a handle, so the service is there.
LEMMA OpenIsRegistered ==
  ASSUME IInv, NEW c \in Clients, Open(call[c])
  PROVE  service.registered /\ c \in handles /\ handles # {}
BY DEF IInv, HandlesInv, ServiceOK

LEMMA NoServiceOK == ServiceOK(NoService) /\ ~NoService.registered /\ ~NoService.marked
<1> DEFINE s == NoService
<1>1. s = [f \in ServiceFields |-> s[f]]
  BY DEF NoService, ServiceFields
<1>2. s.registered = FALSE /\ s.marked = FALSE /\ DOMAIN s.settings = {}
  BY DEF NoService, Nothing
<1> HIDE DEF s
<1>3. s = NoService
  BY DEF s
<1> QED
  BY <1>1, <1>2, <1>3 DEF ServiceOK

\* A call that is over, or that never had a handle.
LEMMA IdleOK ==
  /\ CallOK(Idle) /\ ~Open(Idle) /\ ~Creating(Idle)
<1> DEFINE r == Idle
<1>1. r = [f \in CallFields |-> r[f]] /\ r.at = "idle" /\ r.op = "none" /\ r.result = "none"
  BY DEF Idle, CallFields
<1> HIDE DEF r
<1>2. CallOK(r) /\ ~Open(r) /\ ~Creating(r)
  BY <1>1 DEF CallOK, Open, Creating, Settings, Results
<1> QED
  BY <1>2 DEF r

LEMMA InitInv == Init => IInv
<1> SUFFICES ASSUME Init PROVE IInv
  OBVIOUS
<1>1. call = [c \in Clients |-> call[c]] /\ \A c \in Clients : call[c] = Idle
  BY DEF Init
<1> QED
  BY <1>1, IdleOK, NoServiceOK
     DEF Init, IInv, States, HandlesInv, OneCreator, Creating, Stopped, Lifecycle!Ends

LEMMA StutterInv == ASSUME IInv, UNCHANGED vars PROVE IInv'
<1>1. service' = service /\ state' = state /\ handles' = handles /\ call' = call
  BY DEF vars
<1>2. HandlesInv' /\ OneCreator'
  BY <1>1 DEF IInv, HandlesInv, OneCreator, Creating, Open, Stopped
<1> QED
  BY <1>1, <1>2 DEF IInv

LEMMA OpensServiceInv ==
  ASSUME IInv, NEW c \in Clients, NEW op \in Acts, OpensService(c, op) PROVE IInv'
<1>1. CASE UNCHANGED <<handles, call>>
  BY <1>1, StutterInv DEF OpensService, vars
<1>2. CASE ~UNCHANGED <<handles, call>>
  <2> DEFINE r == IF op = "exists" THEN [Idle EXCEPT !.at = "close", !.op = op, !.result = "null"]
                                   ELSE [Idle EXCEPT !.at = "act", !.op = op]
  <2>1. /\ call' = [call EXCEPT ![c] = r] /\ handles' = handles \cup {c}
        /\ service.registered /\ UNCHANGED <<service, state>>
    BY <1>2 DEF OpensService
  <2>2. /\ r = [f \in CallFields |-> r[f]]
        /\ r.at \in {"act", "close"} /\ r.op = op /\ r.result \in {"null", "none"}
    BY DEF Idle, CallFields
  <2> HIDE DEF r
  <2>3. CallOK(r) /\ Open(r) /\ ~Creating(r)
    BY <2>2 DEF CallOK, Open, Creating, Results, Acts, Controls, Settings
  <2>4. ServiceOK(service') /\ state' \in States /\ handles' # {}
    BY <2>1 DEF IInv
  <2>5. \A d \in Clients : Creating(call[d]) => Created(call[d], service')
    BY <2>1 DEF IInv
  <2> QED
    BY <2>1, <2>3, <2>4, <2>5, OneCall
<1> QED
  BY <1>1, <1>2

LEMMA RefusesInv ==
  ASSUME IInv, NEW c \in Clients, NEW d \in Details, Refuses(c, d) PROVE IInv'
<1> DEFINE r == [Idle EXCEPT !.at = "refused", !.op = "create", !.result = "invalid", !.details = d]
<1>1. call' = [call EXCEPT ![c] = r] /\ UNCHANGED <<service, state, handles>> /\ ~Open(call[c])
  BY DEF Refuses, Open, Settings
<1>2. r = [f \in CallFields |-> r[f]] /\ r.at = "refused" /\ r.op = "create" /\ r.result = "invalid"
  BY DEF Idle, CallFields
<1> HIDE DEF r
<1>3. CallOK(r) /\ ~Open(r) /\ ~Creating(r)
  BY <1>2 DEF CallOK, Open, Creating, Settings, Results
<1> QED
  BY <1>1, <1>3, OnlyTheCall

LEMMA RefusedInv == ASSUME IInv, NEW c \in Clients, Refused(c) PROVE IInv'
<1>1. call' = [call EXCEPT ![c] = Idle] /\ UNCHANGED <<service, state, handles>> /\ ~Open(call[c])
  BY DEF Refused, Over, Open, Settings
<1> QED
  BY <1>1, IdleOK, OnlyTheCall

\* A new entry has no other creator: nobody has a handle of an entry that is not there.
LEMMA CreatesInv ==
  ASSUME IInv, NEW c \in Clients, NEW d \in Details, Creates(c, d) PROVE IInv'
<1>1. CASE UNCHANGED <<service, handles, call>>
  BY <1>1, StutterInv DEF Creates, vars
<1>2. CASE ~UNCHANGED <<service, handles, call>>
  <2> DEFINE p == Params(d)
             s == [NoService EXCEPT !.registered = TRUE, !.entry = Entry(p)]
             r == [Idle EXCEPT !.at = "description", !.op = "create", !.details = d]
  <2>1. /\ call' = [call EXCEPT ![c] = r] /\ service' = s /\ handles' = {c} /\ state' = state
        /\ ~service.registered /\ Valid(p) /\ p.svcType # SERVICE_INTERACTIVE_PROCESS
    BY <1>2 DEF Creates
  <2>2. handles = {} /\ state \in States
    BY <2>1 DEF IInv, HandlesInv
  <2>3. /\ s = [f \in ServiceFields |-> s[f]]
        /\ s.registered = TRUE /\ s.marked = FALSE /\ s.entry = Entry(p) /\ DOMAIN s.settings = {}
    BY DEF NoService, ServiceFields, Nothing
  <2>4. /\ r = [f \in CallFields |-> r[f]]
        /\ r.at = "description" /\ r.op = "create" /\ r.result = "none" /\ r.details = d
    BY DEF Idle, CallFields
  <2>5. EntryOK(Entry(p))
    BY <2>1, ValidEntry
  <2> HIDE DEF s, r
  <2>6. CallOK(r) /\ Open(r)
    BY <2>4 DEF CallOK, Open, Results, Settings
  <2>7. Created(r, s)
    BY <2>1, <2>3, <2>4 DEF Created, Made, Settings
  <2>8. ServiceOK(s)
    BY <2>3, <2>5 DEF ServiceOK
  <2>9. \A e \in Clients : ~Creating(call[e])
    BY <2>2 DEF IInv, HandlesInv, Creating
  <2> QED
    BY <2>1, <2>2, <2>3, <2>6, <2>7, <2>8, <2>9, OneCall
<1> QED
  BY <1>1, <1>2

\* What the end of an operation makes of the record of its call.
LEMMA ClosingIs ==
  ASSUME IInv, NEW c \in Clients, NEW result, Closing(c, result)
  PROVE  \E r : /\ call' = [call EXCEPT ![c] = r]
                /\ r = [f \in CallFields |-> r[f]]
                /\ r.at = "close" /\ r.result = result
                /\ r.op = call[c].op /\ r.details = call[c].details
<1> DEFINE old == call[c]
           r == [old EXCEPT !.at = "close", !.result = result]
<1>1. call' = [call EXCEPT ![c] = r] /\ CallOK(old)
  BY DEF Closing, IInv
<1> HIDE DEF old
<1>2. /\ r = [f \in CallFields |-> r[f]]
      /\ r.at = "close" /\ r.result = result /\ r.op = old.op /\ r.details = old.details
  BY <1>1 DEF CallOK, CallFields
<1> HIDE DEF r
<1> QED
  BY <1>1, <1>2 DEF old

\* An operation on an open service that ends and leaves the entry and the handles alone.
LEMMA ActEnds ==
  ASSUME IInv, NEW c \in Clients, call[c].at = "act",
         NEW result \in {"null", "threw"}, Closing(c, result),
         UNCHANGED handles, ServiceOK(service'), state' \in States, service'.registered,
         \A d \in Clients : Creating(call[d]) => Created(call[d], service')
  PROVE  IInv'
<1>1. PICK r : /\ call' = [call EXCEPT ![c] = r]
               /\ r = [f \in CallFields |-> r[f]]
               /\ r.at = "close" /\ r.result = result /\ r.op = call[c].op
  BY ClosingIs
<1>2. call[c].op \in Acts /\ Open(call[c]) /\ c \in handles
  BY DEF IInv, CallOK, Open, HandlesInv
<1>3. CallOK(r) /\ Open(r) /\ ~Creating(r)
  BY <1>1, <1>2 DEF CallOK, Open, Creating, Results, Settings, Acts, Controls
<1> QED
  BY <1>1, <1>2, <1>3, OneCall

LEMMA QueriesInv == ASSUME IInv, NEW c \in Clients, Queries(c) PROVE IInv'
<1>1. /\ call[c].at = "act" /\ UNCHANGED <<service, state, handles>>
      /\ \E result \in {"null", "threw"} : Closing(c, result)
  BY DEF Queries
<1>2. service.registered
  BY <1>1, OpenIsRegistered DEF Open
<1> QED
  BY <1>1, <1>2, ActEnds DEF IInv

LEMMA StartsInv == ASSUME IInv, NEW c \in Clients, Starts(c) PROVE IInv'
<1>1. /\ call[c].at = "act" /\ UNCHANGED <<service, handles>>
      /\ state' \in {state, "START_PENDING"}
      /\ \E result \in {"null", "threw"} : Closing(c, result)
  BY DEF Starts
<1>2. service.registered /\ state' \in States
  BY <1>1, OpenIsRegistered DEF Open, IInv, States
<1> QED
  BY <1>1, <1>2, ActEnds DEF IInv

LEMMA SendsControlInv == ASSUME IInv, NEW c \in Clients, SendsControl(c) PROVE IInv'
<1>1. /\ call[c].at = "act" /\ UNCHANGED <<service, handles>>
      /\ state' \in {state, "STOP_PENDING"}
      /\ \E result \in {"null", "threw"} : Closing(c, result)
  BY DEF SendsControl, Answered
<1>2. service.registered /\ state' \in States
  BY <1>1, OpenIsRegistered DEF Open, IInv, States
<1> QED
  BY <1>1, <1>2, ActEnds DEF IInv

\* Marking the entry leaves to a creator what it relies on.
LEMMA DeletesInv == ASSUME IInv, NEW c \in Clients, Deletes(c) PROVE IInv'
<1>1. /\ call[c].at = "act" /\ UNCHANGED <<state, handles>>
      /\ service' \in {service, [service EXCEPT !.marked = TRUE]}
      /\ \E result \in {"null", "threw"} : Closing(c, result)
  BY DEF Deletes
<1>2. service.registered /\ ServiceOK(service)
  BY <1>1, OpenIsRegistered DEF Open, IInv
<1> DEFINE s == [service EXCEPT !.marked = TRUE]
<1>3. /\ s = [f \in ServiceFields |-> s[f]]
      /\ s.registered = service.registered /\ s.marked = TRUE
      /\ s.entry = service.entry /\ s.settings = service.settings
  BY <1>2 DEF ServiceOK, ServiceFields
<1> HIDE DEF s
<1>4. ServiceOK(s) /\ s.registered
  BY <1>2, <1>3 DEF ServiceOK
<1>5. \A d \in Clients : Creating(call[d]) => Created(call[d], s)
  BY <1>3 DEF IInv, Created
<1>6. service' \in {service, s}
  BY <1>1 DEF s
<1> QED
  BY <1>1, <1>2, <1>4, <1>5, <1>6, ActEnds DEF IInv

\* The entry goes only when nobody has a handle of it.
LEMMA SettlesOK ==
  ASSUME IInv, Settles, service.registered
  PROVE  /\ ServiceOK(service')
         /\ ~service'.registered => state' \in Lifecycle!Ends /\ handles' = {}
         /\ service'.marked /\ state' \in Lifecycle!Ends => handles' # {}
         /\ handles' # {} => service' = service
<1>1. CASE service.marked /\ handles' = {} /\ state' \in Lifecycle!Ends
  BY <1>1, NoServiceOK DEF Settles
<1>2. CASE ~(service.marked /\ handles' = {} /\ state' \in Lifecycle!Ends)
  BY <1>2 DEF Settles, IInv
<1> QED
  BY <1>1, <1>2

LEMMA ClosesInv == ASSUME IInv, NEW c \in Clients, Closes(c) PROVE IInv'
<1>1. /\ call' = [call EXCEPT ![c] = Idle] /\ handles' = handles \ {c}
      /\ state' = state /\ Settles /\ Open(call[c])
  BY DEF Closes, Over, Open
<1>2. service.registered /\ state' \in States
  BY <1>1, OpenIsRegistered DEF IInv
<1>3. ASSUME NEW d \in Clients \ {c}, Creating(call[d])
      PROVE  Created(call[d], service')
  <2>1. d \in handles'
    BY <1>1, <1>3 DEF IInv, HandlesInv, Creating
  <2> QED
    BY <1>1, <1>2, <1>3, <2>1, SettlesOK DEF IInv
<1> QED
  BY <1>1, <1>2, <1>3, IdleOK, SettlesOK, OneCall

LEMMA ServiceAdvancesInv == ASSUME IInv, ServiceAdvances PROVE IInv'
<1>1. service.registered /\ Settles /\ handles' = handles /\ call' = call /\ Lifecycle!Advance
  BY DEF ServiceAdvances
<1>2. state' \in States
  BY <1>1 DEF IInv, States, Lifecycle!Advance, Lifecycle!Later, Lifecycle!Ends
<1>3. HandlesInv'
  BY <1>1, SettlesOK DEF IInv, HandlesInv, Open, Stopped
<1>4. OneCreator'
  BY <1>1 DEF IInv, OneCreator, Creating, Open
<1>5. ASSUME NEW d \in Clients, Creating(call[d]) PROVE Created(call[d], service')
  BY <1>1, <1>5, SettlesOK DEF IInv, HandlesInv, Creating
<1> QED
  BY <1>1, <1>2, <1>3, <1>4, <1>5, SettlesOK DEF IInv

\* One more part of the configuration is made; what comes next is known from the part.
LEMMA MadeFollows ==
  ASSUME NEW c \in Clients, NEW r, call[c].at \in Settings, Created(call[c], service),
         r.at = Following(c), r.details = call[c].details
  PROVE  /\ Made(r) = Made(call[c]) \cup {call[c].at}
         /\ r.at \in (Settings \ {"description"}) \cup {"close"}
         /\ r.at = "close" <=> call[c].at = "failureFlag"
         /\ r.at = "delayedStart" => AsksDelayedStart(Params(r.details))
<1>1. CASE call[c].at = "description"
  BY <1>1 DEF Following, Made, Settings
<1>2. CASE call[c].at = "delayedStart"
  BY <1>2 DEF Following, Made, Settings, Created
<1>3. CASE call[c].at = "failureActions"
  BY <1>3 DEF Following, Made, Settings
<1>4. CASE call[c].at = "failureFlag"
  BY <1>4 DEF Following, Made, Settings
<1> QED
  BY <1>1, <1>2, <1>3, <1>4 DEF Settings

\* A creator sets one more part, and nobody else is creating.
LEMMA ConfiguresInv == ASSUME IInv, NEW c \in Clients, Configures(c) PROVE IInv'
<1> DEFINE old == call[c]
<1>1. /\ old.at \in Settings /\ state' = state /\ handles' = handles
      /\ CallOK(old) /\ Creating(old) /\ Open(old) /\ Created(old, service)
  BY DEF Configures, IInv, CallOK, Creating, Open
<1>2. /\ service.registered /\ ServiceOK(service) /\ c \in handles /\ state \in States
      /\ \A d \in Clients \ {c} : ~Creating(call[d])
  BY <1>1, OpenIsRegistered DEF IInv, OneCreator
<1>3. CASE Closing(c, "partial") /\ UNCHANGED service
  <2>1. PICK r : /\ call' = [call EXCEPT ![c] = r]
                 /\ r = [f \in CallFields |-> r[f]]
                 /\ r.at = "close" /\ r.result = "partial"
                 /\ r.op = old.op /\ r.details = old.details
    BY <1>3, ClosingIs
  <2>2. CallOK(r) /\ Open(r)
    BY <1>1, <2>1 DEF CallOK, Open, Results, Settings
  <2>3. "failureFlag" \notin DOMAIN service.settings
    BY <1>1 DEF Created, Made, Settings
  <2>4. Created(r, service)
    BY <1>1, <2>1, <2>3 DEF Created, Settings
  <2> QED
    BY <1>1, <1>2, <1>3, <2>1, <2>2, <2>4, OneCall
<1>4. CASE ~(Closing(c, "partial") /\ UNCHANGED service)
  <2> DEFINE value == Setting(Params(old.details), old.at)
             result == IF old.at = "failureFlag" THEN "null" ELSE old.result
             settings == With(service.settings, old.at, value)
             s == [service EXCEPT !.settings = settings]
             r == [old EXCEPT !.at = Following(c), !.result = result]
  <2>1. service' = s /\ call' = [call EXCEPT ![c] = r]
    BY <1>1, <1>4 DEF Configures, IInv
  <2>2. /\ DOMAIN settings = DOMAIN service.settings \cup {old.at}
        /\ settings[old.at] = value
        /\ \A name \in DOMAIN service.settings \ {old.at} : settings[name] = service.settings[name]
    BY DEF With
  <2> HIDE DEF old, value, settings
  <2>3. /\ s = [f \in ServiceFields |-> s[f]]
        /\ s.registered = service.registered /\ s.marked = service.marked
        /\ s.entry = service.entry /\ s.settings = settings
    BY <1>2 DEF ServiceOK, ServiceFields
  <2> HIDE DEF s, result
  <2>4. /\ r = [f \in CallFields |-> r[f]]
        /\ r.at = Following(c) /\ r.result = result
        /\ r.op = old.op /\ r.details = old.details
    BY <1>1 DEF CallOK, CallFields
  <2> HIDE DEF r
  <2>5. /\ Made(r) = Made(old) \cup {old.at}
        /\ r.at \in (Settings \ {"description"}) \cup {"close"}
        /\ r.at = "close" <=> old.at = "failureFlag"
        /\ r.at = "delayedStart" => AsksDelayedStart(Params(r.details))
    BY <1>1, <2>4, MadeFollows DEF old
  <2>6. /\ r.at = "close" => r.result = "null"
        /\ r.at \in Settings => r.result = "none"
        /\ r.result \in {"null", "none"}
    BY <1>1, <2>4, <2>5 DEF result, Created, Settings
  <2>7. CallOK(r) /\ Open(r)
    BY <1>1, <2>4, <2>5, <2>6 DEF CallOK, Open, Results, Settings, Creating
  <2>8. ServiceOK(s)
    BY <1>1, <1>2, <2>2, <2>3 DEF ServiceOK
  <2>9. Created(r, s)
    <3>1. DOMAIN service.settings = Made(old)
      BY <1>1 DEF Created, Settings
    <3>2. \A name \in DOMAIN s.settings : s.settings[name] = Setting(Params(r.details), name)
      BY <1>1, <2>2, <2>3, <2>4 DEF Created, value
    <3> QED
      BY <1>1, <2>2, <2>3, <2>4, <2>5, <2>6, <3>1, <3>2 DEF Created
  <2> QED
    BY <1>1, <1>2, <2>1, <2>3, <2>7, <2>8, <2>9, OneCall DEF old
<1> QED
  BY <1>3, <1>4

LEMMA NextInv == ASSUME IInv, [Next]_vars PROVE IInv'
<1>1. ASSUME NEW c \in Clients, NEW op \in Acts, OpensService(c, op) PROVE IInv'
  BY <1>1, OpensServiceInv
<1>2. ASSUME NEW c \in Clients, NEW d \in Details, Creates(c, d) PROVE IInv'
  BY <1>2, CreatesInv
<1>3. ASSUME NEW c \in Clients, NEW d \in Details, Refuses(c, d) PROVE IInv'
  BY <1>3, RefusesInv
<1>4. ASSUME NEW c \in Clients, Refused(c) PROVE IInv'
  BY <1>4, RefusedInv
<1>5. ASSUME NEW c \in Clients, Call(c) PROVE IInv'
  BY <1>5, ConfiguresInv, DeletesInv, QueriesInv, StartsInv, SendsControlInv, ClosesInv DEF Call
<1>6. CASE ServiceAdvances
  BY <1>6, ServiceAdvancesInv
<1>7. CASE UNCHANGED vars
  BY <1>7, StutterInv
<1> QED
  BY <1>1, <1>2, <1>3, <1>4, <1>5, <1>6, <1>7 DEF Next

-----------------------------------------------------------------------------
(* The theorems.                                                           *)

\* The invariant holds in every reachable state.
THEOREM InductiveInvariant == Spec => []IInv
<1> QED
  BY InitInv, NextInv, PTL DEF Spec

\* TypeOK: a service is described as its state and its handles allow, and only with types,
\* start types and error controls Windows knows.
THEOREM TypeCorrect == Spec => []TypeOK
<1> QED
  BY InductiveInvariant, InvariantImpliesTypeOK, PTL

\* DeletedIsReleased: a service that is deleted and has stopped stays only as long as a
\* call is in progress.
THEOREM NothingKeepsDeleted == Spec => []DeletedIsReleased
<1> QED
  BY InductiveInvariant, InvariantImpliesDeletedIsReleased, PTL

\* Two calls of win32_create_service never configure the service at the same time: one that
\* is deleted while it is configured is not created again before its creator closes it.
THEOREM OneCreates == Spec => []OneCreator
<1>1. IInv => OneCreator
  BY DEF IInv
<1> QED
  BY <1>1, InductiveInvariant, PTL

\* CreatedAsAsked: a service that win32_create_service reports as created is configured as
\* its array asks, but for base_priority, which no step stores, and for numbers that do not
\* fit a long; one it reports as partially configured lacks the last part.
THEOREM CreatesAsAsked == Spec => CreatedAsAsked
<1>1. ASSUME IInv, [Next]_vars
      PROVE  [\A c \in Clients :
                call[c].op = "create" /\ call[c].at = "close" /\ call'[c].at = "idle" =>
                  IF call[c].result = "null" THEN Fits(c) => ConfiguredAsAsked(c)
                  ELSE "failureFlag" \notin DOMAIN service.settings]_vars
  BY <1>1, InvariantImpliesAsAsked
<1> QED
  BY <1>1, InductiveInvariant, PTL DEF CreatedAsAsked, Spec
=============================================================================
