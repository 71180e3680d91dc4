--------------------------- MODULE ServiceProcess ---------------------------
(***************************************************************************)
(* One PHP process that runs as a Windows service: the PHP thread with the *)
(* functions a script calls, the dispatcher threads it creates, the        *)
(* service_main thread the dispatcher creates, and the record the Service  *)
(* Control Manager (SCM) keeps of the service.                             *)
(*                                                                         *)
(* All threads of the process share the module globals without a lock; a   *)
(* step of the model is one access, or several that no other thread can    *)
(* tell apart.  A call that throws before it assigns anything leaves the   *)
(* state alone and is a stuttering step, and so is a call that only reads, *)
(* as win32_get_last_control_message does.  The script is arbitrary here:  *)
(* it may make any call whenever no other call is in progress.             *)
(***************************************************************************)
EXTENDS Naturals

CONSTANTS
  InService,    \* win32_check_if_is_service(), or the embed SAPI
  MaxAttempts,  \* bound: calls that get as far as creating a dispatcher thread
  Controls,     \* the control codes the SCM may send
  StatusArgs,   \* the states a script may pass to win32_set_service_status
  CheckPoints,  \* the checkpoints it may pass
  ExitCodes,    \* the codes it may pass to win32_set_service_exit_code
  DWord         \* number of values of a DWORD: exitCode is wider than that

ControlCodes == {"STOP", "PAUSE", "CONTINUE", "INTERROGATE"}

Pending == {"START_PENDING", "CONTINUE_PENDING", "PAUSE_PENDING", "STOP_PENDING"}
Live    == {"RUNNING", "PAUSED", "CONTINUE_PENDING", "PAUSE_PENDING"}
States  == Pending \cup Live \cup {"STOPPED"}
AnyState == States \cup {"NONE"}   \* "NONE": zero, or any other number that is no state

\* dwControlsAccepted: the one bit a script can clear, and "STOP" for the others.
AcceptBits == {"STOP", "PAUSE_CONTINUE"}

ASSUME ServiceProcessAssumption ==
  /\ InService \in BOOLEAN
  /\ MaxAttempts \in Nat
  /\ Controls \subseteq ControlCodes
  /\ StatusArgs \subseteq AnyState
  /\ CheckPoints \subseteq Nat
  /\ ExitCodes \subseteq Nat
  /\ DWord \in Nat \ {0, 1}

VARIABLES
  svc_thread, event, service_name,            \* resources behind the globals
  attempt,                                    \* number of the last dispatcher thread
  code, signalled,                            \* g->code, and the state of g->event
  startResult,                                \* how the last start call ended
  gracefulExit, exitCode, dwControlsAccepted, \* settings of the script
  st, sh, lastControl,                        \* g->st, g->sh, g->args.dwControl
  php, asked, told,                           \* PHP thread: position, and its report
  statusResult, joinExpired,                  \* how a report, and the final wait, ended
  disp, main, ctl, htold,                     \* dispatcher threads, service_main, handler
  scm                                         \* what the SCM records of the service

settings  == <<gracefulExit, exitCode, dwControlsAccepted>>
resources == <<svc_thread, event, service_name, attempt>>
handshake == <<code, signalled, startResult>>
shared    == <<st, sh, lastControl>>
script    == <<php, asked, told, statusResult, joinExpired>>
threads   == <<disp, main, ctl, htold>>
vars      == <<settings, resources, handshake, shared, script, threads, scm>>

Status == [state : AnyState, accepted : SUBSET AcceptBits, checkPoint : Nat,
           win32ExitCode : {"NO_ERROR", "SERVICE_SPECIFIC"},
           specificExitCode : 0..(DWord - 1)]

\* What the SCM records; ABORTED: the process has ended without reporting STOPPED.
ScmStatus == [state : States \cup {"ABORTED"}, accepted : SUBSET AcceptBits,
              checkPoint : Nat, win32ExitCode : {"NO_ERROR", "SERVICE_SPECIFIC"},
              specificExitCode : 0..(DWord - 1)]

\* SERVICE_STATUS after memset(0).
NoStatus == [state |-> "NONE", accepted |-> {}, checkPoint |-> 0,
             win32ExitCode |-> "NO_ERROR", specificExitCode |-> 0]

Attempts == 1..MaxAttempts
InHandler == {"handler", "handlerState", "handlerCall", "handlerRpc"}
Connected == {"serving"} \cup InHandler

PhpAt  == {"run", "wait", "status", "statusRpc", "rsState", "rsCall", "rsRpc",
           "rsJoin", "rsRelease", "released", "gone"}
MainAt == {"none", "begin", "register", "registered", "refused", "signal", "done"}
DispAt == {"none", "begin", "signal", "done"} \cup Connected

\* TypeOK: every global keeps a value its C type and the code's assignments allow.
TypeOK ==
  /\ svc_thread \in {"null", "open", "closed"}
  /\ event \in {"null", "open", "closed"}
  /\ service_name \in {"null", "live", "freed"}
  /\ attempt \in 0..MaxAttempts
  /\ code \in {"NO_ERROR", "ERROR"} /\ signalled \in BOOLEAN
  /\ startResult \in {"none", "true", "false", "threw"}
  /\ gracefulExit \in BOOLEAN /\ exitCode \in Nat
  /\ dwControlsAccepted \in SUBSET AcceptBits
  /\ st \in Status /\ sh \in BOOLEAN /\ lastControl \in ControlCodes \cup {"NONE"}
  /\ php \in PhpAt /\ asked \in AnyState /\ told \in Status
  /\ statusResult \in {"none", "true", "threw"} /\ joinExpired \in BOOLEAN
  /\ disp \in [Attempts -> DispAt] /\ main \in MainAt
  /\ ctl \in ControlCodes \cup {"NONE"} /\ htold \in Status
  /\ scm \in ScmStatus

\* init_globals, in a process the SCM has just launched.
Init ==
  /\ svc_thread = "null" /\ event = "null" /\ service_name = "null" /\ attempt = 0
  /\ code = "NO_ERROR" /\ signalled = FALSE /\ startResult = "none"
  /\ gracefulExit = TRUE /\ exitCode = 1 /\ dwControlsAccepted = AcceptBits
  /\ st = NoStatus /\ sh = FALSE /\ lastControl = "NONE"
  /\ php = "run" /\ asked = "NONE" /\ told = NoStatus
  /\ statusResult = "none" /\ joinExpired = FALSE
  /\ disp = [a \in Attempts |-> "none"] /\ main = "none"
  /\ ctl = "NONE" /\ htold = NoStatus
  /\ scm = [NoStatus EXCEPT !.state = "START_PENDING"]

-----------------------------------------------------------------------------
(* The settings of the script.                                             *)

\* Fault: a thread that has not announced itself yet is taken for none.
SeenRunning == svc_thread # "null" /\ signalled

DispatcherRuns == svc_thread # "null"

SetPauseResumeState(enable) ==
  /\ php = "run" /\ InService
  /\ ~DispatcherRuns
  /\ dwControlsAccepted' = IF enable THEN dwControlsAccepted \cup {"PAUSE_CONTINUE"}
                           ELSE dwControlsAccepted \ {"PAUSE_CONTINUE"}
  /\ UNCHANGED <<gracefulExit, exitCode, resources, handshake, shared, script, threads, scm>>

SetExitMode(graceful) ==
  /\ php = "run" /\ InService
  /\ gracefulExit' = graceful
  /\ UNCHANGED <<exitCode, dwControlsAccepted, resources, handshake, shared, script, threads, scm>>

SetExitCode(c) ==
  /\ php = "run" /\ InService
  /\ exitCode' = c
  /\ UNCHANGED <<gracefulExit, dwControlsAccepted, resources, handshake, shared, script,
                 threads, scm>>

-----------------------------------------------------------------------------
(* win32_start_service_ctrl_dispatcher: create the dispatcher thread, then *)
(* wait at most 30 s for the event.                                        *)

StartDispatcher(graceful) ==
  /\ php = "run" /\ InService
  /\ ~DispatcherRuns
  /\ attempt < MaxAttempts
  /\ attempt' = attempt + 1
  /\ service_name' = "live" /\ gracefulExit' = graceful
  /\ event' = "open" /\ signalled' = FALSE
  /\ \/ /\ svc_thread' = "open" /\ php' = "wait" /\ startResult' = "none"
        /\ disp' = [disp EXCEPT ![attempt + 1] = "begin"]
     \/ /\ startResult' = "threw"                     \* CreateThread failed
        /\ UNCHANGED <<svc_thread, php, disp>>
  /\ UNCHANGED <<exitCode, dwControlsAccepted, code, shared, asked, told, statusResult,
                 joinExpired, main, ctl, htold, scm>>

\* The event is set: the code it announces decides between TRUE and an exception.
StartReturns ==
  /\ php = "wait" /\ signalled
  /\ php' = "run"
  /\ IF code = "NO_ERROR"
     THEN startResult' = "true" /\ UNCHANGED svc_thread
     ELSE startResult' = "threw" /\ svc_thread' = "null"
  /\ UNCHANGED <<settings, event, service_name, attempt, code, signalled, shared, asked, told,
                 statusResult, joinExpired, threads, scm>>

\* The wait ends without the event: FALSE, and svc_thread stays set.
StartTimesOut ==
  /\ php = "wait" /\ ~signalled
  /\ php' = "run" /\ startResult' = "false"
  /\ UNCHANGED <<settings, resources, code, signalled, shared, asked, told, statusResult,
                 joinExpired, threads, scm>>

-----------------------------------------------------------------------------
(* svc_thread_proc.  StartServiceCtrlDispatcher connects to the SCM once   *)
(* per process and then serves controls until the service has stopped.     *)

ProcessAlive == php # "gone"

DispatcherConnects(a) ==
  /\ ProcessAlive
  /\ disp[a] = "begin" /\ main = "none"
  /\ disp' = [disp EXCEPT ![a] = "serving"]
  /\ main' = "begin"
  /\ UNCHANGED <<settings, resources, handshake, shared, script, ctl, htold, scm>>

DispatcherRefused(a) ==
  /\ ProcessAlive
  /\ disp[a] = "begin"
  /\ code' = "ERROR"
  /\ disp' = [disp EXCEPT ![a] = "signal"]
  /\ UNCHANGED <<settings, resources, signalled, startResult, shared, script, main, ctl, htold,
                 scm>>

DispatcherSignals(a) ==
  /\ ProcessAlive
  /\ disp[a] = "signal"
  /\ disp' = [disp EXCEPT ![a] = "done"]
  /\ signalled' = (signalled \/ event = "open")
  /\ UNCHANGED <<settings, resources, code, startResult, shared, script, main, ctl, htold, scm>>

DispatcherReturns(a) ==
  /\ ProcessAlive
  /\ disp[a] = "serving" /\ scm.state = "STOPPED"
  /\ disp' = [disp EXCEPT ![a] = "done"]
  /\ UNCHANGED <<settings, resources, handshake, shared, script, main, ctl, htold, scm>>

-----------------------------------------------------------------------------
(* service_main, on the thread the dispatcher starts for it.               *)

MainFillsStatus ==
  /\ ProcessAlive
  /\ main = "begin"
  /\ st' = [st EXCEPT !.state = "START_PENDING", !.accepted = dwControlsAccepted]
  /\ main' = "register"
  /\ UNCHANGED <<settings, resources, handshake, sh, lastControl, script, disp, ctl, htold, scm>>

MainRegisters ==
  /\ ProcessAlive
  /\ main = "register"
  /\ \/ sh' = TRUE /\ main' = "registered"
     \/ main' = "refused" /\ UNCHANGED sh
  /\ UNCHANGED <<settings, resources, handshake, st, lastControl, script, disp, ctl, htold, scm>>

\* Fault: no return after a failed registration.
AlwaysNoError == "NO_ERROR"

MainCode == IF main = "registered" THEN "NO_ERROR" ELSE "ERROR"

MainSetsCode ==
  /\ ProcessAlive
  /\ main \in {"registered", "refused"}
  /\ code' = MainCode
  /\ main' = "signal"
  /\ UNCHANGED <<settings, resources, signalled, startResult, shared, script, disp, ctl, htold,
                 scm>>

MainSignals ==
  /\ ProcessAlive
  /\ main = "signal"
  /\ main' = "done"
  /\ signalled' = (signalled \/ event = "open")
  /\ UNCHANGED <<settings, resources, code, startResult, shared, script, disp, ctl, htold, scm>>

-----------------------------------------------------------------------------
(* The SCM's side: which reports it records, which controls it sends.      *)

ScmEnded == scm.state \in {"STOPPED", "ABORTED"}

\* SetServiceStatus succeeds: the state is one, and the service has not stopped.
Recorded(report) == report.state \in States /\ ~ScmEnded

ScmRecords(report) == scm' = IF Recorded(report) THEN report ELSE scm

Sendable(c) ==
  CASE c = "STOP"                  -> /\ "STOP" \in scm.accepted
                                      /\ scm.state \in Live \cup {"START_PENDING"}
    [] c \in {"PAUSE", "CONTINUE"} -> /\ "PAUSE_CONTINUE" \in scm.accepted
                                      /\ scm.state \in Live
    [] OTHER                       -> scm.state \in Live

ScmSends(a, c) ==
  /\ ProcessAlive
  /\ disp[a] = "serving" /\ Sendable(c)
  /\ disp' = [disp EXCEPT ![a] = "handler"]
  /\ ctl' = c
  /\ UNCHANGED <<settings, resources, handshake, shared, script, main, htold, scm>>

-----------------------------------------------------------------------------
(* service_handler, on the connected dispatcher thread.                    *)

HandlerStoresControl(a) ==
  /\ ProcessAlive
  /\ disp[a] = "handler"
  /\ lastControl' = ctl
  /\ disp' = [disp EXCEPT ![a] = "handlerState"]
  /\ UNCHANGED <<settings, resources, handshake, st, sh, script, main, ctl, htold, scm>>

\* Faults: every control, or none, moves the service to STOP_PENDING.
StopsAlways(status) == [status EXCEPT !.state = "STOP_PENDING"]
StopsNever(status)  == status

Handled(status) == IF ctl = "STOP" THEN [status EXCEPT !.state = "STOP_PENDING"] ELSE status

HandlerSetsState(a) ==
  /\ ProcessAlive
  /\ disp[a] = "handlerState"
  /\ st' = Handled(st)
  /\ ctl' = "NONE"
  /\ disp' = [disp EXCEPT ![a] = "handlerCall"]
  /\ UNCHANGED <<settings, resources, handshake, sh, lastControl, script, main, htold, scm>>

\* SetServiceStatus(g->sh, &g->st): the structure is copied when the call is made,
HandlerReports(a) ==
  /\ ProcessAlive
  /\ disp[a] = "handlerCall"
  /\ IF sh THEN htold' = st /\ disp' = [disp EXCEPT ![a] = "handlerRpc"]
           ELSE disp' = [disp EXCEPT ![a] = "serving"] /\ UNCHANGED htold
  /\ UNCHANGED <<settings, resources, handshake, shared, script, main, ctl, scm>>

\* and recorded by the SCM later.
HandlerReported(a) ==
  /\ ProcessAlive
  /\ disp[a] = "handlerRpc"
  /\ ScmRecords(htold)
  /\ htold' = NoStatus
  /\ disp' = [disp EXCEPT ![a] = "serving"]
  /\ UNCHANGED <<settings, resources, handshake, shared, script, main, ctl>>

-----------------------------------------------------------------------------
(* win32_set_service_status.                                               *)

SetServiceStatus(status, checkpoint) ==
  /\ php = "run" /\ InService
  /\ st' = [st EXCEPT !.state = status,
                      !.checkPoint = IF status \in Pending THEN checkpoint ELSE @]
  /\ asked' = status /\ statusResult' = "none"
  /\ php' = "status"
  /\ UNCHANGED <<settings, resources, handshake, sh, lastControl, told, joinExpired, threads, scm>>

StatusReports ==
  /\ php = "status"
  /\ IF sh THEN told' = st /\ php' = "statusRpc" /\ UNCHANGED <<asked, statusResult>>
           ELSE php' = "run" /\ asked' = "NONE" /\ statusResult' = "threw" /\ UNCHANGED told
  /\ UNCHANGED <<settings, resources, handshake, shared, joinExpired, threads, scm>>

StatusReported ==
  /\ php = "statusRpc"
  /\ ScmRecords(told)
  /\ statusResult' = IF Recorded(told) THEN "true" ELSE "threw"
  /\ told' = NoStatus /\ asked' = "NONE"
  /\ php' = "run"
  /\ UNCHANGED <<settings, resources, handshake, shared, joinExpired, threads>>

-----------------------------------------------------------------------------
(* RSHUTDOWN, when the script ends, and the end of the process.            *)

\* Fault: a service that is stopping is taken for one that has stopped.
NeitherStops == sh /\ st.state \notin {"STOPPED", "STOP_PENDING"}

NotStopped == sh /\ st.state # "STOPPED"

\* Faults: the codes are stored when the exit is graceful, or keep their full width.
CodesInverted(status) ==
  IF ~gracefulExit THEN status
  ELSE [status EXCEPT !.win32ExitCode = "SERVICE_SPECIFIC", !.specificExitCode = exitCode % DWord]

CodesWide(status) ==
  IF gracefulExit THEN status
  ELSE [status EXCEPT !.win32ExitCode = "SERVICE_SPECIFIC", !.specificExitCode = exitCode]

WithCodes(status) ==
  IF gracefulExit THEN status
  ELSE [status EXCEPT !.win32ExitCode = "SERVICE_SPECIFIC", !.specificExitCode = exitCode % DWord]

RequestShutdown ==
  /\ php = "run"
  /\ IF NotStopped THEN php' = "rsState" /\ st' = WithCodes(st)
                   ELSE php' = "rsJoin" /\ UNCHANGED st
  /\ UNCHANGED <<settings, resources, handshake, sh, lastControl, asked, told, statusResult,
                 joinExpired, threads, scm>>

ShutdownSetsState ==
  /\ php = "rsState"
  /\ st' = [st EXCEPT !.state = "STOPPED"]
  /\ asked' = "STOPPED"
  /\ php' = "rsCall"
  /\ UNCHANGED <<settings, resources, handshake, sh, lastControl, told, statusResult,
                 joinExpired, threads, scm>>

ShutdownReports ==
  /\ php = "rsCall"
  /\ told' = st
  /\ php' = "rsRpc"
  /\ UNCHANGED <<settings, resources, handshake, shared, asked, statusResult, joinExpired,
                 threads, scm>>

ShutdownReported ==
  /\ php = "rsRpc"
  /\ ScmRecords(told)
  /\ told' = NoStatus /\ asked' = "NONE"
  /\ php' = "rsJoin"
  /\ UNCHANGED <<settings, resources, handshake, shared, statusResult, joinExpired, threads>>

\* Fault: the dispatcher thread is not waited for.
NoWait == FALSE

\* WaitForSingleObject(svc_thread, 10000): the thread ends, or the wait does.
JoinExpires == DispatcherRuns /\ disp[attempt] # "done"

ShutdownJoins ==
  /\ php = "rsJoin"
  /\ svc_thread' = IF DispatcherRuns THEN "closed" ELSE "null"
  /\ joinExpired' = JoinExpires
  /\ php' = "rsRelease"
  /\ UNCHANGED <<settings, event, service_name, attempt, handshake, shared, asked, told,
                 statusResult, threads, scm>>

ShutdownReleases ==
  /\ php = "rsRelease"
  /\ event' = IF event = "null" THEN "null" ELSE "closed"
  /\ service_name' = IF service_name = "null" THEN "null" ELSE "freed"
  /\ php' = "released"
  /\ UNCHANGED <<settings, svc_thread, attempt, handshake, shared, asked, told, statusResult,
                 joinExpired, threads, scm>>

\* The process ends, and its threads with it; a service that has not reported
\* STOPPED has terminated unexpectedly.
ProcessExits ==
  /\ php = "released"
  /\ php' = "gone"
  /\ scm' = IF ScmEnded THEN scm ELSE [scm EXCEPT !.state = "ABORTED"]
  /\ UNCHANGED <<settings, resources, handshake, shared, asked, told, statusResult, joinExpired,
                 threads>>

-----------------------------------------------------------------------------
Script ==
  \/ \E b \in BOOLEAN : SetPauseResumeState(b) \/ SetExitMode(b) \/ StartDispatcher(b)
  \/ \E c \in ExitCodes : SetExitCode(c)
  \/ \E s \in StatusArgs, cp \in CheckPoints : SetServiceStatus(s, cp)
  \/ RequestShutdown

\* The rest of a call the script has made, and of the shutdown.
PhpThread ==
  \/ StartReturns \/ StartTimesOut
  \/ StatusReports \/ StatusReported
  \/ ShutdownSetsState \/ ShutdownReports \/ ShutdownReported
  \/ ShutdownJoins \/ ShutdownReleases \/ ProcessExits

ServiceMain == MainFillsStatus \/ MainRegisters \/ MainSetsCode \/ MainSignals

Handler(a) ==
  \/ HandlerStoresControl(a) \/ HandlerSetsState(a)
  \/ HandlerReports(a) \/ HandlerReported(a)

Dispatcher(a) ==
  \/ DispatcherConnects(a) \/ DispatcherRefused(a)
  \/ DispatcherSignals(a) \/ DispatcherReturns(a)
  \/ Handler(a)

Scm == \E a \in Attempts, c \in Controls : ScmSends(a, c)

\* The service process has ended and nothing is left to do.
Ended == php = "gone" /\ UNCHANGED vars

Next == Script \/ PhpThread \/ ServiceMain \/ (\E a \in Attempts : Dispatcher(a)) \/ Scm \/ Ended

Spec == Init /\ [][Next]_vars

-----------------------------------------------------------------------------
(* Properties.                                                             *)

\* win32_start_service_ctrl_dispatcher returns TRUE only when the control handler
\* is registered, and throws only when it is not: the code that the event announces
\* is the one of this attempt, whichever thread stored it.
StartResultSound ==
  /\ startResult = "true" => sh
  /\ startResult = "threw" => ~sh

\* What the SCM was told to deliver is what win32_set_service_pause_resume_state()
\* returns: the setting cannot drift from the registration, also across failed,
\* repeated and timed-out starts.
AcceptedAgree == scm.accepted # {} => scm.accepted = dwControlsAccepted

\* A report of the PHP thread (win32_set_service_status, or STOPPED at shutdown) that
\* follows a successful start tells the SCM the state the caller stored; the only
\* other state it can tell is the STOP_PENDING of a stop control received meanwhile,
\* and that control is still the last one the script can read.
ToldUnlessStopped ==
  php \in {"statusRpc", "rsRpc"} /\ startResult = "true" =>
    told.state = asked \/ (told.state = "STOP_PENDING" /\ lastControl = "STOP")

\* The shutdown closes the event and frees the service name under the feet of a
\* thread that still uses them, or of a running handler, only if one of the two
\* waits (30 s for the start, 10 s for the dispatcher) has expired.
ReleaseIsSafe ==
  php = "released" /\ startResult # "false" /\ ~joinExpired =>
    /\ main \in {"none", "done"}
    /\ \A a \in Attempts : disp[a] \notin {"begin", "signal"} \cup InHandler

\* A service that the SCM records as stopped with an error is one whose script chose
\* the non-graceful exit, and the recorded code is the script's, cut to a DWORD.
ExitCodeExplained ==
  scm.state = "STOPPED" /\ scm.win32ExitCode # "NO_ERROR" =>
    ~gracefulExit /\ scm.specificExitCode = exitCode % DWord
=============================================================================
