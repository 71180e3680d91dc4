--------------------------- MODULE PollingService ---------------------------
(***************************************************************************)
(* The service process of ServiceProcess with the script of                *)
(* examples/sample.php: start the dispatcher, report RUNNING, poll         *)
(* win32_get_last_control_message() until it is STOP, end; or with that of *)
(* tests/running/run.php, which also answers an INTERROGATE by reporting   *)
(* RUNNING again, and reports STOPPED itself.  An exception ends both.     *)
(***************************************************************************)
EXTENDS ServiceProcess

CONSTANT Answers    \* may the script be the one of tests/running/run.php?

\* The calls of the scripts are among those ServiceProcess lets a script make.
ASSUME PollingServiceAssumption ==
  /\ Answers \subseteq BOOLEAN
  /\ {"RUNNING", "STOPPED"} \subseteq StatusArgs /\ 0 \in CheckPoints

VARIABLES
  answers,          \* it is
  line              \* where it is

Lines == {"configure", "started", "polling", "answer", "stopped", "end"}

allVars == <<vars, answers, line>>

PollingInit == Init /\ answers \in Answers /\ line = "configure"

\* The settings a script may make before it starts the dispatcher.
Configure ==
  /\ line = "configure"
  /\ \/ \E b \in BOOLEAN : SetPauseResumeState(b)
     \/ \E c \in ExitCodes : SetExitCode(c)
  /\ UNCHANGED line

Start ==
  /\ line = "configure"
  /\ \E graceful \in BOOLEAN : StartDispatcher(graceful)
  /\ line' = "started"

\* The result of the start is not looked at; only an exception would be.
ReportRunning ==
  /\ line = "started" /\ startResult # "threw"
  /\ SetServiceStatus("RUNNING", 0)
  /\ line' = "polling"

\* The loop reads INTERROGATE; the answer is a later step.
ReadsInterrogate ==
  /\ answers
  /\ line = "polling" /\ php = "run" /\ statusResult # "threw"
  /\ lastControl = "INTERROGATE"
  /\ line' = "answer"
  /\ UNCHANGED vars

AnswerInterrogate ==
  /\ line = "answer"
  /\ SetServiceStatus("RUNNING", 0)
  /\ line' = "polling"

ReportStopped ==
  /\ answers
  /\ line = "polling" /\ statusResult # "threw" /\ lastControl = "STOP"
  /\ SetServiceStatus("STOPPED", 0)
  /\ line' = "stopped"

\* The loop finds nothing to do and sleeps.
Sleeps ==
  /\ line = "polling" /\ php = "run" /\ statusResult # "threw"
  /\ lastControl # "STOP"
  /\ UNCHANGED allVars

\* The script ends: on STOP, after its own report of STOPPED, or by an exception.
End ==
  /\ \/ line = "started" /\ startResult = "threw"
     \/ line = "polling" /\ statusResult = "threw"
     \/ line = "polling" /\ lastControl = "STOP" /\ ~answers
     \/ line = "stopped"
  /\ RequestShutdown
  /\ line' = IF line = "stopped" THEN line ELSE "end"

\* run.php asks for its own status in every iteration, and ends when it cannot.
QueryFails ==
  /\ answers
  /\ line = "polling" /\ statusResult # "threw"
  /\ RequestShutdown
  /\ line' = "end"
  /\ UNCHANGED answers

ScriptStep ==
  \/ Configure \/ Start \/ ReportRunning
  \/ ReadsInterrogate \/ AnswerInterrogate \/ ReportStopped
  \/ End

\* The script stays where it is.
Elsewhere == UNCHANGED <<answers, line>>

PhpStep == (ScriptStep /\ UNCHANGED answers) \/ (PhpThread /\ Elsewhere)

MainStep == ServiceMain /\ Elsewhere

DispatcherStep(a) == Dispatcher(a) /\ Elsewhere

ScmStep == Scm /\ Elsewhere

PollingEnded == Ended /\ Elsewhere

PollingNext ==
  \/ PhpStep \/ MainStep \/ (\E a \in Attempts : DispatcherStep(a)) \/ ScmStep
  \/ Sleeps \/ QueryFails \/ PollingEnded

\* The operating system schedules every thread of the process; nobody has to send
\* a control, and the wait for the event or for the thread may end early or late.
PollingFairness ==
  /\ WF_allVars(PhpStep)
  /\ WF_allVars(MainStep)
  /\ \A a \in Attempts : WF_allVars(DispatcherStep(a))

PollingSpec == PollingInit /\ [][PollingNext]_allVars /\ PollingFairness

-----------------------------------------------------------------------------
(* Properties.                                                             *)

\* A script that reports no state while it polls never loses a stop: the one slot for
\* the last control keeps STOP until the script has read it, although the SCM goes on
\* sending controls and the script polls at its own pace.
PollingKeepsStop == [][~answers /\ lastControl = "STOP" => lastControl' = "STOP"]_allVars

\* A stop that reaches the handler ends the process of a script that only polls.
StopLeadsToExit == ~answers /\ lastControl = "STOP" ~> php = "gone"

\* A started service with the non-graceful exit mode ends as failed: with the code
\* of the script, or without a report of STOPPED.
ExitModeHonoured ==
  php = "gone" /\ startResult = "true" /\ ~gracefulExit =>
    \/ scm.state = "ABORTED"
    \/ scm.win32ExitCode # "NO_ERROR" /\ scm.specificExitCode = exitCode % DWord

\* It does so when the report of STOPPED is left to the shutdown.
ShutdownHonoursMode == ~answers => ExitModeHonoured

\* "when set to true the service will shut down gracefuly when PHP exits."
GracefulExitSucceeds ==
  php = "gone" /\ startResult = "true" /\ gracefulExit =>
    scm.state = "STOPPED" /\ scm.win32ExitCode = "NO_ERROR"

\* A script that has reported STOPPED itself ends as STOPPED: the shutdown looks at
\* the state again, and so repairs a report that a late STOP_PENDING of the handler
\* has replaced.
OwnStopRecorded ==
  php = "gone" /\ startResult = "true" /\ line = "stopped" => scm.state = "STOPPED"

\* While the script only polls, the SCM sees the life cycle of ServiceLifecycle, and a
\* stopping service ends.  (The other script is not compared with it: it is mapped to
\* a service that stays where it starts.)
Lifecycle ==
  INSTANCE ServiceLifecycle WITH state <- IF answers THEN "START_PENDING" ELSE scm.state

LifecycleSpec == Lifecycle!Spec
=============================================================================
