-------------------------- MODULE ControlledService --------------------------
(***************************************************************************)
(* The service process of ServiceProcess with the script of                *)
(* examples/service.php: a loop that pauses, continues and answers on the  *)
(* control it reads and on the state the SCM showed when it last asked.    *)
(* Both may be out of date: the next control replaces one that has not     *)
(* been read, and a report of the handler may reach the SCM after a later  *)
(* one of the script.                                                      *)
(***************************************************************************)
EXTENDS ServiceProcess

\* The states the script reports.
ASSUME ControlledServiceAssumption ==
  /\ {"RUNNING", "PAUSED", "CONTINUE_PENDING", "PAUSE_PENDING", "STOPPED"} \subseteq StatusArgs
  /\ 0 \in CheckPoints

VARIABLES
  line,    \* where the script is
  paused,  \* $this->paused
  status   \* $this->status['CurrentState'], "NONE" when the query has failed

Lines == {"construct", "run", "connected", "started", "loop", "answer", "resume", "pause",
          "check", "resumed", "paused", "settle", "sleep", "stop", "stopped", "end"}

allVars == <<vars, line, paused, status>>

ScriptInit == Init /\ line = "construct" /\ paused = FALSE /\ status = "NONE"

Goes(from, to) == line = from /\ line' = to

\* A call of win32_set_service_status, made at "from" and looked at from "to" on.
Reports(state, from, to) ==
  Goes(from, to) /\ SetServiceStatus(state, 0) /\ UNCHANGED <<paused, status>>

-----------------------------------------------------------------------------
(* update_service_status: an exception of the query leaves a code behind,  *)
(* which is no array.                                                      *)

UpdatesStatus(seen) ==
  /\ php = "run"
  /\ status' = seen
  /\ UNCHANGED <<vars, paused>>

Constructs == Goes("construct", "run") /\ \E s \in {scm.state, "NONE"} : UpdatesStatus(s)

\* Fault: the status is asked for once, before the loop.
SleepsOnly(seen) == Goes("sleep", "loop") /\ php = "run" /\ UNCHANGED <<vars, paused, status>>

Sleeps(seen) == Goes("sleep", "loop") /\ UpdatesStatus(seen)

-----------------------------------------------------------------------------
(* start_service.                                                          *)

\* The setting for a graceful exit is the default.
Connects ==
  /\ Goes("run", "connected") /\ status = "START_PENDING"
  /\ StartDispatcher(gracefulExit)
  /\ UNCHANGED <<paused, status>>

\* win32_op_service takes an exception without a code for a success, and does not
\* look at FALSE; only a refused dispatcher ends the script.
StartRefused == startResult = "threw" /\ disp[attempt] # "none"

ReportsRunning == ~StartRefused /\ Reports("RUNNING", "connected", "started")

EntersLoop ==
  /\ Goes("started", "loop")
  /\ php = "run" /\ statusResult = "true"
  /\ UNCHANGED <<vars, paused, status>>

-----------------------------------------------------------------------------
(* The loop.                                                               *)

\* Fault: a stop is looked at in the state RUNNING only, like the pause.
BranchOnRunning ==
  CASE lastControl = "STOP" /\ status = "RUNNING"    -> "stop"
    [] lastControl = "INTERROGATE"                   -> "answer"
    [] lastControl = "CONTINUE" /\ status = "PAUSED" -> "resume"
    [] lastControl = "PAUSE" /\ status = "RUNNING"   -> "pause"
    [] OTHER                                         -> "settle"

\* What an iteration does on the control it reads.
Branch ==
  CASE lastControl = "STOP"                          -> "stop"
    [] lastControl = "INTERROGATE"                   -> "answer"
    [] lastControl = "CONTINUE" /\ status = "PAUSED" -> "resume"
    [] lastControl = "PAUSE" /\ status = "RUNNING"   -> "pause"
    [] OTHER                                         -> "settle"

\* Fault: CONTINUE leaves $this->paused alone.
PausedOnly == paused \/ Branch = "pause"

PausedNext == Branch # "resume" /\ (paused \/ Branch = "pause")

ReadsControl ==
  /\ Goes("loop", Branch)
  /\ php = "run"
  /\ paused' = PausedNext
  /\ UNCHANGED <<vars, status>>

\* Fault: an interrogated service always says that it runs.
SaysRunning == "RUNNING"

Answer == IF paused THEN "PAUSED" ELSE "RUNNING"

AnswersInterrogate == Reports(Answer, "answer", "check")

Resumes == Reports("CONTINUE_PENDING", "resume", "resumed")

Pauses == Reports("PAUSE_PENDING", "pause", "paused")

\* These three reports are made outside of win32_op_service: an exception ends the script.
Uncaught == line \in {"check", "resumed", "paused"} /\ statusResult = "threw"

IsAnswered ==
  /\ Goes("check", "settle")
  /\ php = "run" /\ ~Uncaught
  /\ UNCHANGED <<vars, paused, status>>

IsResumed == ~Uncaught /\ Reports("RUNNING", "resumed", "settle")

IsPaused == ~Uncaught /\ Reports("PAUSED", "paused", "settle")

\* A change that was seen half-way is completed.
LeftHalfWay == status = IF paused THEN "PAUSE_PENDING" ELSE "CONTINUE_PENDING"

Completes ==
  /\ LeftHalfWay
  /\ Reports(IF paused THEN "PAUSED" ELSE "RUNNING", "settle", "sleep")

NothingToComplete ==
  /\ Goes("settle", "sleep")
  /\ php = "run" /\ ~LeftHalfWay
  /\ UNCHANGED <<vars, paused, status>>

ReportsStopped == Reports("STOPPED", "stop", "stopped")

\* The script ends after its report of STOPPED, or before, or by an exception.
Ends ==
  /\ \/ line = "run" /\ status # "START_PENDING"
     \/ line = "connected" /\ StartRefused
     \/ line = "started" /\ statusResult = "threw"
     \/ Uncaught
     \/ line = "stopped"
  /\ RequestShutdown
  /\ line' = IF line = "stopped" THEN line ELSE "end"
  /\ UNCHANGED <<paused, status>>

-----------------------------------------------------------------------------
ScriptStep ==
  \/ Constructs \/ Connects \/ ReportsRunning \/ EntersLoop
  \/ ReadsControl \/ AnswersInterrogate \/ Resumes \/ Pauses
  \/ IsAnswered \/ IsResumed \/ IsPaused \/ Completes \/ NothingToComplete
  \/ (\E seen \in {scm.state, "NONE"} : Sleeps(seen))
  \/ ReportsStopped \/ Ends

Elsewhere == UNCHANGED <<line, paused, status>>

PhpStep == ScriptStep \/ (PhpThread /\ Elsewhere)

MainStep == ServiceMain /\ Elsewhere

DispatcherStep(a) == Dispatcher(a) /\ Elsewhere

ScmStep == Scm /\ Elsewhere

ScriptEnded == Ended /\ Elsewhere

ScriptNext ==
  \/ PhpStep \/ MainStep \/ (\E a \in Attempts : DispatcherStep(a)) \/ ScmStep \/ ScriptEnded

\* The operating system schedules every thread, and a query the script goes on
\* making does not fail for ever.  Nobody has to send a control.
Fairness ==
  /\ WF_allVars(PhpStep)
  /\ WF_allVars(MainStep)
  /\ \A a \in Attempts : WF_allVars(DispatcherStep(a))
  /\ SF_allVars(Sleeps(scm.state))

ScriptSpec == ScriptInit /\ [][ScriptNext]_allVars /\ Fairness

-----------------------------------------------------------------------------
(* Properties.                                                             *)

\* A control is handled while the script makes a report: the two write one structure
\* and send it in either order.
Crossing == php \in {"status", "statusRpc"} /\ \E a \in Attempts : disp[a] \in InHandler

NeverCross == []~Crossing

\* From some time on the process lives and the last control it was sent is c.
Last(c) == <>[](lastControl = c /\ php # "gone")

\* If PAUSE remains the last control, the script ends up paused and the SCM shows it,
\* however old the state is on which the script acts, and although a query may fail:
\* only a control that crosses a report can make the two disagree for good.
PauseSettles == NeverCross /\ Last("PAUSE") => <>[](paused /\ scm.state = "PAUSED")

\* If CONTINUE remains the last one, the script runs, and is shown to run.
ContinueSettles == NeverCross /\ Last("CONTINUE") => <>[](~paused /\ scm.state = "RUNNING")

\* If INTERROGATE does, the SCM ends up showing what the script does, crossings or not.
InterrogateSettles ==
  Last("INTERROGATE") => <>[](scm.state = IF paused THEN "PAUSED" ELSE "RUNNING")

\* If STOP does, the process ends, crossings or not.
StopSettles == <>[](lastControl = "STOP") => <>[](php = "gone")

\* "Stops a service": the SCM does not show the service as stopping for ever.
StoppingEnds == scm.state = "STOP_PENDING" ~> scm.state # "STOP_PENDING"

\* It does not unless the stop has crossed a report: the service ends, or, when the stop
\* is lost to a report that was already decided, it runs on and takes controls again.
UncrossedStopEnds == NeverCross => StoppingEnds

\* A script that ends after its report of STOPPED, having taken the stop, ends as a service
\* that has stopped without an error, although controls may go on crossing its reports: the
\* shutdown repairs a STOPPED that the handler has replaced.
StopIsClean ==
  php = "gone" /\ startResult = "true" /\ line = "stopped" =>
    scm.state = "STOPPED" /\ scm.win32ExitCode = "NO_ERROR"
=============================================================================
