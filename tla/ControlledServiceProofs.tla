------------------------ MODULE ControlledServiceProofs ------------------------
(***************************************************************************)
(* That the script of examples/service.php makes only calls ServiceProcess *)
(* lets a script make, and that a stop it has taken ends it cleanly, for   *)
(* every set of controls.  Its reports cross those of the handler; what it *)
(* relies on at its end is StopGoes of ServiceProcessProofs.               *)
(***************************************************************************)
EXTENDS ControlledService, ServiceProcessProofs

\* The script never changes the exit mode, and waits in one line only.
ScriptInv ==
  /\ gracefulExit = TRUE
  /\ php = "wait" => line = "connected"
  /\ line = "stopped" /\ startResult = "true" => StopGoes

CInv == IInv /\ AbortedIsGone /\ ScriptInv
-----------------------------------------------------------------------------
(* The script is one of ServiceProcess.                                    *)

LEMMA ScriptImpliesNext ==
  ASSUME gracefulExit = TRUE, [ScriptNext]_allVars
  PROVE  [Next]_vars
<1> {"RUNNING", "PAUSED", "CONTINUE_PENDING", "PAUSE_PENDING", "STOPPED"} \subseteq StatusArgs
    /\ 0 \in CheckPoints
  BY ControlledServiceAssumption
<1>1. ASSUME NEW from, NEW to, NEW s \in StatusArgs, Reports(s, from, to)
      PROVE  Next
  BY <1>1 DEF Reports, Next, Script
<1>2. Connects => Next
  BY DEF Connects, Next, Script
<1>3. Ends => Next
  BY DEF Ends, Next, Script
<1>4. Constructs \/ EntersLoop \/ ReadsControl \/ IsAnswered \/ NothingToComplete
        \/ (\E seen \in {scm.state, "NONE"} : Sleeps(seen)) => UNCHANGED vars
  BY DEF Constructs, EntersLoop, ReadsControl, IsAnswered, NothingToComplete, Sleeps,
         UpdatesStatus
<1>5. ScriptStep => [Next]_vars
  BY <1>1, <1>2, <1>3, <1>4
     DEF ScriptStep, ReportsRunning, AnswersInterrogate, Answer, Resumes, Pauses, IsResumed,
         IsPaused, Completes, ReportsStopped
<1> QED
  BY <1>5 DEF ScriptNext, PhpStep, MainStep, DispatcherStep, ScmStep, ScriptEnded, Next, allVars

LEMMA GracefulStays ==
  ASSUME gracefulExit = TRUE, [ScriptNext]_allVars
  PROVE  gracefulExit' = TRUE
<1> USE DEF settings
<1>1. ScriptStep => gracefulExit' = gracefulExit
  BY DEF ScriptStep, Constructs, Connects, ReportsRunning, EntersLoop, ReadsControl,
         AnswersInterrogate, Resumes, Pauses, IsAnswered, IsResumed, IsPaused, Completes,
         NothingToComplete, Sleeps, ReportsStopped, Ends, Reports, UpdatesStatus, vars,
         StartDispatcher, SetServiceStatus, RequestShutdown
<1>2. PhpThread => gracefulExit' = gracefulExit
  BY DEF PhpThread, StartReturns, StartTimesOut, StatusReports, StatusReported, ShutdownSetsState,
         ShutdownReports, ShutdownReported, ShutdownJoins, ShutdownReleases, ProcessExits
<1>3. ServiceMain => gracefulExit' = gracefulExit
  BY DEF ServiceMain, MainFillsStatus, MainRegisters, MainSetsCode, MainSignals
<1>4. ASSUME NEW a \in Attempts, Dispatcher(a) PROVE gracefulExit' = gracefulExit
  BY <1>4 DEF Dispatcher, DispatcherConnects, DispatcherRefused, DispatcherSignals,
         DispatcherReturns, Handler, HandlerStoresControl, HandlerSetsState, HandlerReports,
         HandlerReported
<1>5. Scm => gracefulExit' = gracefulExit
  BY DEF Scm, ScmSends
<1> QED
  BY <1>1, <1>2, <1>3, <1>4, <1>5
     DEF ScriptNext, PhpStep, MainStep, DispatcherStep, ScmStep, ScriptEnded, Ended, allVars, vars

\* All that is proved of ServiceProcess is true of the service with this script.
THEOREM ImplementsServiceProcess == ScriptSpec => Spec
<1> DEFINE Graceful == gracefulExit = TRUE
<1>1. ScriptInit => Init /\ Graceful
  BY DEF ScriptInit, Init
<1>2. Graceful /\ [ScriptNext]_allVars => Graceful'
  BY GracefulStays
<1>3. Graceful /\ [ScriptNext]_allVars => [Next]_vars
  BY ScriptImpliesNext
<1> HIDE DEF Graceful
<1> QED
  BY <1>1, <1>2, <1>3, PTL DEF ScriptSpec, Spec

-----------------------------------------------------------------------------
(* The script and the PHP thread.                                          *)

LEMMA WaitsOnce ==
  ASSUME php = "wait" => line = "connected", [ScriptNext]_allVars
  PROVE  (php = "wait" => line = "connected")'
<1> USE DEF ProcessAlive
<1>1. ScriptStep => (php' = "wait" => line' = "connected")
  BY DEF ScriptStep, Constructs, Connects, ReportsRunning, EntersLoop, ReadsControl,
         AnswersInterrogate, Resumes, Pauses, IsAnswered, IsResumed, IsPaused, Completes,
         NothingToComplete, Sleeps, ReportsStopped, Ends, Reports, UpdatesStatus, vars, script,
         Goes, SetServiceStatus, RequestShutdown
<1>2. PhpThread => php' # "wait"
  BY DEF PhpThread, StartReturns, StartTimesOut, StatusReports, StatusReported, ShutdownSetsState,
         ShutdownReports, ShutdownReported, ShutdownJoins, ShutdownReleases, ProcessExits
<1>3. ServiceMain => php' = php
  BY DEF ServiceMain, MainFillsStatus, MainRegisters, MainSetsCode, MainSignals, script
<1>4. ASSUME NEW a \in Attempts, Dispatcher(a) PROVE php' = php
  BY <1>4 DEF Dispatcher, DispatcherConnects, DispatcherRefused, DispatcherSignals,
         DispatcherReturns, Handler, HandlerStoresControl, HandlerSetsState, HandlerReports,
         HandlerReported, script
<1>5. Scm => php' = php
  BY DEF Scm, ScmSends, script
<1> QED
  BY <1>1, <1>2, <1>3, <1>4, <1>5
     DEF ScriptNext, PhpStep, MainStep, DispatcherStep, ScmStep, ScriptEnded, Ended, Elsewhere,
         allVars, vars, script

\* After its report of STOPPED the script only ends.
LEMMA StoppedEnds ==
  ASSUME php = "wait" => line = "connected", line = "stopped", [ScriptNext]_allVars
  PROVE  startResult' = startResult /\ (php = "run" => php' # "status")
<1>1. \/ UNCHANGED allVars \/ Ends \/ PhpThread
      \/ MainStep \/ (\E a \in Attempts : DispatcherStep(a)) \/ ScmStep
  BY DEF ScriptNext, PhpStep, ScriptEnded, Ended, Elsewhere, ScriptStep, Constructs, Connects,
         ReportsRunning, EntersLoop, ReadsControl, AnswersInterrogate, Resumes, Pauses,
         IsAnswered, IsResumed, IsPaused, Completes, NothingToComplete, Sleeps, ReportsStopped,
         Reports, Goes, allVars
<1> QED
  BY <1>1
     DEF allVars, vars, handshake, script, Ends, RequestShutdown, PhpThread, StartReturns,
         StartTimesOut, StatusReports, StatusReported, ShutdownSetsState, ShutdownReports,
         ShutdownReported, ShutdownJoins, ShutdownReleases, ProcessExits, MainStep, ServiceMain,
         MainFillsStatus, MainRegisters, MainSetsCode, MainSignals, DispatcherStep, Dispatcher,
         DispatcherConnects, DispatcherRefused, DispatcherSignals, DispatcherReturns, Handler,
         HandlerStoresControl, HandlerSetsState, HandlerReports, HandlerReported, ScmStep, Scm,
         ScmSends

\* It makes that report in one line only.
LEMMA StoppedBefore ==
  ASSUME [ScriptNext]_allVars, line' = "stopped", ~ReportsStopped
  PROVE  line = "stopped"
<1>1. Branch # "stopped"
  BY DEF Branch
<1> QED
  BY <1>1 DEF ScriptNext, PhpStep, MainStep, DispatcherStep, ScmStep, ScriptEnded, Elsewhere,
     ScriptStep, Constructs, Connects, ReportsRunning, EntersLoop, ReadsControl,
     AnswersInterrogate, Resumes, Pauses, IsAnswered, IsResumed, IsPaused, Completes,
     NothingToComplete, Sleeps, Ends, Reports, Goes, allVars

-----------------------------------------------------------------------------
(* The theorems.                                                           *)

LEMMA ScriptNextInv == ASSUME CInv, [ScriptNext]_allVars PROVE CInv'
<1>1. [Next]_vars
  BY ScriptImpliesNext DEF CInv, ScriptInv
<1>2. IInv' /\ AbortedIsGone'
  BY <1>1, NextTyped, StartInvStep, ConnectionInvStep, AcceptedFollowsStep, CodesFollowStep,
     JoinedIsDoneStep, StopToldStep, AbortedIsGoneStep
     DEF CInv, IInv
<1>3. gracefulExit' = TRUE
  BY GracefulStays DEF CInv, ScriptInv
<1>4. (php = "wait" => line = "connected")'
  BY WaitsOnce DEF CInv, ScriptInv
<1>5. ASSUME line' = "stopped", startResult' = "true", ReportsStopped
      PROVE  StopGoes'
  <2>1. php = "run" /\ php' = "status" /\ asked' = "STOPPED" /\ st'.state = "STOPPED"
    BY <1>5 DEF ReportsStopped, Reports, SetServiceStatus, CInv, IInv, TypeOK, Status
  <2> QED
    BY <2>1 DEF StopGoes, Late, AfterReport
<1>6. ASSUME line' = "stopped", startResult' = "true", ~ReportsStopped
      PROVE  StopGoes'
  <2>1. line = "stopped"
    BY <1>6, StoppedBefore
  <2>2. startResult = "true" /\ php # "wait" /\ (php = "run" => php' # "status")
    BY <1>6, <2>1, StoppedEnds DEF CInv, ScriptInv
  <2> QED
    BY <1>1, <2>1, <2>2, StopGoesStep DEF CInv, IInv, ScriptInv
<1> QED
  BY <1>2, <1>3, <1>4, <1>5, <1>6 DEF CInv, ScriptInv

\* The inductive invariant behind the theorem below.
THEOREM ControlledInvariant == ScriptSpec => []CInv
<1>1. ScriptInit => CInv
  BY InitTyped, InvInit
     DEF ScriptInit, Init, NoStatus, CInv, IInv, AbortedIsGone, ScriptInv
<1> QED
  BY <1>1, ScriptNextInv, PTL DEF ScriptSpec

\* StopIsClean: a script that has taken a stop and reported STOPPED ends as a service that
\* has stopped without an error, whatever crosses its reports.
THEOREM StopEndsCleanly == ScriptSpec => []StopIsClean
<1>1. CInv => StopIsClean
  BY DEF CInv, IInv, ScriptInv, StopGoes, AfterReport, CodesFollow, CodesFromShutdown, StopIsClean
<1> QED
  BY <1>1, ControlledInvariant, PTL
=============================================================================
