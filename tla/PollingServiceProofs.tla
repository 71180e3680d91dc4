------------------------- MODULE PollingServiceProofs -------------------------
(***************************************************************************)
(* The safety properties of PollingService, that the two scripts make only *)
(* calls ServiceProcess lets a script make, and that the SCM sees the life *)
(* cycle of ServiceLifecycle, for every set of controls and exit codes.    *)
(*                                                                         *)
(* A script that only polls reports one state before the SCM sends it any  *)
(* control.  From then on the state only moves forward: nobody stores      *)
(* RUNNING again, so a stop that has been stored is never overtaken.       *)
(***************************************************************************)
EXTENDS PollingService, ServiceProcessProofs

\* Where the script is, and where the PHP thread is.
LineInv ==
  /\ answers \in Answers /\ line \in Lines
  /\ line \in {"configure", "started"} => php \in {"run", "wait"}
  /\ line = "end" => ShuttingDown
  /\ line = "stopped" => answers /\ php # "wait"
  /\ line = "answer" => answers
  /\ ~answers /\ php = "run" => line # "end"
  /\ ~answers /\ php \in {"status", "statusRpc"} => line = "polling" 
  /\ scm.state = "ABORTED" => php = "gone"
  /\ php = "gone" => ScmEnded

\* The SCM has not heard of the service, so it sends no control.
Quiet ==
  /\ scm.state = "START_PENDING" /\ scm.accepted = {}
  /\ \A a \in Attempts : disp[a] \notin InHandler

QuietInv ==
  /\ line \in {"configure", "started"} \/ php \in {"status", "statusRpc"} => Quiet
  /\ php = "statusRpc" => st.state = told.state
  /\ php \in AfterReport => Quiet \/ scm.state \in Late \cup {"ABORTED"}

\* No copy of the status that is still on its way is behind what has been told.
Behind(state, known) ==
  \/ known = "RUNNING" /\ state \notin {"RUNNING"} \cup Late
  \/ known = "STOP_PENDING" /\ state \notin Late

ForwardInv ==
  /\ scm.state \in {"START_PENDING", "RUNNING", "ABORTED"} \cup Late
  /\ st.state \in {"NONE", "START_PENDING", "RUNNING"} \cup Late
  /\ sh => ~Behind(st.state, scm.state)
  /\ php = "rsCall" => st.state \in Late
  /\ php = "rsRpc" => st.state \in Late /\ told.state \in Late
  /\ php = "statusRpc" => told.state \in {"NONE", "START_PENDING", "RUNNING"}
  /\ \A a \in Attempts : disp[a] = "handlerRpc" =>
       /\ htold.state \in {"NONE", "START_PENDING", "RUNNING"} \cup Late
       /\ ~Behind(htold.state, scm.state) /\ ~Behind(st.state, htold.state)

\* A stop the handler has taken is on its way to the SCM, or has arrived.
StopTaken ==
  lastControl = "STOP" =>
    /\ \A a \in Attempts :
         disp[a] # "handler" /\ (disp[a] = "handlerRpc" => htold.state \in Late)
    /\ \/ \E a \in Attempts : disp[a] \in {"handlerState", "handlerCall", "handlerRpc"}
       \/ scm.state \in Late \cup {"ABORTED"}
    /\ (\A a \in Attempts : disp[a] # "handlerState") => st.state \in Late

StopInv ==
  /\ StopTaken
  /\ st.state = "STOP_PENDING" => lastControl = "STOP"
  /\ php \in {"statusRpc", "rsRpc"} /\ told.state = "STOP_PENDING" => lastControl = "STOP"

\* STOPPED is stored by the shutdown only, after the codes.
HasCodes(s) == s.win32ExitCode # "NO_ERROR" /\ s.specificExitCode = exitCode % DWord

CodesStored ==
  /\ php \in {"run", "wait", "status", "statusRpc", "rsState"} =>
       /\ st.state # "STOPPED" /\ told.state # "STOPPED" /\ scm.state # "STOPPED"
       /\ \A a \in Attempts : disp[a] = "handlerRpc" => htold.state # "STOPPED"
  /\ startResult = "true" /\ ~gracefulExit /\ ShuttingDown =>
       /\ HasCodes(st)
       /\ php = "rsRpc" => HasCodes(told)
       /\ scm.state = "STOPPED" => HasCodes(scm)
       /\ \A a \in Attempts :
            disp[a] = "handlerRpc" /\ htold.state = "STOPPED" => HasCodes(htold)

\* The script that only polls.
OnlyPolls == ~answers => QuietInv /\ ForwardInv /\ StopInv /\ CodesStored

\* A script that has reported STOPPED itself.
OwnStop == line = "stopped" /\ startResult = "true" => StopGoes

PInv == IInv /\ LineInv /\ OnlyPolls /\ OwnStop
-----------------------------------------------------------------------------
(* The scripts are scripts of ServiceProcess.                              *)

LEMMA PollingImpliesNext == ASSUME [PollingNext]_allVars PROVE [Next]_vars
<1> {"RUNNING", "STOPPED"} \subseteq StatusArgs /\ 0 \in CheckPoints
  BY PollingServiceAssumption
<1>1. ScriptStep => [Next]_vars
  BY DEF ScriptStep, Configure, Start, ReportRunning, ReadsInterrogate, AnswerInterrogate,
         ReportStopped, End, Next, Script
<1>2. QueryFails => [Next]_vars
  BY DEF QueryFails, Next, Script
<1>3. Sleeps => [Next]_vars
  BY DEF Sleeps, allVars
<1> QED
  BY <1>1, <1>2, <1>3
     DEF PollingNext, PhpStep, MainStep, DispatcherStep, ScmStep, PollingEnded, Next, allVars

\* PollingService is ServiceProcess with a script that is known, so all that is proved of
\* ServiceProcess is true of it.
THEOREM ImplementsServiceProcess == PollingSpec => Spec
<1>1. PollingInit => Init
  BY DEF PollingInit
<1> QED
  BY <1>1, PollingImpliesNext, PTL DEF PollingSpec, Spec

-----------------------------------------------------------------------------
(* The parts of the invariant, step by step.                               *)

\* The script and the PHP thread stay in step.
LEMMA LineInvStep ==
  ASSUME TypeOK, LineInv, [PollingNext]_allVars
  PROVE  LineInv'
<1> USE DEF TypeOK, LineInv, Lines, ShuttingDown, ScmEnded, ScmRecords, Recorded, Status,
      AnyState, States, Pending, Live, ProcessAlive
<1>1. CASE UNCHANGED allVars
  BY <1>1 DEF allVars, vars, settings, resources, handshake, shared, script, threads
<1>2. CASE Configure /\ UNCHANGED answers
  BY <1>2 DEF Configure, SetPauseResumeState, SetExitCode, DispatcherRuns, resources, handshake,
         shared, script, threads
<1>3. CASE Start /\ UNCHANGED answers
  BY <1>3 DEF Start, StartDispatcher, DispatcherRuns, shared
<1>4. CASE ReportRunning /\ UNCHANGED answers
  BY <1>4 DEF ReportRunning, SetServiceStatus, settings, resources, handshake, threads
<1>5. CASE ReadsInterrogate /\ UNCHANGED answers
  BY <1>5 DEF ReadsInterrogate, vars, settings, resources, handshake, shared, script, threads
<1>6. CASE AnswerInterrogate /\ UNCHANGED answers
  BY <1>6 DEF AnswerInterrogate, SetServiceStatus, settings, resources, handshake, threads
<1>7. CASE ReportStopped /\ UNCHANGED answers
  BY <1>7 DEF ReportStopped, SetServiceStatus, settings, resources, handshake, threads
<1>8. CASE End /\ UNCHANGED answers
  BY <1>8 DEF End, RequestShutdown, NotStopped, WithCodes, settings, resources, handshake,
         threads
<1>9. CASE QueryFails
  BY <1>9 DEF QueryFails, RequestShutdown, NotStopped, WithCodes, settings, resources,
         handshake, threads
<1>10. CASE (StartReturns \/ StartTimesOut) /\ Elsewhere
  BY <1>10 DEF StartReturns, StartTimesOut, Elsewhere, settings, resources, shared, threads
<1>11. CASE StatusReports /\ Elsewhere
  BY <1>11 DEF StatusReports, Elsewhere, settings, resources, handshake, shared, threads
<1>12. CASE StatusReported /\ Elsewhere
  BY <1>12 DEF StatusReported, Elsewhere, settings, resources, handshake, shared, threads
<1>13. CASE ShutdownSetsState /\ Elsewhere
  BY <1>13 DEF ShutdownSetsState, Elsewhere, settings, resources, handshake, threads
<1>14. CASE ShutdownReports /\ Elsewhere
  BY <1>14 DEF ShutdownReports, Elsewhere, settings, resources, handshake, shared, threads
<1>15. CASE ShutdownReported /\ Elsewhere
  BY <1>15 DEF ShutdownReported, Elsewhere, settings, resources, handshake, shared, threads
<1>16. CASE (ShutdownJoins \/ ShutdownReleases) /\ Elsewhere
  BY <1>16 DEF ShutdownJoins, ShutdownReleases, Elsewhere, settings, handshake, shared, threads
<1>17. CASE ProcessExits /\ Elsewhere
  BY <1>17 DEF ProcessExits, Elsewhere, settings, resources, handshake, shared, threads
<1>18. CASE MainFillsStatus /\ Elsewhere
  BY <1>18 DEF MainFillsStatus, Elsewhere, settings, resources, handshake, script
<1>19. CASE MainRegisters /\ Elsewhere
  BY <1>19 DEF MainRegisters, Elsewhere, settings, resources, handshake, script
<1>20. CASE (MainSetsCode \/ MainSignals) /\ Elsewhere
  BY <1>20 DEF MainSetsCode, MainSignals, Elsewhere, settings, resources, shared, script
<1>21. ASSUME NEW a \in Attempts, Elsewhere,
              \/ DispatcherConnects(a) \/ DispatcherRefused(a)
              \/ DispatcherSignals(a) \/ DispatcherReturns(a)
      PROVE  LineInv'
  BY <1>21 DEF DispatcherConnects, DispatcherRefused, DispatcherSignals, DispatcherReturns,
         Elsewhere, settings, resources, handshake, shared, script
<1>22. ASSUME NEW a \in Attempts, HandlerStoresControl(a), Elsewhere
      PROVE  LineInv'
  BY <1>22 DEF HandlerStoresControl, ProcessAlive, Elsewhere, settings, resources, handshake,
         script
<1>23. ASSUME NEW a \in Attempts, HandlerSetsState(a), Elsewhere
      PROVE  LineInv'
  BY <1>23 DEF HandlerSetsState, ProcessAlive, Handled, Elsewhere, settings, resources,
         handshake, script
<1>24. ASSUME NEW a \in Attempts, HandlerReports(a), Elsewhere
      PROVE  LineInv'
  BY <1>24 DEF HandlerReports, ProcessAlive, Elsewhere, settings, resources, handshake, shared,
         script
<1>25. ASSUME NEW a \in Attempts, HandlerReported(a), Elsewhere
      PROVE  LineInv'
  BY <1>25 DEF HandlerReported, ProcessAlive, Elsewhere, settings, resources, handshake, shared,
         script
<1>26. ASSUME NEW a \in Attempts, NEW c \in Controls, ScmSends(a, c), Elsewhere
      PROVE  LineInv'
  BY <1>26 DEF ScmSends, ProcessAlive, Elsewhere, settings, resources, handshake, shared, script
<1> QED
  BY <1>1, <1>2, <1>3, <1>4, <1>5, <1>6, <1>7, <1>8, <1>9, <1>10, <1>11, <1>12, <1>13, <1>14,
     <1>15, <1>16, <1>17, <1>18, <1>19, <1>20, <1>21, <1>22, <1>23, <1>24, <1>25, <1>26
     DEF PollingNext, PhpStep, MainStep, DispatcherStep, ScmStep, Sleeps, PollingEnded, ScriptStep,
         PhpThread, ServiceMain, Dispatcher, Handler, Scm, Ended, Elsewhere, allVars

\* Before the report of the script nothing is sent, and after the shutdown nothing runs.
LEMMA QuietInvStep ==
  ASSUME ~answers, TypeOK, StartInv, ConnectionInv, LineInv, QuietInv, ForwardInv, CodesStored,
         [PollingNext]_allVars
  PROVE  QuietInv'
<1> USE DEF TypeOK, LineInv, Status, ScmStatus, NoStatus, AnyState, States, Pending, Live,
      ProcessAlive, ShuttingDown, ScmEnded, ScmRecords, Recorded, Sendable, Late, AfterReport,
      Quiet, QuietInv, ForwardInv, Behind, CodesStored, StartInv, MainAnnounces, MainRuns,
      ConnectionInv, OneConnected, SilentUnlessRegistered, Connected, InHandler
<1>1. CASE UNCHANGED allVars
  BY <1>1 DEF allVars, vars, settings, resources, handshake, shared, script, threads
<1>2. CASE Configure /\ UNCHANGED answers
  BY <1>2 DEF Configure, SetPauseResumeState, SetExitCode, DispatcherRuns, resources, handshake,
         shared, script, threads
<1>3. CASE Start /\ UNCHANGED answers
  BY <1>3 DEF Start, StartDispatcher, DispatcherRuns, shared
<1>4. CASE ReportRunning /\ UNCHANGED answers
  BY <1>4 DEF ReportRunning, SetServiceStatus, settings, resources, handshake, threads
<1>5. CASE ReadsInterrogate /\ UNCHANGED answers
  BY <1>5 DEF ReadsInterrogate, vars, settings, resources, handshake, shared, script, threads
<1>6. CASE AnswerInterrogate /\ UNCHANGED answers
  BY <1>6 DEF AnswerInterrogate, SetServiceStatus, settings, resources, handshake, threads
<1>7. CASE ReportStopped /\ UNCHANGED answers
  BY <1>7 DEF ReportStopped, SetServiceStatus, settings, resources, handshake, threads
<1>8. CASE End /\ UNCHANGED answers
  BY <1>8 DEF End, RequestShutdown, NotStopped, WithCodes, settings, resources, handshake,
         threads
<1>9. CASE QueryFails
  BY <1>9 DEF QueryFails, RequestShutdown, NotStopped, WithCodes, settings, resources,
         handshake, threads
<1>10. CASE (StartReturns \/ StartTimesOut) /\ Elsewhere
  BY <1>10 DEF StartReturns, StartTimesOut, Elsewhere, settings, resources, shared, threads
<1>11. CASE StatusReports /\ Elsewhere
  BY <1>11 DEF StatusReports, Elsewhere, settings, resources, handshake, shared, threads
<1>12. CASE StatusReported /\ Elsewhere
  BY <1>12 DEF StatusReported, Elsewhere, settings, resources, handshake, shared, threads
<1>13. CASE ShutdownSetsState /\ Elsewhere
  BY <1>13 DEF ShutdownSetsState, Elsewhere, settings, resources, handshake, threads
<1>14. CASE ShutdownReports /\ Elsewhere
  BY <1>14 DEF ShutdownReports, Elsewhere, settings, resources, handshake, shared, threads
<1>15. CASE ShutdownReported /\ Elsewhere
  BY <1>15 DEF ShutdownReported, Elsewhere, settings, resources, handshake, shared, threads
<1>16. CASE (ShutdownJoins \/ ShutdownReleases) /\ Elsewhere
  BY <1>16 DEF ShutdownJoins, ShutdownReleases, Elsewhere, settings, handshake, shared, threads
<1>17. CASE ProcessExits /\ Elsewhere
  BY <1>17 DEF ProcessExits, Elsewhere, settings, resources, handshake, shared, threads
<1>18. CASE MainFillsStatus /\ Elsewhere
  BY <1>18 DEF MainFillsStatus, Elsewhere, settings, resources, handshake, script
<1>19. CASE MainRegisters /\ Elsewhere
  BY <1>19 DEF MainRegisters, Elsewhere, settings, resources, handshake, script
<1>20. CASE (MainSetsCode \/ MainSignals) /\ Elsewhere
  BY <1>20 DEF MainSetsCode, MainSignals, Elsewhere, settings, resources, shared, script
<1>21. ASSUME NEW a \in Attempts, Elsewhere,
              \/ DispatcherConnects(a) \/ DispatcherRefused(a)
              \/ DispatcherSignals(a) \/ DispatcherReturns(a)
      PROVE  QuietInv'
  BY <1>21 DEF DispatcherConnects, DispatcherRefused, DispatcherSignals, DispatcherReturns,
         Elsewhere, settings, resources, handshake, shared, script
<1>22. ASSUME NEW a \in Attempts, HandlerStoresControl(a), Elsewhere
      PROVE  QuietInv'
  BY <1>22 DEF HandlerStoresControl, ProcessAlive, Elsewhere, settings, resources, handshake,
         script
<1>23. ASSUME NEW a \in Attempts, HandlerSetsState(a), Elsewhere
      PROVE  QuietInv'
  BY <1>23 DEF HandlerSetsState, ProcessAlive, Handled, Elsewhere, settings, resources,
         handshake, script
<1>24. ASSUME NEW a \in Attempts, HandlerReports(a), Elsewhere
      PROVE  QuietInv'
  BY <1>24 DEF HandlerReports, ProcessAlive, Elsewhere, settings, resources, handshake, shared,
         script
<1>25. ASSUME NEW a \in Attempts, HandlerReported(a), Elsewhere
      PROVE  QuietInv'
  BY <1>25 DEF HandlerReported, ProcessAlive, Elsewhere, settings, resources, handshake, shared,
         script
<1>26. ASSUME NEW a \in Attempts, NEW c \in Controls, ScmSends(a, c), Elsewhere
      PROVE  QuietInv'
  BY <1>26 DEF ScmSends, ProcessAlive, Elsewhere, settings, resources, handshake, shared, script
<1> QED
  BY <1>1, <1>2, <1>3, <1>4, <1>5, <1>6, <1>7, <1>8, <1>9, <1>10, <1>11, <1>12, <1>13, <1>14,
     <1>15, <1>16, <1>17, <1>18, <1>19, <1>20, <1>21, <1>22, <1>23, <1>24, <1>25, <1>26
     DEF PollingNext, PhpStep, MainStep, DispatcherStep, ScmStep, Sleeps, PollingEnded, ScriptStep,
         PhpThread, ServiceMain, Dispatcher, Handler, Scm, Ended, Elsewhere, allVars

\* The state of the service moves forward, in every copy.
LEMMA ForwardInvStep ==
  ASSUME ~answers, TypeOK, StartInv, ConnectionInv, LineInv, QuietInv, ForwardInv, StopInv,
         CodesStored, [PollingNext]_allVars
  PROVE  ForwardInv'
<1> USE DEF TypeOK, LineInv, Status, ScmStatus, NoStatus, AnyState, States, Pending, Live,
      ProcessAlive, ShuttingDown, ScmEnded, ScmRecords, Recorded, Late, AfterReport, Quiet,
      QuietInv, ForwardInv, Behind, StopInv, StopTaken, CodesStored, StartInv, MainAnnounces,
      MainRuns, ConnectionInv, OneConnected, SilentUnlessRegistered, Connected, InHandler
<1>1. CASE UNCHANGED allVars
  BY <1>1 DEF allVars, vars, settings, resources, handshake, shared, script, threads
<1>2. CASE Configure /\ UNCHANGED answers
  BY <1>2 DEF Configure, SetPauseResumeState, SetExitCode, DispatcherRuns, resources, handshake,
         shared, script, threads
<1>3. CASE Start /\ UNCHANGED answers
  BY <1>3 DEF Start, StartDispatcher, DispatcherRuns, shared
<1>4. CASE ReportRunning /\ UNCHANGED answers
  BY <1>4 DEF ReportRunning, SetServiceStatus, settings, resources, handshake, threads
<1>5. CASE ReadsInterrogate /\ UNCHANGED answers
  BY <1>5 DEF ReadsInterrogate, vars, settings, resources, handshake, shared, script, threads
<1>6. CASE AnswerInterrogate /\ UNCHANGED answers
  BY <1>6 DEF AnswerInterrogate, SetServiceStatus, settings, resources, handshake, threads
<1>7. CASE ReportStopped /\ UNCHANGED answers
  BY <1>7 DEF ReportStopped, SetServiceStatus, settings, resources, handshake, threads
<1>8. CASE End /\ UNCHANGED answers
  <2>1. st'.state = st.state
    BY <1>8 DEF End, RequestShutdown, WithCodes
  <2> QED
    BY <1>8, <2>1 DEF End, RequestShutdown, NotStopped, settings, resources, handshake, threads
<1>9. CASE QueryFails
  BY <1>9 DEF QueryFails, RequestShutdown, NotStopped, WithCodes, settings, resources,
         handshake, threads
<1>10. CASE (StartReturns \/ StartTimesOut) /\ Elsewhere
  BY <1>10 DEF StartReturns, StartTimesOut, Elsewhere, settings, resources, shared, threads
<1>11. CASE StatusReports /\ Elsewhere
  BY <1>11 DEF StatusReports, Elsewhere, settings, resources, handshake, shared, threads
<1>12. CASE StatusReported /\ Elsewhere
  BY <1>12 DEF StatusReported, Elsewhere, settings, resources, handshake, shared, threads
<1>13. CASE ShutdownSetsState /\ Elsewhere
  BY <1>13 DEF ShutdownSetsState, Elsewhere, settings, resources, handshake, threads
<1>14. CASE ShutdownReports /\ Elsewhere
  BY <1>14 DEF ShutdownReports, Elsewhere, settings, resources, handshake, shared, threads
<1>15. CASE ShutdownReported /\ Elsewhere
  BY <1>15 DEF ShutdownReported, Elsewhere, settings, resources, handshake, shared, threads
<1>16. CASE (ShutdownJoins \/ ShutdownReleases) /\ Elsewhere
  BY <1>16 DEF ShutdownJoins, ShutdownReleases, Elsewhere, settings, handshake, shared, threads
<1>17. CASE ProcessExits /\ Elsewhere
  BY <1>17 DEF ProcessExits, Elsewhere, settings, resources, handshake, shared, threads
<1>18. CASE MainFillsStatus /\ Elsewhere
  BY <1>18 DEF MainFillsStatus, Elsewhere, settings, resources, handshake, script
<1>19. CASE MainRegisters /\ Elsewhere
  BY <1>19 DEF MainRegisters, Elsewhere, settings, resources, handshake, script
<1>20. CASE (MainSetsCode \/ MainSignals) /\ Elsewhere
  BY <1>20 DEF MainSetsCode, MainSignals, Elsewhere, settings, resources, shared, script
<1>21. ASSUME NEW a \in Attempts, Elsewhere,
              \/ DispatcherConnects(a) \/ DispatcherRefused(a)
              \/ DispatcherSignals(a) \/ DispatcherReturns(a)
      PROVE  ForwardInv'
  BY <1>21 DEF DispatcherConnects, DispatcherRefused, DispatcherSignals, DispatcherReturns,
         Elsewhere, settings, resources, handshake, shared, script
<1>22. ASSUME NEW a \in Attempts, HandlerStoresControl(a), Elsewhere
      PROVE  ForwardInv'
  BY <1>22 DEF HandlerStoresControl, ProcessAlive, Elsewhere, settings, resources, handshake,
         script
<1>23. ASSUME NEW a \in Attempts, HandlerSetsState(a), Elsewhere
      PROVE  ForwardInv'
  BY <1>23 DEF HandlerSetsState, ProcessAlive, Handled, Elsewhere, settings, resources,
         handshake, script
<1>24. ASSUME NEW a \in Attempts, HandlerReports(a), Elsewhere
      PROVE  ForwardInv'
  BY <1>24 DEF HandlerReports, ProcessAlive, Elsewhere, settings, resources, handshake, shared,
         script
<1>25. ASSUME NEW a \in Attempts, HandlerReported(a), Elsewhere
      PROVE  ForwardInv'
  BY <1>25 DEF HandlerReported, ProcessAlive, Elsewhere, settings, resources, handshake, shared,
         script
<1>26. ASSUME NEW a \in Attempts, NEW c \in Controls, ScmSends(a, c), Elsewhere
      PROVE  ForwardInv'
  BY <1>26 DEF ScmSends, ProcessAlive, Elsewhere, settings, resources, handshake, shared, script
<1> QED
  BY <1>1, <1>2, <1>3, <1>4, <1>5, <1>6, <1>7, <1>8, <1>9, <1>10, <1>11, <1>12, <1>13, <1>14,
     <1>15, <1>16, <1>17, <1>18, <1>19, <1>20, <1>21, <1>22, <1>23, <1>24, <1>25, <1>26
     DEF PollingNext, PhpStep, MainStep, DispatcherStep, ScmStep, Sleeps, PollingEnded, ScriptStep,
         PhpThread, ServiceMain, Dispatcher, Handler, Scm, Ended, Elsewhere, allVars

\* A stop that is taken stays the last control.
LEMMA StopInvStep ==
  ASSUME ~answers, TypeOK, StartInv, ConnectionInv, StopTold, LineInv, QuietInv, ForwardInv,
         StopInv, [PollingNext]_allVars
  PROVE  StopInv'
<1> USE DEF TypeOK, LineInv, Status, ScmStatus, NoStatus, AnyState, States, Pending, Live,
      ProcessAlive, ShuttingDown, ScmEnded, ScmRecords, Recorded, Sendable, Late, Quiet,
      QuietInv, ForwardInv, StopInv, StopTaken, StopTold, StartInv, MainAnnounces, MainRuns,
      ConnectionInv, OneConnected, SilentUnlessRegistered, Connected, InHandler
<1>1. CASE UNCHANGED allVars
  BY <1>1 DEF allVars, vars, settings, resources, handshake, shared, script, threads
<1>2. CASE Configure /\ UNCHANGED answers
  BY <1>2 DEF Configure, SetPauseResumeState, SetExitCode, DispatcherRuns, resources, handshake,
         shared, script, threads
<1>3. CASE Start /\ UNCHANGED answers
  BY <1>3 DEF Start, StartDispatcher, DispatcherRuns, shared
<1>4. CASE ReportRunning /\ UNCHANGED answers
  BY <1>4 DEF ReportRunning, SetServiceStatus, settings, resources, handshake, threads
<1>5. CASE ReadsInterrogate /\ UNCHANGED answers
  BY <1>5 DEF ReadsInterrogate, vars, settings, resources, handshake, shared, script, threads
<1>6. CASE AnswerInterrogate /\ UNCHANGED answers
  BY <1>6 DEF AnswerInterrogate, SetServiceStatus, settings, resources, handshake, threads
<1>7. CASE ReportStopped /\ UNCHANGED answers
  BY <1>7 DEF ReportStopped, SetServiceStatus, settings, resources, handshake, threads
<1>8. CASE End /\ UNCHANGED answers
  <2>1. st'.state = st.state
    BY <1>8 DEF End, RequestShutdown, WithCodes
  <2> QED
    BY <1>8, <2>1 DEF End, RequestShutdown, NotStopped, settings, resources, handshake, threads
<1>9. CASE QueryFails
  BY <1>9 DEF QueryFails, RequestShutdown, NotStopped, WithCodes, settings, resources,
         handshake, threads
<1>10. CASE (StartReturns \/ StartTimesOut) /\ Elsewhere
  BY <1>10 DEF StartReturns, StartTimesOut, Elsewhere, settings, resources, shared, threads
<1>11. CASE StatusReports /\ Elsewhere
  BY <1>11 DEF StatusReports, Elsewhere, settings, resources, handshake, shared, threads
<1>12. CASE StatusReported /\ Elsewhere
  BY <1>12 DEF StatusReported, Elsewhere, settings, resources, handshake, shared, threads
<1>13. CASE ShutdownSetsState /\ Elsewhere
  BY <1>13 DEF ShutdownSetsState, Elsewhere, settings, resources, handshake, threads
<1>14. CASE ShutdownReports /\ Elsewhere
  BY <1>14 DEF ShutdownReports, Elsewhere, settings, resources, handshake, shared, threads
<1>15. CASE ShutdownReported /\ Elsewhere
  BY <1>15 DEF ShutdownReported, Elsewhere, settings, resources, handshake, shared, threads
<1>16. CASE (ShutdownJoins \/ ShutdownReleases) /\ Elsewhere
  BY <1>16 DEF ShutdownJoins, ShutdownReleases, Elsewhere, settings, handshake, shared, threads
<1>17. CASE ProcessExits /\ Elsewhere
  BY <1>17 DEF ProcessExits, Elsewhere, settings, resources, handshake, shared, threads
<1>18. CASE MainFillsStatus /\ Elsewhere
  BY <1>18 DEF MainFillsStatus, Elsewhere, settings, resources, handshake, script
<1>19. CASE MainRegisters /\ Elsewhere
  BY <1>19 DEF MainRegisters, Elsewhere, settings, resources, handshake, script
<1>20. CASE (MainSetsCode \/ MainSignals) /\ Elsewhere
  BY <1>20 DEF MainSetsCode, MainSignals, Elsewhere, settings, resources, shared, script
<1>21. ASSUME NEW a \in Attempts, Elsewhere,
              \/ DispatcherConnects(a) \/ DispatcherRefused(a)
              \/ DispatcherSignals(a) \/ DispatcherReturns(a)
      PROVE  StopInv'
  BY <1>21 DEF DispatcherConnects, DispatcherRefused, DispatcherSignals, DispatcherReturns,
         Elsewhere, settings, resources, handshake, shared, script
<1>22. ASSUME NEW a \in Attempts, HandlerStoresControl(a), Elsewhere
      PROVE  StopInv'
  BY <1>22 DEF HandlerStoresControl, ProcessAlive, Elsewhere, settings, resources, handshake,
         script
<1>23. ASSUME NEW a \in Attempts, HandlerSetsState(a), Elsewhere
      PROVE  StopInv'
  BY <1>23 DEF HandlerSetsState, ProcessAlive, Handled, Elsewhere, settings, resources,
         handshake, script
<1>24. ASSUME NEW a \in Attempts, HandlerReports(a), Elsewhere
      PROVE  StopInv'
  BY <1>24 DEF HandlerReports, ProcessAlive, Elsewhere, settings, resources, handshake, shared,
         script
<1>25. ASSUME NEW a \in Attempts, HandlerReported(a), Elsewhere
      PROVE  StopInv'
  BY <1>25 DEF HandlerReported, ProcessAlive, Elsewhere, settings, resources, handshake, shared,
         script
<1>26. ASSUME NEW a \in Attempts, NEW c \in Controls, ScmSends(a, c), Elsewhere
      PROVE  StopInv'
  BY <1>26 DEF ScmSends, ProcessAlive, Elsewhere, settings, resources, handshake, shared, script
<1> QED
  BY <1>1, <1>2, <1>3, <1>4, <1>5, <1>6, <1>7, <1>8, <1>9, <1>10, <1>11, <1>12, <1>13, <1>14,
     <1>15, <1>16, <1>17, <1>18, <1>19, <1>20, <1>21, <1>22, <1>23, <1>24, <1>25, <1>26
     DEF PollingNext, PhpStep, MainStep, DispatcherStep, ScmStep, Sleeps, PollingEnded, ScriptStep,
         PhpThread, ServiceMain, Dispatcher, Handler, Scm, Ended, Elsewhere, allVars

\* A non-graceful shutdown of a service that runs stores the codes.
LEMMA ShutdownStoresCodes ==
  ASSUME st \in Status, RequestShutdown, sh, st.state # "STOPPED", ~gracefulExit
  PROVE  HasCodes(st)'
<1>1. st' = [st EXCEPT !.win32ExitCode = "SERVICE_SPECIFIC", !.specificExitCode = exitCode % DWord]
  BY DEF RequestShutdown, NotStopped, WithCodes
<1>2. exitCode' = exitCode
  BY DEF RequestShutdown, settings
<1>3. DOMAIN st = {"state", "accepted", "checkPoint", "win32ExitCode", "specificExitCode"}
  BY DEF Status
<1> HIDE DEF Status
<1>4. st'.win32ExitCode = "SERVICE_SPECIFIC" /\ st'.specificExitCode = exitCode % DWord
  BY <1>1, <1>3, ZenonT(60)
<1> QED
  BY <1>2, <1>4 DEF HasCodes

\* The codes are stored before STOPPED is, and travel with it.
LEMMA CodesStoredStep ==
  ASSUME ~answers, TypeOK, StartInv, ConnectionInv, LineInv, QuietInv, ForwardInv, CodesStored,
         [PollingNext]_allVars
  PROVE  CodesStored'
<1> USE DEF TypeOK, LineInv, Status, ScmStatus, NoStatus, AnyState, States, Pending, Live,
      ProcessAlive, ShuttingDown, ScmEnded, ScmRecords, Recorded, Late, Quiet, QuietInv,
      ForwardInv, CodesStored, HasCodes, ResultKnown, StartInv, MainAnnounces, MainRuns,
      ConnectionInv, OneConnected, SilentUnlessRegistered, Connected, InHandler
<1>1. CASE UNCHANGED allVars
  BY <1>1 DEF allVars, vars, settings, resources, handshake, shared, script, threads
<1>2. CASE Configure /\ UNCHANGED answers
  BY <1>2 DEF Configure, SetPauseResumeState, SetExitCode, DispatcherRuns, resources, handshake,
         shared, script, threads
<1>3. CASE Start /\ UNCHANGED answers
  BY <1>3 DEF Start, StartDispatcher, DispatcherRuns, shared
<1>4. CASE ReportRunning /\ UNCHANGED answers
  BY <1>4 DEF ReportRunning, SetServiceStatus, settings, resources, handshake, threads
<1>5. CASE ReadsInterrogate /\ UNCHANGED answers
  BY <1>5 DEF ReadsInterrogate, vars, settings, resources, handshake, shared, script, threads
<1>6. CASE AnswerInterrogate /\ UNCHANGED answers
  BY <1>6 DEF AnswerInterrogate, SetServiceStatus, settings, resources, handshake, threads
<1>7. CASE ReportStopped /\ UNCHANGED answers
  BY <1>7 DEF ReportStopped, SetServiceStatus, settings, resources, handshake, threads
<1>8. CASE End /\ UNCHANGED answers
  <2>1. st'.state = st.state /\ UNCHANGED <<exitCode, gracefulExit, startResult>>
        /\ UNCHANGED <<told, htold, disp, scm>>
    BY <1>8, ZenonT(60) DEF End, RequestShutdown, WithCodes, settings, handshake, threads
  <2>2. php = "run" /\ php' \in {"rsState", "rsJoin"}
    BY <1>8 DEF End, RequestShutdown
  <2>3. startResult = "true" /\ ~gracefulExit => HasCodes(st)'
    <3>1. RequestShutdown /\ st.state # "STOPPED" /\ (startResult = "true" => sh)
      BY <1>8, <2>2 DEF End
    <3> HIDE DEF HasCodes
    <3> QED
      BY <3>1, ShutdownStoresCodes DEF TypeOK
  <2> QED
    BY <2>1, <2>2, <2>3
<1>9. CASE QueryFails
  BY <1>9 DEF QueryFails, RequestShutdown, NotStopped, WithCodes, settings, resources,
         handshake, threads
<1>10. CASE (StartReturns \/ StartTimesOut) /\ Elsewhere
  BY <1>10 DEF StartReturns, StartTimesOut, Elsewhere, settings, resources, shared, threads
<1>11. CASE StatusReports /\ Elsewhere
  BY <1>11 DEF StatusReports, Elsewhere, settings, resources, handshake, shared, threads
<1>12. CASE StatusReported /\ Elsewhere
  BY <1>12 DEF StatusReported, Elsewhere, settings, resources, handshake, shared, threads
<1>13. CASE ShutdownSetsState /\ Elsewhere
  BY <1>13 DEF ShutdownSetsState, Elsewhere, settings, resources, handshake, threads
<1>14. CASE ShutdownReports /\ Elsewhere
  BY <1>14 DEF ShutdownReports, Elsewhere, settings, resources, handshake, shared, threads
<1>15. CASE ShutdownReported /\ Elsewhere
  BY <1>15 DEF ShutdownReported, Elsewhere, settings, resources, handshake, shared, threads
<1>16. CASE (ShutdownJoins \/ ShutdownReleases) /\ Elsewhere
  BY <1>16 DEF ShutdownJoins, ShutdownReleases, Elsewhere, settings, handshake, shared, threads
<1>17. CASE ProcessExits /\ Elsewhere
  BY <1>17 DEF ProcessExits, Elsewhere, settings, resources, handshake, shared, threads
<1>18. CASE MainFillsStatus /\ Elsewhere
  BY <1>18 DEF MainFillsStatus, Elsewhere, settings, resources, handshake, script
<1>19. CASE MainRegisters /\ Elsewhere
  BY <1>19 DEF MainRegisters, Elsewhere, settings, resources, handshake, script
<1>20. CASE (MainSetsCode \/ MainSignals) /\ Elsewhere
  BY <1>20 DEF MainSetsCode, MainSignals, Elsewhere, settings, resources, shared, script
<1>21. ASSUME NEW a \in Attempts, Elsewhere,
              \/ DispatcherConnects(a) \/ DispatcherRefused(a)
              \/ DispatcherSignals(a) \/ DispatcherReturns(a)
      PROVE  CodesStored'
  BY <1>21 DEF DispatcherConnects, DispatcherRefused, DispatcherSignals, DispatcherReturns,
         Elsewhere, settings, resources, handshake, shared, script
<1>22. ASSUME NEW a \in Attempts, HandlerStoresControl(a), Elsewhere
      PROVE  CodesStored'
  BY <1>22 DEF HandlerStoresControl, ProcessAlive, Elsewhere, settings, resources, handshake,
         script
<1>23. ASSUME NEW a \in Attempts, HandlerSetsState(a), Elsewhere
      PROVE  CodesStored'
  BY <1>23 DEF HandlerSetsState, ProcessAlive, Handled, Elsewhere, settings, resources,
         handshake, script
<1>24. ASSUME NEW a \in Attempts, HandlerReports(a), Elsewhere
      PROVE  CodesStored'
  BY <1>24 DEF HandlerReports, ProcessAlive, Elsewhere, settings, resources, handshake, shared,
         script
<1>25. ASSUME NEW a \in Attempts, HandlerReported(a), Elsewhere
      PROVE  CodesStored'
  BY <1>25 DEF HandlerReported, ProcessAlive, Elsewhere, settings, resources, handshake, shared,
         script
<1>26. ASSUME NEW a \in Attempts, NEW c \in Controls, ScmSends(a, c), Elsewhere
      PROVE  CodesStored'
  BY <1>26 DEF ScmSends, ProcessAlive, Elsewhere, settings, resources, handshake, shared, script
<1> QED
  BY <1>1, <1>2, <1>3, <1>4, <1>5, <1>6, <1>7, <1>8, <1>9, <1>10, <1>11, <1>12, <1>13, <1>14,
     <1>15, <1>16, <1>17, <1>18, <1>19, <1>20, <1>21, <1>22, <1>23, <1>24, <1>25, <1>26
     DEF PollingNext, PhpStep, MainStep, DispatcherStep, ScmStep, Sleeps, PollingEnded, ScriptStep,
         PhpThread, ServiceMain, Dispatcher, Handler, Scm, Ended, Elsewhere, allVars

\* After its own report of STOPPED the script only ends.
LEMMA OwnStopStep ==
  ASSUME TypeOK, StartInv, ConnectionInv, StopTold, LineInv, OwnStop, [PollingNext]_allVars
  PROVE  OwnStop'
<1> SUFFICES ASSUME line' = "stopped", startResult' = "true" PROVE StopGoes'
  BY DEF OwnStop
<1>1. CASE ReportStopped
  <2>1. /\ php = "run" /\ php' = "status" /\ asked' = "STOPPED" /\ st'.state = "STOPPED"
    BY <1>1 DEF ReportStopped, SetServiceStatus, TypeOK, Status
  <2> QED
    BY <2>1 DEF StopGoes, Late, AfterReport
<1>2. CASE ~ReportStopped
  <2>1. line = "stopped"
    BY <1>2 DEF PollingNext, PhpStep, MainStep, DispatcherStep, ScmStep, Sleeps, PollingEnded,
                QueryFails, ScriptStep, Configure, Start, ReportRunning, ReadsInterrogate,
                AnswerInterrogate, End, Elsewhere, allVars
  <2>2. php # "wait" /\ AbortedIsGone
    BY <2>1 DEF LineInv, AbortedIsGone
  <2>3. \/ UNCHANGED allVars \/ End \/ PhpThread
        \/ MainStep \/ (\E a \in Attempts : DispatcherStep(a)) \/ ScmStep
    BY <1>2, <2>1 DEF PollingNext, PhpStep, PollingEnded, Ended, Elsewhere, Sleeps, QueryFails,
       ScriptStep, Configure, Start, ReportRunning, ReadsInterrogate, AnswerInterrogate, allVars
  <2>4. startResult = "true" /\ (php = "run" => php' # "status")
    BY <2>2, <2>3
       DEF allVars, vars, handshake, script, End, RequestShutdown, PhpThread, StartReturns,
           StartTimesOut, StatusReports, StatusReported, ShutdownSetsState, ShutdownReports,
           ShutdownReported, ShutdownJoins, ShutdownReleases, ProcessExits, MainStep, ServiceMain,
           MainFillsStatus, MainRegisters, MainSetsCode, MainSignals, DispatcherStep, Dispatcher,
           DispatcherConnects, DispatcherRefused, DispatcherSignals, DispatcherReturns, Handler,
           HandlerStoresControl, HandlerSetsState, HandlerReports, HandlerReported, ScmStep, Scm,
           ScmSends
  <2> QED
    BY <2>1, <2>2, <2>4, PollingImpliesNext, StopGoesStep DEF OwnStop
<1> QED
  BY <1>1, <1>2

-----------------------------------------------------------------------------
(* The theorems.                                                           *)

LEMMA PollingInitInv == PollingInit => PInv
<1> SUFFICES ASSUME PollingInit PROVE PInv
  OBVIOUS
<1>1. IInv
  BY InitTyped, InvInit DEF PollingInit, IInv
<1>2. LineInv
  BY DEF PollingInit, Init, LineInv, Lines, NoStatus, ScmEnded
<1>3. QuietInv /\ ForwardInv /\ StopInv /\ CodesStored
  BY DEF PollingInit, Init, NoStatus, QuietInv, Quiet, ForwardInv, Behind, StopInv, StopTaken,
         CodesStored, ShuttingDown, AfterReport, InHandler, Late
<1>4. OwnStop
  BY DEF PollingInit, OwnStop
<1> QED
  BY <1>1, <1>2, <1>3, <1>4 DEF PInv, OnlyPolls

LEMMA PollingNextInv == ASSUME PInv, [PollingNext]_allVars PROVE PInv'
<1>1. TypeOK /\ StartInv /\ ConnectionInv /\ StopTold /\ LineInv /\ OwnStop
  BY DEF PInv, IInv
<1>2. IInv'
  BY PollingImpliesNext, NextTyped, StartInvStep, ConnectionInvStep, AcceptedFollowsStep,
     CodesFollowStep, JoinedIsDoneStep, StopToldStep
     DEF PInv, IInv
<1>3. LineInv' /\ OwnStop'
  BY <1>1, LineInvStep, OwnStopStep
<1>4. answers' = answers
  BY DEF PollingNext, PhpStep, MainStep, DispatcherStep, ScmStep, Sleeps, PollingEnded, QueryFails,
         Elsewhere, allVars
<1>5. ASSUME ~answers PROVE QuietInv' /\ ForwardInv' /\ StopInv' /\ CodesStored'
  <2>1. QuietInv /\ ForwardInv /\ StopInv /\ CodesStored
    BY <1>5 DEF PInv, OnlyPolls
  <2> QED
    BY <1>1, <1>5, <2>1, QuietInvStep, ForwardInvStep, StopInvStep, CodesStoredStep
<1> QED
  BY <1>2, <1>3, <1>4, <1>5 DEF PInv, OnlyPolls

\* The inductive invariant behind the theorems below.
THEOREM PollingInvariant == PollingSpec => []PInv
<1> QED
  BY PollingInitInv, PollingNextInv, PTL DEF PollingSpec

\* ShutdownHonoursMode: after the non-graceful exit of a script that only polls the service
\* has failed, with the code of the script or without a report of STOPPED.
THEOREM ExitModeByShutdown == PollingSpec => []ShutdownHonoursMode
<1>1. ASSUME PInv, ~answers, php = "gone", startResult = "true", ~gracefulExit
      PROVE  \/ scm.state = "ABORTED"
             \/ scm.win32ExitCode # "NO_ERROR" /\ scm.specificExitCode = exitCode % DWord
  <2>1. scm.state \in {"STOPPED", "ABORTED"}
    BY <1>1 DEF PInv, LineInv, ScmEnded
  <2>2. CodesStored /\ ShuttingDown
    BY <1>1 DEF PInv, OnlyPolls, ShuttingDown
  <2> QED
    BY <1>1, <2>1, <2>2 DEF CodesStored, HasCodes
<1>2. PInv => ShutdownHonoursMode
  BY <1>1 DEF ShutdownHonoursMode, ExitModeHonoured
<1> QED
  BY <1>2, PollingInvariant, PTL

\* OwnStopRecorded: a script that has reported STOPPED itself ends as STOPPED, also when a
\* stop control comes in between.
THEOREM OwnStopReachesScm == PollingSpec => []OwnStopRecorded
<1>1. PInv => OwnStopRecorded
  BY DEF PInv, OwnStop, StopGoes, AfterReport, OwnStopRecorded
<1> QED
  BY <1>1, PollingInvariant, PTL

\* PollingKeepsStop: while the script polls at its own pace no control replaces the stop.
THEOREM StopIsKept == PollingSpec => PollingKeepsStop
<1>1. ASSUME PInv, [PollingNext]_allVars, ~answers, lastControl = "STOP"
      PROVE  lastControl' = "STOP"
  <2>1. \A a \in Attempts : ~HandlerStoresControl(a)
    BY <1>1 DEF PInv, OnlyPolls, StopInv, StopTaken, HandlerStoresControl
  <2>2. [Next]_vars
    BY <1>1, PollingImpliesNext
  <2> QED
    BY <1>1, <2>1, <2>2
       DEF Next, Script, PhpThread, ServiceMain, Dispatcher, Handler, Scm, Ended, vars, shared,
           SetPauseResumeState, SetExitMode, StartDispatcher, SetExitCode, SetServiceStatus,
           RequestShutdown, StartReturns, StartTimesOut, StatusReports, StatusReported,
           ShutdownSetsState, ShutdownReports, ShutdownReported, ShutdownJoins, ShutdownReleases,
           ProcessExits, MainFillsStatus, MainRegisters, MainSetsCode, MainSignals,
           DispatcherConnects, DispatcherRefused, DispatcherSignals, DispatcherReturns,
           HandlerSetsState, HandlerReports, HandlerReported, ScmSends
<1>2. ASSUME PInv, [PollingNext]_allVars
      PROVE  [~answers /\ lastControl = "STOP" => lastControl' = "STOP"]_allVars
  BY <1>1, <1>2
<1> QED
  BY <1>2, PollingInvariant, PTL DEF PollingKeepsStop, PollingSpec

\* What a step tells the SCM of a script that only polls is a step of ServiceLifecycle.
LEMMA ScmMovesForward ==
  ASSUME PInv, ~answers, [PollingNext]_allVars, scm'.state # scm.state
  PROVE  scm.state \notin Lifecycle!Ends /\ scm'.state \in Lifecycle!Later[scm.state]
<1>1. /\ TypeOK /\ LineInv /\ QuietInv /\ ForwardInv /\ StopInv /\ CodesStored
      /\ StartInv /\ ConnectionInv
  BY DEF PInv, IInv, OnlyPolls
<1> USE DEF Lifecycle!Ends, Lifecycle!Later
<1>2. CASE StatusReported
  BY <1>1, <1>2
     DEF StatusReported, QuietInv, Quiet, ForwardInv, ScmRecords, Recorded, States, Pending, Live,
         Late, ScmEnded
<1>3. CASE ShutdownReported
  BY <1>1, <1>3 DEF ShutdownReported, ForwardInv, ScmRecords, Recorded, Late, ScmEnded
<1>4. CASE ProcessExits
  BY <1>1, <1>4
     DEF ProcessExits, QuietInv, Quiet, AfterReport, Late, ScmEnded, TypeOK, ScmStatus
<1>5. ASSUME NEW a \in Attempts, HandlerReported(a)
      PROVE  scm.state \notin Lifecycle!Ends /\ scm'.state \in Lifecycle!Later[scm.state]
  BY <1>1, <1>5
     DEF HandlerReported, ForwardInv, Behind, ScmRecords, Recorded, States, Pending, Live, Late,
         ScmEnded
<1>6. [Next]_vars
  BY PollingImpliesNext
<1> QED
  BY <1>2, <1>3, <1>4, <1>5, <1>6
     DEF Next, Script, PhpThread, ServiceMain, Dispatcher, Handler, Scm, Ended, vars,
         SetPauseResumeState, SetExitMode, StartDispatcher, SetExitCode, SetServiceStatus,
         RequestShutdown, StartReturns, StartTimesOut, StatusReports,
         ShutdownSetsState, ShutdownReports, ShutdownJoins, ShutdownReleases,
         MainFillsStatus, MainRegisters, MainSetsCode, MainSignals,
         DispatcherConnects, DispatcherRefused, DispatcherSignals, DispatcherReturns,
         HandlerStoresControl, HandlerSetsState, HandlerReports, ScmSends

\* LifecycleSpec without its fairness: the SCM sees a service that only polls start, run and
\* stop, in this order and without a step back.
THEOREM ImplementsLifecycle ==
  PollingSpec =>
    Lifecycle!Init /\ [][Lifecycle!Advance]_(IF answers THEN "START_PENDING" ELSE scm.state)
<1>1. PollingInit => Lifecycle!Init
  BY DEF PollingInit, Init, NoStatus, Lifecycle!Init
<1>2. ASSUME PInv, [PollingNext]_allVars
      PROVE  [Lifecycle!Advance]_(IF answers THEN "START_PENDING" ELSE scm.state)
  <2>1. answers' = answers
    BY <1>2 DEF PollingNext, PhpStep, MainStep, DispatcherStep, ScmStep, Sleeps, PollingEnded,
                QueryFails, Elsewhere, allVars
  <2>2. CASE answers
    BY <2>1, <2>2
  <2>3. CASE ~answers /\ scm'.state = scm.state
    BY <2>1, <2>3
  <2>4. CASE ~answers /\ scm'.state # scm.state
    <3>1. scm.state \notin Lifecycle!Ends /\ scm'.state \in Lifecycle!Later[scm.state]
      BY <1>2, <2>4, ScmMovesForward
    <3> QED
      BY <2>1, <2>4, <3>1 DEF Lifecycle!Advance
  <2> QED
    BY <2>2, <2>3, <2>4
<1> QED
  BY <1>1, <1>2, PollingInvariant, PTL DEF PollingSpec
=============================================================================
