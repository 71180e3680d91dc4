------------------------ MODULE ServiceProcessProofs ------------------------
(***************************************************************************)
(* The safety properties of ServiceProcess, for every number of attempts,  *)
(* every set of controls, states, checkpoints and exit codes.              *)
(*                                                                         *)
(* The argument is about who may announce the result of a start.  Between  *)
(* the creation of a dispatcher thread and the event there is exactly one  *)
(* announcer, the thread itself or the service_main it starts; while there *)
(* is one the event is not set, and svc_thread, which stays set until the  *)
(* announcement has been read, keeps the script from starting another.     *)
(***************************************************************************)
EXTENDS ServiceProcess, TLAPS

MainRuns == main \in {"begin", "register", "registered", "refused", "signal"}

Announces(a) == disp[a] \in {"begin", "signal"}

\* No dispatcher thread beyond the last attempt.
FutureIdle == \A a \in Attempts : a > attempt => disp[a] = "none"

\* svc_thread is null only when nothing of a start is left.
NullIsIdle ==
  /\ svc_thread = "null" => ~sh /\ ~MainRuns /\ \A a \in Attempts : ~Announces(a)
  /\ svc_thread # "null" => attempt \in Attempts

\* A dispatcher thread that will announce a failure is the only announcer.
OneAnnouncer ==
  \A a \in Attempts : Announces(a) =>
    a = attempt /\ ~signalled /\ ~sh /\ ~MainRuns /\ (disp[a] = "signal" => code = "ERROR")

\* service_main, while it runs, has not announced yet, and it knows what it will.
MainAnnounces ==
  /\ MainRuns => ~signalled
  /\ main \in {"none", "begin", "register", "refused"} => ~sh
  /\ main = "registered" => sh
  /\ main = "signal" => (code = "NO_ERROR" <=> sh)

\* What the event announces is true.
AnnouncedIsTrue == signalled => (code = "NO_ERROR" <=> sh)

\* What the script learns from a start.
ResultKnown ==
  /\ php = "wait" => svc_thread # "null" /\ startResult = "none"
  /\ startResult = "true" => sh /\ signalled
  /\ startResult = "threw" => svc_thread = "null"
  /\ startResult = "none" /\ php # "wait" => svc_thread = "null"

StartInv ==
  FutureIdle /\ NullIsIdle /\ OneAnnouncer /\ MainAnnounces /\ AnnouncedIsTrue /\ ResultKnown

\* One dispatcher thread at most is connected, and it is that of the last attempt
\* for as long as the service has a handler or is about to have one.
OneConnected ==
  /\ main = "none" => \A a \in Attempts : disp[a] \notin Connected
  /\ \A a, b \in Attempts : disp[a] \in Connected /\ disp[b] \in Connected => a = b
  /\ \A a \in Attempts : disp[a] \in Connected /\ (sh \/ MainRuns) => a = attempt

\* Without a registered handler the SCM hears nothing and sends nothing.
SilentUnlessRegistered ==
  ~sh => /\ scm.state \in {"START_PENDING", "ABORTED"} /\ scm.accepted = {}
         /\ php \notin {"statusRpc", "rsState", "rsCall", "rsRpc"}
         /\ \A a \in Attempts : disp[a] \notin InHandler

ConnectionInv == OneConnected /\ SilentUnlessRegistered

\* Every copy of the status carries the setting of the script.
AcceptedFollows ==
  /\ sh \/ main = "register" => st.accepted = dwControlsAccepted
  /\ php \in {"statusRpc", "rsRpc"} => told.accepted = dwControlsAccepted
  /\ \A a \in Attempts : disp[a] = "handlerRpc" => htold.accepted = dwControlsAccepted
  /\ AcceptedAgree

\* The codes in a status are those of the shutdown, after which no setting changes.
ShuttingDown == php \in {"rsState", "rsCall", "rsRpc", "rsJoin", "rsRelease", "released", "gone"}

CodesFromShutdown(s) ==
  s.win32ExitCode # "NO_ERROR" =>
    ShuttingDown /\ ~gracefulExit /\ s.specificExitCode = exitCode % DWord

CodesFollow ==
  /\ CodesFromShutdown(st) /\ CodesFromShutdown(told)
  /\ CodesFromShutdown(htold) /\ CodesFromShutdown(scm)

\* After the join the last dispatcher thread has ended, unless the wait has expired.
JoinedIsDone ==
  php \in {"rsRelease", "released"} /\ ~joinExpired =>
    svc_thread = "null" \/ (attempt \in Attempts /\ disp[attempt] = "done")

\* A state the PHP thread did not store is a STOP_PENDING on its way to the SCM, and
\* until it has arrived there, and after, no other control is delivered.
StopPassed ==
  /\ lastControl = "STOP"
  /\ \A a \in Attempts :
       /\ disp[a] \notin {"handler", "handlerState"}
       /\ disp[a] = "handlerRpc" => htold.state = "STOP_PENDING"
  /\ \/ \E a \in Attempts : disp[a] \in {"handlerCall", "handlerRpc"}
     \/ scm.state \in {"STOP_PENDING", "STOPPED", "ABORTED"}

StopTold ==
  /\ \A a \in Attempts : disp[a] = "handlerState" => lastControl = ctl
  /\ startResult = "true" =>
       /\ php \in {"status", "rsCall"} /\ st.state # asked =>
            st.state = "STOP_PENDING" /\ StopPassed
       /\ php \in {"statusRpc", "rsRpc"} /\ told.state # asked =>
            told.state = "STOP_PENDING" /\ st.state = "STOP_PENDING" /\ StopPassed

IInv ==
  TypeOK /\ StartInv /\ ConnectionInv /\ AcceptedFollows /\ CodesFollow /\ JoinedIsDone /\ StopTold
-----------------------------------------------------------------------------
(* Type correctness.                                                       *)

LEMMA CutToDWord ==
  ASSUME NEW c \in Nat
  PROVE  c % DWord \in 0..(DWord - 1)
BY ServiceProcessAssumption

LEMMA NoStatusTyped == NoStatus \in Status
BY ServiceProcessAssumption
   DEF NoStatus, Status, AnyState, States, Pending, Live, AcceptBits

\* A report changes the record of the SCM only into another such record.
LEMMA ScmRecordsTyped ==
  ASSUME NEW report \in Status, scm \in ScmStatus, ScmRecords(report)
  PROVE  scm' \in ScmStatus
BY DEF ScmRecords, Recorded, Status, ScmStatus

LEMMA InitTyped == Init => TypeOK
<1> SUFFICES ASSUME Init PROVE TypeOK
  OBVIOUS
<1>1. scm \in ScmStatus
  BY ServiceProcessAssumption
     DEF Init, NoStatus, ScmStatus, States, Pending, Live, AcceptBits
<1>2. disp \in [Attempts -> DispAt] /\ attempt \in 0..MaxAttempts
  BY ServiceProcessAssumption DEF Init, Attempts, DispAt
<1> QED
  BY <1>1, <1>2, NoStatusTyped
     DEF Init, TypeOK, AnyState, AcceptBits, PhpAt, MainAt

LEMMA NextTyped == TypeOK /\ [Next]_vars => TypeOK'
<1> SUFFICES ASSUME TypeOK, [Next]_vars PROVE TypeOK'
  OBVIOUS
<1> USE DEF TypeOK
<1>a. CASE UNCHANGED vars
  BY <1>a DEF vars, settings, resources, handshake, shared, script, threads
<1>1. ASSUME NEW b \in BOOLEAN, SetPauseResumeState(b) PROVE TypeOK'
  BY <1>1
     DEF SetPauseResumeState, DispatcherRuns, AcceptBits, resources, handshake, shared, script,
         threads
<1>2. ASSUME NEW b \in BOOLEAN, SetExitMode(b) PROVE TypeOK'
  BY <1>2 DEF SetExitMode, resources, handshake, shared, script, threads
<1>3. ASSUME NEW c \in ExitCodes, SetExitCode(c) PROVE TypeOK'
  BY <1>3, ServiceProcessAssumption
     DEF SetExitCode, resources, handshake, shared, script, threads
<1>4. ASSUME NEW b \in BOOLEAN, StartDispatcher(b) PROVE TypeOK'
  <2>1. attempt' \in 0..MaxAttempts
    BY <1>4, ServiceProcessAssumption DEF StartDispatcher, DispatcherRuns
  <2>2. disp' \in [Attempts -> DispAt]
    BY <1>4 DEF StartDispatcher, DispatcherRuns, DispAt
  <2>3. svc_thread' \in {"null", "open", "closed"} /\ php' \in PhpAt
    BY <1>4 DEF StartDispatcher, DispatcherRuns, PhpAt
  <2>4. startResult' \in {"none", "true", "false", "threw"}
    BY <1>4 DEF StartDispatcher, DispatcherRuns
  <2> QED
    BY <1>4, <2>1, <2>2, <2>3, <2>4 DEF StartDispatcher, DispatcherRuns, shared
<1>5. ASSUME NEW s \in StatusArgs, NEW cp \in CheckPoints, SetServiceStatus(s, cp)
      PROVE  TypeOK'
  <2>1. s \in AnyState /\ cp \in Nat
    BY ServiceProcessAssumption
  <2>2. st' \in Status
    BY <1>5, <2>1 DEF SetServiceStatus, Status
  <2> QED
    BY <1>5, <2>1, <2>2 DEF SetServiceStatus, PhpAt, settings, resources, handshake, threads
<1>6. CASE RequestShutdown
  <2>1. st' \in Status
    BY <1>6, CutToDWord DEF RequestShutdown, NotStopped, WithCodes, Status
  <2> QED
    BY <1>6, <2>1
       DEF RequestShutdown, NotStopped, WithCodes, PhpAt, settings, resources, handshake, threads
<1>7. CASE StartReturns
  BY <1>7 DEF StartReturns, PhpAt, settings, shared, threads
<1>8. CASE StartTimesOut
  BY <1>8 DEF StartTimesOut, PhpAt, settings, resources, shared, threads
<1>9. CASE StatusReports
  BY <1>9 DEF StatusReports, PhpAt, AnyState, settings, resources, handshake, shared, threads
<1>10. CASE StatusReported
  BY <1>10, ScmRecordsTyped, NoStatusTyped
     DEF StatusReported, PhpAt, AnyState, settings, resources, handshake, shared, threads
<1>11. CASE ShutdownSetsState
  <2>1. st' \in Status
    BY <1>11 DEF ShutdownSetsState, Status, AnyState, States
  <2> QED
    BY <1>11, <2>1
       DEF ShutdownSetsState, PhpAt, AnyState, States, settings, resources, handshake, threads
<1>12. CASE ShutdownReports
  BY <1>12 DEF ShutdownReports, PhpAt, settings, resources, handshake, shared, threads
<1>13. CASE ShutdownReported
  BY <1>13, ScmRecordsTyped, NoStatusTyped
     DEF ShutdownReported, PhpAt, AnyState, settings, resources, handshake, shared, threads
<1>14. CASE ShutdownJoins
  <2>1. joinExpired' \in BOOLEAN
    BY <1>14 DEF ShutdownJoins, DispatcherRuns, JoinExpires
  <2>2. svc_thread' \in {"null", "open", "closed"}
    BY <1>14 DEF ShutdownJoins, DispatcherRuns, JoinExpires
  <2> QED
    BY <1>14, <2>1, <2>2
       DEF ShutdownJoins, DispatcherRuns, JoinExpires, PhpAt, settings, handshake, shared, threads
<1>15. CASE ShutdownReleases
  BY <1>15 DEF ShutdownReleases, PhpAt, settings, handshake, shared, threads
<1>16. CASE ProcessExits
  <2>1. scm' \in ScmStatus
    BY <1>16 DEF ProcessExits, ScmStatus
  <2> QED
    BY <1>16, <2>1 DEF ProcessExits, PhpAt, settings, resources, handshake, shared, threads
<1>17. CASE MainFillsStatus
  <2>1. st' \in Status
    BY <1>17 DEF MainFillsStatus, Status, AnyState, States, Pending
  <2> QED
    BY <1>17, <2>1 DEF MainFillsStatus, MainAt, settings, resources, handshake, script
<1>18. CASE MainRegisters
  <2>1. sh' \in BOOLEAN
    BY <1>18 DEF MainRegisters
  <2> QED
    BY <1>18, <2>1 DEF MainRegisters, MainAt, settings, resources, handshake, script
<1>19. CASE MainSetsCode
  BY <1>19 DEF MainSetsCode, MainCode, MainAt, settings, resources, shared, script
<1>20. CASE MainSignals
  BY <1>20 DEF MainSignals, MainAt, settings, resources, shared, script
<1>21. ASSUME NEW a \in Attempts, DispatcherConnects(a) PROVE TypeOK'
  BY <1>21
     DEF DispatcherConnects, DispAt, Connected, MainAt, settings, resources, handshake, shared,
         script
<1>22. ASSUME NEW a \in Attempts, DispatcherRefused(a) PROVE TypeOK'
  BY <1>22 DEF DispatcherRefused, DispAt, settings, resources, shared, script
<1>23. ASSUME NEW a \in Attempts, DispatcherSignals(a) PROVE TypeOK'
  BY <1>23 DEF DispatcherSignals, DispAt, settings, resources, shared, script
<1>24. ASSUME NEW a \in Attempts, DispatcherReturns(a) PROVE TypeOK'
  BY <1>24 DEF DispatcherReturns, DispAt, settings, resources, handshake, shared, script
<1>25. ASSUME NEW a \in Attempts, HandlerStoresControl(a) PROVE TypeOK'
  BY <1>25
     DEF HandlerStoresControl, DispAt, Connected, InHandler, settings, resources, handshake, script
<1>26. ASSUME NEW a \in Attempts, HandlerSetsState(a) PROVE TypeOK'
  <2>1. st' \in Status
    BY <1>26 DEF HandlerSetsState, Handled, Status, AnyState, States, Pending
  <2> QED
    BY <1>26, <2>1
       DEF HandlerSetsState, Handled, DispAt, Connected, InHandler, settings, resources,
           handshake, script
<1>27. ASSUME NEW a \in Attempts, HandlerReports(a) PROVE TypeOK'
  BY <1>27
     DEF HandlerReports, DispAt, Connected, InHandler, settings, resources, handshake, shared,
         script
<1>28. ASSUME NEW a \in Attempts, HandlerReported(a) PROVE TypeOK'
  BY <1>28, ScmRecordsTyped, NoStatusTyped
     DEF HandlerReported, DispAt, Connected, settings, resources, handshake, shared, script
<1>29. ASSUME NEW a \in Attempts, NEW c \in Controls, ScmSends(a, c) PROVE TypeOK'
  BY <1>29, ServiceProcessAssumption
     DEF ScmSends, DispAt, Connected, InHandler, settings, resources, handshake, shared, script
<1> QED
  BY <1>a, <1>1, <1>2, <1>3, <1>4, <1>5, <1>6, <1>7, <1>8, <1>9, <1>10, <1>11, <1>12, <1>13,
     <1>14, <1>15, <1>16, <1>17, <1>18, <1>19, <1>20, <1>21, <1>22, <1>23, <1>24, <1>25, <1>26,
     <1>27, <1>28, <1>29
     DEF Next, Script, PhpThread, ServiceMain, Dispatcher, Handler, Scm, Ended

\* Every variable keeps its type: the globals hold only values their C types and the
\* assignments of the code allow, and the records of the SCM are records of states.
THEOREM TypeCorrect == Spec => []TypeOK
<1>1. QED
  BY InitTyped, NextTyped, PTL DEF Spec

-----------------------------------------------------------------------------
(* The parts of the inductive invariant, one after the other.              *)

LEMMA InvInit ==
  Init => StartInv /\ ConnectionInv /\ AcceptedFollows /\ CodesFollow /\ JoinedIsDone /\ StopTold
<1> SUFFICES ASSUME Init
             PROVE  /\ StartInv /\ ConnectionInv /\ AcceptedFollows
                    /\ CodesFollow /\ JoinedIsDone /\ StopTold
  OBVIOUS
<1> USE DEF Init, NoStatus
<1>1. StartInv
  BY DEF StartInv, FutureIdle, NullIsIdle, OneAnnouncer, MainAnnounces, AnnouncedIsTrue,
         ResultKnown, MainRuns, Announces
<1>2. ConnectionInv
  BY DEF ConnectionInv, OneConnected, SilentUnlessRegistered, Connected, InHandler
<1>3. AcceptedFollows
  BY DEF AcceptedFollows, AcceptedAgree
<1>4. CodesFollow
  BY DEF CodesFollow, CodesFromShutdown
<1>5. JoinedIsDone /\ StopTold
  BY DEF JoinedIsDone, StopTold
<1> QED
  BY <1>1, <1>2, <1>3, <1>4, <1>5

\* A start has one announcer, and what it announces is true.
LEMMA StartInvStep == TypeOK /\ StartInv /\ [Next]_vars => StartInv'
<1> SUFFICES ASSUME TypeOK, StartInv, [Next]_vars PROVE StartInv'
  OBVIOUS
<1> USE DEF
     TypeOK, StartInv, FutureIdle, NullIsIdle, OneAnnouncer, MainAnnounces, AnnouncedIsTrue,
     ResultKnown, MainRuns, Announces, Attempts, Connected, InHandler
<1>a. CASE UNCHANGED vars
  BY <1>a DEF vars, settings, resources, handshake, shared, script, threads
<1>1. ASSUME NEW b \in BOOLEAN, SetPauseResumeState(b) PROVE StartInv'
  BY <1>1 DEF SetPauseResumeState, DispatcherRuns, resources, handshake, shared, script, threads
<1>2. ASSUME NEW b \in BOOLEAN, SetExitMode(b) PROVE StartInv'
  BY <1>2 DEF SetExitMode, resources, handshake, shared, script, threads
<1>3. ASSUME NEW c \in ExitCodes, SetExitCode(c) PROVE StartInv'
  BY <1>3 DEF SetExitCode, resources, handshake, shared, script, threads
<1>4. ASSUME NEW b \in BOOLEAN, StartDispatcher(b) PROVE StartInv'
  <2>1. ~sh /\ ~MainRuns /\ \A a \in Attempts : ~Announces(a)
    BY <1>4 DEF StartDispatcher, DispatcherRuns
  <2>2. /\ attempt' = attempt + 1 /\ attempt' \in Attempts /\ signalled' = FALSE
        /\ UNCHANGED <<code, sh, main>>
    BY <1>4, ServiceProcessAssumption DEF StartDispatcher, DispatcherRuns, shared
  <2>3. CASE /\ svc_thread' = "open" /\ php' = "wait" /\ startResult' = "none"
             /\ disp' = [disp EXCEPT ![attempt + 1] = "begin"]
    BY <2>1, <2>2, <2>3
  <2>4. CASE startResult' = "threw" /\ UNCHANGED <<svc_thread, php, disp>>
    BY <1>4, <2>1, <2>2, <2>4 DEF StartDispatcher, DispatcherRuns
  <2> QED
    BY <1>4, <2>3, <2>4 DEF StartDispatcher, DispatcherRuns
<1>5. ASSUME NEW s \in StatusArgs, NEW cp \in CheckPoints, SetServiceStatus(s, cp) PROVE StartInv'
  BY <1>5 DEF SetServiceStatus, settings, resources, handshake, threads
<1>6. CASE RequestShutdown
  BY <1>6 DEF RequestShutdown, NotStopped, WithCodes, settings, resources, handshake, threads
<1>7. CASE StartReturns
  BY <1>7 DEF StartReturns, settings, shared, threads
<1>8. CASE StartTimesOut
  BY <1>8 DEF StartTimesOut, settings, resources, shared, threads
<1>9. CASE StatusReports
  BY <1>9 DEF StatusReports, settings, resources, handshake, shared, threads
<1>10. CASE StatusReported
  BY <1>10 DEF StatusReported, settings, resources, handshake, shared, threads
<1>11. CASE ShutdownSetsState
  BY <1>11 DEF ShutdownSetsState, settings, resources, handshake, threads
<1>12. CASE ShutdownReports
  BY <1>12 DEF ShutdownReports, settings, resources, handshake, shared, threads
<1>13. CASE ShutdownReported
  BY <1>13 DEF ShutdownReported, settings, resources, handshake, shared, threads
<1>14. CASE ShutdownJoins
  BY <1>14 DEF ShutdownJoins, DispatcherRuns, JoinExpires, settings, handshake, shared, threads
<1>15. CASE ShutdownReleases
  BY <1>15 DEF ShutdownReleases, settings, handshake, shared, threads
<1>16. CASE ProcessExits
  BY <1>16 DEF ProcessExits, settings, resources, handshake, shared, threads
<1>17. CASE MainFillsStatus
  BY <1>17 DEF MainFillsStatus, settings, resources, handshake, script
<1>18. CASE MainRegisters
  BY <1>18 DEF MainRegisters, settings, resources, handshake, script
<1>19. CASE MainSetsCode
  BY <1>19 DEF MainSetsCode, MainCode, settings, resources, shared, script
<1>20. CASE MainSignals
  BY <1>20 DEF MainSignals, settings, resources, shared, script
<1>21. ASSUME NEW a \in Attempts, DispatcherConnects(a) PROVE StartInv'
  BY <1>21 DEF DispatcherConnects, settings, resources, handshake, shared, script
<1>22. ASSUME NEW a \in Attempts, DispatcherRefused(a) PROVE StartInv'
  BY <1>22 DEF DispatcherRefused, settings, resources, shared, script
<1>23. ASSUME NEW a \in Attempts, DispatcherSignals(a) PROVE StartInv'
  BY <1>23 DEF DispatcherSignals, settings, resources, shared, script
<1>24. ASSUME NEW a \in Attempts, DispatcherReturns(a) PROVE StartInv'
  BY <1>24 DEF DispatcherReturns, settings, resources, handshake, shared, script
<1>25. ASSUME NEW a \in Attempts, HandlerStoresControl(a) PROVE StartInv'
  BY <1>25 DEF HandlerStoresControl, settings, resources, handshake, script
<1>26. ASSUME NEW a \in Attempts, HandlerSetsState(a) PROVE StartInv'
  BY <1>26 DEF HandlerSetsState, Handled, settings, resources, handshake, script
<1>27. ASSUME NEW a \in Attempts, HandlerReports(a) PROVE StartInv'
  BY <1>27 DEF HandlerReports, settings, resources, handshake, shared, script
<1>28. ASSUME NEW a \in Attempts, HandlerReported(a) PROVE StartInv'
  BY <1>28 DEF HandlerReported, settings, resources, handshake, shared, script
<1>29. ASSUME NEW a \in Attempts, NEW c \in Controls, ScmSends(a, c) PROVE StartInv'
  BY <1>29 DEF ScmSends, settings, resources, handshake, shared, script
<1> QED
  BY <1>a, <1>1, <1>2, <1>3, <1>4, <1>5, <1>6, <1>7, <1>8, <1>9, <1>10, <1>11, <1>12, <1>13,
     <1>14, <1>15, <1>16, <1>17, <1>18, <1>19, <1>20, <1>21, <1>22, <1>23, <1>24, <1>25, <1>26,
     <1>27, <1>28, <1>29
     DEF Next, Script, PhpThread, ServiceMain, Dispatcher, Handler, Scm, Ended

\* One dispatcher thread is connected, and nobody hears of a service without handler.
LEMMA ConnectionInvStep == TypeOK /\ StartInv /\ ConnectionInv /\ [Next]_vars => ConnectionInv'
<1> SUFFICES ASSUME TypeOK, StartInv, ConnectionInv, [Next]_vars PROVE ConnectionInv'
  OBVIOUS
<1> USE DEF
     TypeOK, StartInv, FutureIdle, NullIsIdle, OneAnnouncer, MainAnnounces, AnnouncedIsTrue,
     ResultKnown, MainRuns, Announces, Attempts, Connected, InHandler, ConnectionInv,
     OneConnected, SilentUnlessRegistered, ScmRecords, Recorded, ScmEnded, Sendable, Live
<1>a. CASE UNCHANGED vars
  BY <1>a DEF vars, settings, resources, handshake, shared, script, threads
<1>1. ASSUME NEW b \in BOOLEAN, SetPauseResumeState(b) PROVE ConnectionInv'
  BY <1>1 DEF SetPauseResumeState, DispatcherRuns, resources, handshake, shared, script, threads
<1>2. ASSUME NEW b \in BOOLEAN, SetExitMode(b) PROVE ConnectionInv'
  BY <1>2 DEF SetExitMode, resources, handshake, shared, script, threads
<1>3. ASSUME NEW c \in ExitCodes, SetExitCode(c) PROVE ConnectionInv'
  BY <1>3 DEF SetExitCode, resources, handshake, shared, script, threads
<1>4. ASSUME NEW b \in BOOLEAN, StartDispatcher(b) PROVE ConnectionInv'
  BY <1>4, ZenonT(60) DEF StartDispatcher, DispatcherRuns, shared
<1>5. ASSUME NEW s \in StatusArgs, NEW cp \in CheckPoints, SetServiceStatus(s, cp)
      PROVE  ConnectionInv'
  BY <1>5 DEF SetServiceStatus, settings, resources, handshake, threads
<1>6. CASE RequestShutdown
  BY <1>6 DEF RequestShutdown, NotStopped, WithCodes, settings, resources, handshake, threads
<1>7. CASE StartReturns
  BY <1>7 DEF StartReturns, settings, shared, threads
<1>8. CASE StartTimesOut
  BY <1>8 DEF StartTimesOut, settings, resources, shared, threads
<1>9. CASE StatusReports
  BY <1>9 DEF StatusReports, settings, resources, handshake, shared, threads
<1>10. CASE StatusReported
  BY <1>10 DEF StatusReported, settings, resources, handshake, shared, threads
<1>11. CASE ShutdownSetsState
  BY <1>11 DEF ShutdownSetsState, settings, resources, handshake, threads
<1>12. CASE ShutdownReports
  BY <1>12 DEF ShutdownReports, settings, resources, handshake, shared, threads
<1>13. CASE ShutdownReported
  BY <1>13 DEF ShutdownReported, settings, resources, handshake, shared, threads
<1>14. CASE ShutdownJoins
  BY <1>14 DEF ShutdownJoins, DispatcherRuns, JoinExpires, settings, handshake, shared, threads
<1>15. CASE ShutdownReleases
  BY <1>15 DEF ShutdownReleases, settings, handshake, shared, threads
<1>16. CASE ProcessExits
  BY <1>16 DEF ProcessExits, settings, resources, handshake, shared, threads
<1>17. CASE MainFillsStatus
  BY <1>17 DEF MainFillsStatus, settings, resources, handshake, script
<1>18. CASE MainRegisters
  BY <1>18 DEF MainRegisters, settings, resources, handshake, script
<1>19. CASE MainSetsCode
  BY <1>19 DEF MainSetsCode, MainCode, settings, resources, shared, script
<1>20. CASE MainSignals
  BY <1>20 DEF MainSignals, settings, resources, shared, script
<1>21. ASSUME NEW a \in Attempts, DispatcherConnects(a) PROVE ConnectionInv'
  BY <1>21 DEF DispatcherConnects, settings, resources, handshake, shared, script
<1>22. ASSUME NEW a \in Attempts, DispatcherRefused(a) PROVE ConnectionInv'
  BY <1>22 DEF DispatcherRefused, settings, resources, shared, script
<1>23. ASSUME NEW a \in Attempts, DispatcherSignals(a) PROVE ConnectionInv'
  BY <1>23 DEF DispatcherSignals, settings, resources, shared, script
<1>24. ASSUME NEW a \in Attempts, DispatcherReturns(a) PROVE ConnectionInv'
  BY <1>24 DEF DispatcherReturns, settings, resources, handshake, shared, script
<1>25. ASSUME NEW a \in Attempts, HandlerStoresControl(a) PROVE ConnectionInv'
  BY <1>25 DEF HandlerStoresControl, settings, resources, handshake, script
<1>26. ASSUME NEW a \in Attempts, HandlerSetsState(a) PROVE ConnectionInv'
  BY <1>26 DEF HandlerSetsState, Handled, settings, resources, handshake, script
<1>27. ASSUME NEW a \in Attempts, HandlerReports(a) PROVE ConnectionInv'
  BY <1>27 DEF HandlerReports, settings, resources, handshake, shared, script
<1>28. ASSUME NEW a \in Attempts, HandlerReported(a) PROVE ConnectionInv'
  BY <1>28 DEF HandlerReported, settings, resources, handshake, shared, script
<1>29. ASSUME NEW a \in Attempts, NEW c \in Controls, ScmSends(a, c) PROVE ConnectionInv'
  BY <1>29 DEF ScmSends, settings, resources, handshake, shared, script
<1> QED
  BY <1>a, <1>1, <1>2, <1>3, <1>4, <1>5, <1>6, <1>7, <1>8, <1>9, <1>10, <1>11, <1>12, <1>13,
     <1>14, <1>15, <1>16, <1>17, <1>18, <1>19, <1>20, <1>21, <1>22, <1>23, <1>24, <1>25, <1>26,
     <1>27, <1>28, <1>29
     DEF Next, Script, PhpThread, ServiceMain, Dispatcher, Handler, Scm, Ended

\* No copy of the status disagrees with the pause/resume setting.
LEMMA AcceptedFollowsStep ==
  TypeOK /\ StartInv /\ ConnectionInv /\ AcceptedFollows /\ [Next]_vars => AcceptedFollows'
<1> SUFFICES ASSUME TypeOK, StartInv, ConnectionInv, AcceptedFollows, [Next]_vars
             PROVE  AcceptedFollows'
  OBVIOUS
<1> USE DEF
     TypeOK, StartInv, FutureIdle, NullIsIdle, OneAnnouncer, MainAnnounces, AnnouncedIsTrue,
     ResultKnown, MainRuns, Announces, Attempts, Connected, InHandler, ConnectionInv,
     OneConnected, SilentUnlessRegistered, AcceptedFollows, AcceptedAgree, ScmRecords, Recorded,
     Status, ScmStatus, NoStatus
<1>a. CASE UNCHANGED vars
  BY <1>a DEF vars, settings, resources, handshake, shared, script, threads
<1>1. ASSUME NEW b \in BOOLEAN, SetPauseResumeState(b) PROVE AcceptedFollows'
  BY <1>1 DEF SetPauseResumeState, DispatcherRuns, resources, handshake, shared, script, threads
<1>2. ASSUME NEW b \in BOOLEAN, SetExitMode(b) PROVE AcceptedFollows'
  BY <1>2 DEF SetExitMode, resources, handshake, shared, script, threads
<1>3. ASSUME NEW c \in ExitCodes, SetExitCode(c) PROVE AcceptedFollows'
  BY <1>3 DEF SetExitCode, resources, handshake, shared, script, threads
<1>4. ASSUME NEW b \in BOOLEAN, StartDispatcher(b) PROVE AcceptedFollows'
  BY <1>4, ZenonT(60) DEF StartDispatcher, DispatcherRuns, shared
<1>5. ASSUME NEW s \in StatusArgs, NEW cp \in CheckPoints, SetServiceStatus(s, cp)
      PROVE  AcceptedFollows'
  BY <1>5 DEF SetServiceStatus, settings, resources, handshake, threads
<1>6. CASE RequestShutdown
  BY <1>6, ZenonT(60)
     DEF RequestShutdown, NotStopped, WithCodes, settings, resources, handshake, threads
<1>7. CASE StartReturns
  BY <1>7 DEF StartReturns, settings, shared, threads
<1>8. CASE StartTimesOut
  BY <1>8 DEF StartTimesOut, settings, resources, shared, threads
<1>9. CASE StatusReports
  BY <1>9 DEF StatusReports, settings, resources, handshake, shared, threads
<1>10. CASE StatusReported
  BY <1>10 DEF StatusReported, settings, resources, handshake, shared, threads
<1>11. CASE ShutdownSetsState
  BY <1>11 DEF ShutdownSetsState, settings, resources, handshake, threads
<1>12. CASE ShutdownReports
  BY <1>12 DEF ShutdownReports, settings, resources, handshake, shared, threads
<1>13. CASE ShutdownReported
  BY <1>13 DEF ShutdownReported, settings, resources, handshake, shared, threads
<1>14. CASE ShutdownJoins
  BY <1>14 DEF ShutdownJoins, DispatcherRuns, JoinExpires, settings, handshake, shared, threads
<1>15. CASE ShutdownReleases
  BY <1>15 DEF ShutdownReleases, settings, handshake, shared, threads
<1>16. CASE ProcessExits
  BY <1>16 DEF ProcessExits, settings, resources, handshake, shared, threads
<1>17. CASE MainFillsStatus
  BY <1>17 DEF MainFillsStatus, settings, resources, handshake, script
<1>18. CASE MainRegisters
  BY <1>18 DEF MainRegisters, settings, resources, handshake, script
<1>19. CASE MainSetsCode
  BY <1>19 DEF MainSetsCode, MainCode, settings, resources, shared, script
<1>20. CASE MainSignals
  BY <1>20 DEF MainSignals, settings, resources, shared, script
<1>21. ASSUME NEW a \in Attempts, DispatcherConnects(a) PROVE AcceptedFollows'
  BY <1>21 DEF DispatcherConnects, settings, resources, handshake, shared, script
<1>22. ASSUME NEW a \in Attempts, DispatcherRefused(a) PROVE AcceptedFollows'
  BY <1>22 DEF DispatcherRefused, settings, resources, shared, script
<1>23. ASSUME NEW a \in Attempts, DispatcherSignals(a) PROVE AcceptedFollows'
  BY <1>23 DEF DispatcherSignals, settings, resources, shared, script
<1>24. ASSUME NEW a \in Attempts, DispatcherReturns(a) PROVE AcceptedFollows'
  BY <1>24 DEF DispatcherReturns, settings, resources, handshake, shared, script
<1>25. ASSUME NEW a \in Attempts, HandlerStoresControl(a) PROVE AcceptedFollows'
  BY <1>25 DEF HandlerStoresControl, settings, resources, handshake, script
<1>26. ASSUME NEW a \in Attempts, HandlerSetsState(a) PROVE AcceptedFollows'
  BY <1>26 DEF HandlerSetsState, Handled, settings, resources, handshake, script
<1>27. ASSUME NEW a \in Attempts, HandlerReports(a) PROVE AcceptedFollows'
  BY <1>27 DEF HandlerReports, settings, resources, handshake, shared, script
<1>28. ASSUME NEW a \in Attempts, HandlerReported(a) PROVE AcceptedFollows'
  BY <1>28 DEF HandlerReported, settings, resources, handshake, shared, script
<1>29. ASSUME NEW a \in Attempts, NEW c \in Controls, ScmSends(a, c) PROVE AcceptedFollows'
  BY <1>29 DEF ScmSends, settings, resources, handshake, shared, script
<1> QED
  BY <1>a, <1>1, <1>2, <1>3, <1>4, <1>5, <1>6, <1>7, <1>8, <1>9, <1>10, <1>11, <1>12, <1>13,
     <1>14, <1>15, <1>16, <1>17, <1>18, <1>19, <1>20, <1>21, <1>22, <1>23, <1>24, <1>25, <1>26,
     <1>27, <1>28, <1>29
     DEF Next, Script, PhpThread, ServiceMain, Dispatcher, Handler, Scm, Ended

\* Only the shutdown stores exit codes, and no setting changes after it.
LEMMA CodesFollowStep == TypeOK /\ CodesFollow /\ [Next]_vars => CodesFollow'
<1> SUFFICES ASSUME TypeOK, CodesFollow, [Next]_vars PROVE CodesFollow'
  OBVIOUS
<1> USE DEF
     TypeOK, CodesFollow, CodesFromShutdown, ShuttingDown, ScmRecords, Recorded, Status,
     ScmStatus, NoStatus
<1>a. CASE UNCHANGED vars
  BY <1>a DEF vars, settings, resources, handshake, shared, script, threads
<1>1. ASSUME NEW b \in BOOLEAN, SetPauseResumeState(b) PROVE CodesFollow'
  BY <1>1 DEF SetPauseResumeState, DispatcherRuns, resources, handshake, shared, script, threads
<1>2. ASSUME NEW b \in BOOLEAN, SetExitMode(b) PROVE CodesFollow'
  BY <1>2 DEF SetExitMode, resources, handshake, shared, script, threads
<1>3. ASSUME NEW c \in ExitCodes, SetExitCode(c) PROVE CodesFollow'
  BY <1>3 DEF SetExitCode, resources, handshake, shared, script, threads
<1>4. ASSUME NEW b \in BOOLEAN, StartDispatcher(b) PROVE CodesFollow'
  BY <1>4 DEF StartDispatcher, DispatcherRuns, shared
<1>5. ASSUME NEW s \in StatusArgs, NEW cp \in CheckPoints, SetServiceStatus(s, cp)
      PROVE  CodesFollow'
  BY <1>5 DEF SetServiceStatus, settings, resources, handshake, threads
<1>6. CASE RequestShutdown
  BY <1>6 DEF RequestShutdown, NotStopped, WithCodes, settings, resources, handshake, threads
<1>7. CASE StartReturns
  BY <1>7 DEF StartReturns, settings, shared, threads
<1>8. CASE StartTimesOut
  BY <1>8 DEF StartTimesOut, settings, resources, shared, threads
<1>9. CASE StatusReports
  BY <1>9 DEF StatusReports, settings, resources, handshake, shared, threads
<1>10. CASE StatusReported
  BY <1>10 DEF StatusReported, settings, resources, handshake, shared, threads
<1>11. CASE ShutdownSetsState
  BY <1>11 DEF ShutdownSetsState, settings, resources, handshake, threads
<1>12. CASE ShutdownReports
  BY <1>12 DEF ShutdownReports, settings, resources, handshake, shared, threads
<1>13. CASE ShutdownReported
  BY <1>13 DEF ShutdownReported, settings, resources, handshake, shared, threads
<1>14. CASE ShutdownJoins
  BY <1>14 DEF ShutdownJoins, DispatcherRuns, JoinExpires, settings, handshake, shared, threads
<1>15. CASE ShutdownReleases
  BY <1>15 DEF ShutdownReleases, settings, handshake, shared, threads
<1>16. CASE ProcessExits
  BY <1>16 DEF ProcessExits, settings, resources, handshake, shared, threads
<1>17. CASE MainFillsStatus
  BY <1>17 DEF MainFillsStatus, settings, resources, handshake, script
<1>18. CASE MainRegisters
  BY <1>18 DEF MainRegisters, settings, resources, handshake, script
<1>19. CASE MainSetsCode
  BY <1>19 DEF MainSetsCode, MainCode, settings, resources, shared, script
<1>20. CASE MainSignals
  BY <1>20 DEF MainSignals, settings, resources, shared, script
<1>21. ASSUME NEW a \in Attempts, DispatcherConnects(a) PROVE CodesFollow'
  BY <1>21 DEF DispatcherConnects, settings, resources, handshake, shared, script
<1>22. ASSUME NEW a \in Attempts, DispatcherRefused(a) PROVE CodesFollow'
  BY <1>22 DEF DispatcherRefused, settings, resources, shared, script
<1>23. ASSUME NEW a \in Attempts, DispatcherSignals(a) PROVE CodesFollow'
  BY <1>23 DEF DispatcherSignals, settings, resources, shared, script
<1>24. ASSUME NEW a \in Attempts, DispatcherReturns(a) PROVE CodesFollow'
  BY <1>24 DEF DispatcherReturns, settings, resources, handshake, shared, script
<1>25. ASSUME NEW a \in Attempts, HandlerStoresControl(a) PROVE CodesFollow'
  BY <1>25 DEF HandlerStoresControl, settings, resources, handshake, script
<1>26. ASSUME NEW a \in Attempts, HandlerSetsState(a) PROVE CodesFollow'
  BY <1>26 DEF HandlerSetsState, Handled, settings, resources, handshake, script
<1>27. ASSUME NEW a \in Attempts, HandlerReports(a) PROVE CodesFollow'
  BY <1>27 DEF HandlerReports, settings, resources, handshake, shared, script
<1>28. ASSUME NEW a \in Attempts, HandlerReported(a) PROVE CodesFollow'
  BY <1>28 DEF HandlerReported, settings, resources, handshake, shared, script
<1>29. ASSUME NEW a \in Attempts, NEW c \in Controls, ScmSends(a, c) PROVE CodesFollow'
  BY <1>29 DEF ScmSends, settings, resources, handshake, shared, script
<1> QED
  BY <1>a, <1>1, <1>2, <1>3, <1>4, <1>5, <1>6, <1>7, <1>8, <1>9, <1>10, <1>11, <1>12, <1>13,
     <1>14, <1>15, <1>16, <1>17, <1>18, <1>19, <1>20, <1>21, <1>22, <1>23, <1>24, <1>25, <1>26,
     <1>27, <1>28, <1>29
     DEF Next, Script, PhpThread, ServiceMain, Dispatcher, Handler, Scm, Ended

\* The dispatcher thread that has been joined stays ended.
LEMMA JoinedIsDoneStep ==
  TypeOK /\ StartInv /\ ConnectionInv /\ JoinedIsDone /\ [Next]_vars => JoinedIsDone'
<1> SUFFICES ASSUME TypeOK, StartInv, ConnectionInv, JoinedIsDone, [Next]_vars PROVE JoinedIsDone'
  OBVIOUS
<1> USE DEF
     TypeOK, StartInv, FutureIdle, NullIsIdle, OneAnnouncer, MainAnnounces, AnnouncedIsTrue,
     ResultKnown, MainRuns, Announces, Attempts, Connected, InHandler, ConnectionInv,
     OneConnected, SilentUnlessRegistered, JoinedIsDone
<1>a. CASE UNCHANGED vars
  BY <1>a DEF vars, settings, resources, handshake, shared, script, threads
<1>1. ASSUME NEW b \in BOOLEAN, SetPauseResumeState(b) PROVE JoinedIsDone'
  BY <1>1 DEF SetPauseResumeState, DispatcherRuns, resources, handshake, shared, script, threads
<1>2. ASSUME NEW b \in BOOLEAN, SetExitMode(b) PROVE JoinedIsDone'
  BY <1>2 DEF SetExitMode, resources, handshake, shared, script, threads
<1>3. ASSUME NEW c \in ExitCodes, SetExitCode(c) PROVE JoinedIsDone'
  BY <1>3 DEF SetExitCode, resources, handshake, shared, script, threads
<1>4. ASSUME NEW b \in BOOLEAN, StartDispatcher(b) PROVE JoinedIsDone'
  BY <1>4 DEF StartDispatcher, DispatcherRuns, shared
<1>5. ASSUME NEW s \in StatusArgs, NEW cp \in CheckPoints, SetServiceStatus(s, cp)
      PROVE  JoinedIsDone'
  BY <1>5 DEF SetServiceStatus, settings, resources, handshake, threads
<1>6. CASE RequestShutdown
  BY <1>6 DEF RequestShutdown, NotStopped, WithCodes, settings, resources, handshake, threads
<1>7. CASE StartReturns
  BY <1>7 DEF StartReturns, settings, shared, threads
<1>8. CASE StartTimesOut
  BY <1>8 DEF StartTimesOut, settings, resources, shared, threads
<1>9. CASE StatusReports
  BY <1>9 DEF StatusReports, settings, resources, handshake, shared, threads
<1>10. CASE StatusReported
  BY <1>10 DEF StatusReported, settings, resources, handshake, shared, threads
<1>11. CASE ShutdownSetsState
  BY <1>11 DEF ShutdownSetsState, settings, resources, handshake, threads
<1>12. CASE ShutdownReports
  BY <1>12 DEF ShutdownReports, settings, resources, handshake, shared, threads
<1>13. CASE ShutdownReported
  BY <1>13 DEF ShutdownReported, settings, resources, handshake, shared, threads
<1>14. CASE ShutdownJoins
  <2>1. CASE svc_thread = "null" /\ svc_thread' = "null"
    BY <1>14, <2>1 DEF ShutdownJoins, DispatcherRuns, JoinExpires
  <2>2. CASE svc_thread # "null" /\ disp[attempt] = "done"
    BY <1>14, <2>2 DEF ShutdownJoins, DispatcherRuns, JoinExpires, threads
  <2>3. CASE svc_thread # "null" /\ disp[attempt] # "done"
    BY <1>14, <2>3 DEF ShutdownJoins, DispatcherRuns, JoinExpires
  <2> QED
    BY <1>14, <2>1, <2>2, <2>3 DEF ShutdownJoins, DispatcherRuns, JoinExpires
<1>15. CASE ShutdownReleases
  BY <1>15 DEF ShutdownReleases, settings, handshake, shared, threads
<1>16. CASE ProcessExits
  BY <1>16 DEF ProcessExits, settings, resources, handshake, shared, threads
<1>17. CASE MainFillsStatus
  BY <1>17 DEF MainFillsStatus, settings, resources, handshake, script
<1>18. CASE MainRegisters
  BY <1>18 DEF MainRegisters, settings, resources, handshake, script
<1>19. CASE MainSetsCode
  BY <1>19 DEF MainSetsCode, MainCode, settings, resources, shared, script
<1>20. CASE MainSignals
  BY <1>20 DEF MainSignals, settings, resources, shared, script
<1>21. ASSUME NEW a \in Attempts, DispatcherConnects(a) PROVE JoinedIsDone'
  BY <1>21 DEF DispatcherConnects, settings, resources, handshake, shared, script
<1>22. ASSUME NEW a \in Attempts, DispatcherRefused(a) PROVE JoinedIsDone'
  BY <1>22 DEF DispatcherRefused, settings, resources, shared, script
<1>23. ASSUME NEW a \in Attempts, DispatcherSignals(a) PROVE JoinedIsDone'
  BY <1>23 DEF DispatcherSignals, settings, resources, shared, script
<1>24. ASSUME NEW a \in Attempts, DispatcherReturns(a) PROVE JoinedIsDone'
  BY <1>24 DEF DispatcherReturns, settings, resources, handshake, shared, script
<1>25. ASSUME NEW a \in Attempts, HandlerStoresControl(a) PROVE JoinedIsDone'
  BY <1>25 DEF HandlerStoresControl, settings, resources, handshake, script
<1>26. ASSUME NEW a \in Attempts, HandlerSetsState(a) PROVE JoinedIsDone'
  BY <1>26 DEF HandlerSetsState, Handled, settings, resources, handshake, script
<1>27. ASSUME NEW a \in Attempts, HandlerReports(a) PROVE JoinedIsDone'
  BY <1>27 DEF HandlerReports, settings, resources, handshake, shared, script
<1>28. ASSUME NEW a \in Attempts, HandlerReported(a) PROVE JoinedIsDone'
  BY <1>28 DEF HandlerReported, settings, resources, handshake, shared, script
<1>29. ASSUME NEW a \in Attempts, NEW c \in Controls, ScmSends(a, c) PROVE JoinedIsDone'
  BY <1>29 DEF ScmSends, settings, resources, handshake, shared, script
<1> QED
  BY <1>a, <1>1, <1>2, <1>3, <1>4, <1>5, <1>6, <1>7, <1>8, <1>9, <1>10, <1>11, <1>12, <1>13,
     <1>14, <1>15, <1>16, <1>17, <1>18, <1>19, <1>20, <1>21, <1>22, <1>23, <1>24, <1>25, <1>26,
     <1>27, <1>28, <1>29
     DEF Next, Script, PhpThread, ServiceMain, Dispatcher, Handler, Scm, Ended

\* A state that is not the caller's is a stop on its way, or arrived.
LEMMA StopToldStep ==
  TypeOK /\ StartInv /\ ConnectionInv /\ StopTold /\ [Next]_vars => StopTold'
<1> SUFFICES ASSUME TypeOK, StartInv, ConnectionInv, StopTold, [Next]_vars PROVE StopTold'
  OBVIOUS
<1> USE DEF
     TypeOK, StartInv, FutureIdle, NullIsIdle, OneAnnouncer, MainAnnounces, AnnouncedIsTrue,
     ResultKnown, MainRuns, Announces, Attempts, Connected, InHandler, ConnectionInv,
     OneConnected, SilentUnlessRegistered, StopTold, StopPassed, ScmRecords, Recorded, ScmEnded,
     Status, ScmStatus, NoStatus, States, Pending, Live, Sendable, ControlCodes
<1>a. CASE UNCHANGED vars
  BY <1>a DEF vars, settings, resources, handshake, shared, script, threads
<1>1. ASSUME NEW b \in BOOLEAN, SetPauseResumeState(b) PROVE StopTold'
  BY <1>1 DEF SetPauseResumeState, DispatcherRuns, resources, handshake, shared, script, threads
<1>2. ASSUME NEW b \in BOOLEAN, SetExitMode(b) PROVE StopTold'
  BY <1>2 DEF SetExitMode, resources, handshake, shared, script, threads
<1>3. ASSUME NEW c \in ExitCodes, SetExitCode(c) PROVE StopTold'
  BY <1>3 DEF SetExitCode, resources, handshake, shared, script, threads
<1>4. ASSUME NEW b \in BOOLEAN, StartDispatcher(b) PROVE StopTold'
  <2>1. startResult' # "true" /\ UNCHANGED <<lastControl, ctl>>
    BY <1>4 DEF StartDispatcher, DispatcherRuns, shared
  <2>2. \A a \in Attempts : disp'[a] = "handlerState" => disp[a] = "handlerState"
    BY <1>4 DEF StartDispatcher, DispatcherRuns
  <2> QED
    BY <2>1, <2>2
<1>5. ASSUME NEW s \in StatusArgs, NEW cp \in CheckPoints, SetServiceStatus(s, cp) PROVE StopTold'
  BY <1>5 DEF SetServiceStatus, settings, resources, handshake, threads
<1>6. CASE RequestShutdown
  BY <1>6 DEF RequestShutdown, NotStopped, WithCodes, settings, resources, handshake, threads
<1>7. CASE StartReturns
  BY <1>7 DEF StartReturns, settings, shared, threads
<1>8. CASE StartTimesOut
  BY <1>8 DEF StartTimesOut, settings, resources, shared, threads
<1>9. CASE StatusReports
  BY <1>9 DEF StatusReports, settings, resources, handshake, shared, threads
<1>10. CASE StatusReported
  BY <1>10 DEF StatusReported, settings, resources, handshake, shared, threads
<1>11. CASE ShutdownSetsState
  BY <1>11 DEF ShutdownSetsState, settings, resources, handshake, threads
<1>12. CASE ShutdownReports
  BY <1>12 DEF ShutdownReports, settings, resources, handshake, shared, threads
<1>13. CASE ShutdownReported
  BY <1>13 DEF ShutdownReported, settings, resources, handshake, shared, threads
<1>14. CASE ShutdownJoins
  BY <1>14 DEF ShutdownJoins, DispatcherRuns, JoinExpires, settings, handshake, shared, threads
<1>15. CASE ShutdownReleases
  BY <1>15 DEF ShutdownReleases, settings, handshake, shared, threads
<1>16. CASE ProcessExits
  BY <1>16 DEF ProcessExits, settings, resources, handshake, shared, threads
<1>17. CASE MainFillsStatus
  BY <1>17 DEF MainFillsStatus, settings, resources, handshake, script
<1>18. CASE MainRegisters
  BY <1>18 DEF MainRegisters, settings, resources, handshake, script
<1>19. CASE MainSetsCode
  BY <1>19 DEF MainSetsCode, MainCode, settings, resources, shared, script
<1>20. CASE MainSignals
  BY <1>20 DEF MainSignals, settings, resources, shared, script
<1>21. ASSUME NEW a \in Attempts, DispatcherConnects(a) PROVE StopTold'
  BY <1>21 DEF DispatcherConnects, settings, resources, handshake, shared, script
<1>22. ASSUME NEW a \in Attempts, DispatcherRefused(a) PROVE StopTold'
  BY <1>22 DEF DispatcherRefused, settings, resources, shared, script
<1>23. ASSUME NEW a \in Attempts, DispatcherSignals(a) PROVE StopTold'
  BY <1>23 DEF DispatcherSignals, settings, resources, shared, script
<1>24. ASSUME NEW a \in Attempts, DispatcherReturns(a) PROVE StopTold'
  BY <1>24 DEF DispatcherReturns, settings, resources, handshake, shared, script
<1>25. ASSUME NEW a \in Attempts, HandlerStoresControl(a) PROVE StopTold'
  BY <1>25 DEF HandlerStoresControl, settings, resources, handshake, script
<1>26. ASSUME NEW a \in Attempts, HandlerSetsState(a) PROVE StopTold'
  BY <1>26 DEF HandlerSetsState, Handled, settings, resources, handshake, script
<1>27. ASSUME NEW a \in Attempts, HandlerReports(a) PROVE StopTold'
  <2>1. /\ disp[a] = "handlerCall" /\ disp' = [disp EXCEPT ![a] = "handlerRpc"] /\ htold' = st
        /\ UNCHANGED <<lastControl, ctl, startResult, php, st, told, asked, scm>>
    BY <1>27 DEF HandlerReports, handshake, shared, script
  <2>2. \A b \in Attempts : disp[b] \in Connected => b = a
    BY <2>1
  <2>3. StopPassed /\ st.state = "STOP_PENDING" => StopPassed'
    BY <2>1, <2>2
  <2> QED
    BY <2>1, <2>3
<1>28. ASSUME NEW a \in Attempts, HandlerReported(a) PROVE StopTold'
  BY <1>28 DEF HandlerReported, settings, resources, handshake, shared, script
<1>29. ASSUME NEW a \in Attempts, NEW c \in Controls, ScmSends(a, c) PROVE StopTold'
  BY <1>29 DEF ScmSends, settings, resources, handshake, shared, script
<1> QED
  BY <1>a, <1>1, <1>2, <1>3, <1>4, <1>5, <1>6, <1>7, <1>8, <1>9, <1>10, <1>11, <1>12, <1>13,
     <1>14, <1>15, <1>16, <1>17, <1>18, <1>19, <1>20, <1>21, <1>22, <1>23, <1>24, <1>25, <1>26,
     <1>27, <1>28, <1>29
     DEF Next, Script, PhpThread, ServiceMain, Dispatcher, Handler, Scm, Ended

-----------------------------------------------------------------------------
(* What a script relies on that has reported STOPPED.                      *)

\* A service whose process has ended without a report of STOPPED has no thread left.
AbortedIsGone == scm.state = "ABORTED" => php = "gone"

Late == {"STOP_PENDING", "STOPPED"}

AfterReport == {"rsJoin", "rsRelease", "released", "gone"}

\* A stop that came after the script's own report of STOPPED: no other can follow it.
StopCame ==
  /\ \A a \in Attempts :
       /\ disp[a] \notin {"handler", "handlerState"}
       /\ disp[a] = "handlerRpc" => htold.state \in Late
  /\ \/ \E a \in Attempts : disp[a] \in {"handlerCall", "handlerRpc"}
     \/ scm.state \in Late

\* Until the SCM has recorded it, a STOPPED the script has asked for, or that of the
\* shutdown which repairs it, is stored or on its way.
StopGoes ==
  scm.state # "STOPPED" =>
    /\ php = "status" => asked = "STOPPED" /\ st.state \in Late
    /\ php = "statusRpc" => asked = "STOPPED" /\ told.state \in Late
    /\ php \in {"run", "rsState"} => st.state = "STOP_PENDING" /\ StopCame
    /\ php = "rsCall" => st.state = "STOPPED" /\ StopCame
    /\ php = "rsRpc" => told.state = "STOPPED"
    /\ php \notin AfterReport

\* ABORTED is recorded when the process ends, and by no report.
LEMMA AbortedIsGoneStep == ASSUME AbortedIsGone, [Next]_vars PROVE AbortedIsGone'
<1> USE DEF AbortedIsGone, ScmRecords, Recorded, States, Pending, Live, ProcessAlive
<1>a. CASE UNCHANGED vars
  BY <1>a DEF vars, settings, resources, handshake, shared, script, threads
<1>1. ASSUME NEW b \in BOOLEAN, SetPauseResumeState(b) PROVE AbortedIsGone'
  BY <1>1 DEF SetPauseResumeState, DispatcherRuns, resources, handshake, shared, script, threads
<1>2. ASSUME NEW b \in BOOLEAN, SetExitMode(b) PROVE AbortedIsGone'
  BY <1>2 DEF SetExitMode, resources, handshake, shared, script, threads
<1>3. ASSUME NEW c \in ExitCodes, SetExitCode(c) PROVE AbortedIsGone'
  BY <1>3 DEF SetExitCode, resources, handshake, shared, script, threads
<1>4. ASSUME NEW b \in BOOLEAN, StartDispatcher(b) PROVE AbortedIsGone'
  BY <1>4 DEF StartDispatcher, DispatcherRuns, shared
<1>5. ASSUME NEW s \in StatusArgs, NEW cp \in CheckPoints, SetServiceStatus(s, cp) PROVE AbortedIsGone'
  BY <1>5 DEF SetServiceStatus, settings, resources, handshake, threads
<1>6. CASE RequestShutdown
  BY <1>6 DEF RequestShutdown, NotStopped, WithCodes, settings, resources, handshake, threads
<1>7. CASE StartReturns
  BY <1>7 DEF StartReturns, settings, shared, threads
<1>8. CASE StartTimesOut
  BY <1>8 DEF StartTimesOut, settings, resources, shared, threads
<1>9. CASE StatusReports
  BY <1>9 DEF StatusReports, settings, resources, handshake, shared, threads
<1>10. CASE StatusReported
  BY <1>10 DEF StatusReported, settings, resources, handshake, shared, threads
<1>11. CASE ShutdownSetsState
  BY <1>11 DEF ShutdownSetsState, settings, resources, handshake, threads
<1>12. CASE ShutdownReports
  BY <1>12 DEF ShutdownReports, settings, resources, handshake, shared, threads
<1>13. CASE ShutdownReported
  BY <1>13 DEF ShutdownReported, settings, resources, handshake, shared, threads
<1>14. CASE ShutdownJoins
  BY <1>14 DEF ShutdownJoins, settings, handshake, shared, threads
<1>15. CASE ShutdownReleases
  BY <1>15 DEF ShutdownReleases, settings, handshake, shared, threads
<1>16. CASE ProcessExits
  BY <1>16 DEF ProcessExits, settings, resources, handshake, shared, threads
<1>17. CASE MainFillsStatus
  BY <1>17 DEF MainFillsStatus, settings, resources, handshake, script
<1>18. CASE MainRegisters
  BY <1>18 DEF MainRegisters, settings, resources, handshake, script
<1>19. CASE MainSetsCode
  BY <1>19 DEF MainSetsCode, settings, resources, shared, script
<1>20. CASE MainSignals
  BY <1>20 DEF MainSignals, settings, resources, shared, script
<1>21. ASSUME NEW a \in Attempts, DispatcherConnects(a) PROVE AbortedIsGone'
  BY <1>21 DEF DispatcherConnects, settings, resources, handshake, shared, script
<1>22. ASSUME NEW a \in Attempts, DispatcherRefused(a) PROVE AbortedIsGone'
  BY <1>22 DEF DispatcherRefused, settings, resources, shared, script
<1>23. ASSUME NEW a \in Attempts, DispatcherSignals(a) PROVE AbortedIsGone'
  BY <1>23 DEF DispatcherSignals, settings, resources, shared, script
<1>24. ASSUME NEW a \in Attempts, DispatcherReturns(a) PROVE AbortedIsGone'
  BY <1>24 DEF DispatcherReturns, settings, resources, handshake, shared, script
<1>25. ASSUME NEW a \in Attempts, HandlerStoresControl(a) PROVE AbortedIsGone'
  BY <1>25 DEF HandlerStoresControl, settings, resources, handshake, script
<1>26. ASSUME NEW a \in Attempts, HandlerSetsState(a) PROVE AbortedIsGone'
  BY <1>26 DEF HandlerSetsState, Handled, settings, resources, handshake, script
<1>27. ASSUME NEW a \in Attempts, HandlerReports(a) PROVE AbortedIsGone'
  BY <1>27 DEF HandlerReports, settings, resources, handshake, shared, script
<1>28. ASSUME NEW a \in Attempts, HandlerReported(a) PROVE AbortedIsGone'
  BY <1>28 DEF HandlerReported, settings, resources, handshake, shared, script
<1>29. ASSUME NEW a \in Attempts, NEW c \in Controls, ScmSends(a, c) PROVE AbortedIsGone'
  BY <1>29 DEF ScmSends, settings, resources, handshake, shared, script
<1> QED
  BY <1>a, <1>1, <1>2, <1>3, <1>4, <1>5, <1>6, <1>7, <1>8, <1>9, <1>10, <1>11, <1>12, <1>13,
     <1>14, <1>15, <1>16, <1>17, <1>18, <1>19, <1>20, <1>21, <1>22, <1>23, <1>24, <1>25, <1>26,
     <1>27, <1>28, <1>29
     DEF Next, Script, PhpThread, ServiceMain, Dispatcher, Handler, Scm, Ended

\* If the script reports no other state after it, its STOPPED reaches the SCM, or the
\* shutdown repairs it.
LEMMA StopGoesStep ==
  ASSUME TypeOK, StartInv, ConnectionInv, StopTold, AbortedIsGone, StopGoes, [Next]_vars,
         startResult = "true", php # "wait", php = "run" => php' # "status"
  PROVE  StopGoes'
<1> USE DEF TypeOK, Status, ScmStatus, NoStatus, AnyState, States, Pending, Live, ProcessAlive,
      ScmEnded, ScmRecords, Recorded, Sendable, Late, AfterReport, AbortedIsGone, StopTold,
      StopPassed, StopCame, StopGoes, StartInv, NullIsIdle, ResultKnown, MainAnnounces, MainRuns,
      ConnectionInv, OneConnected, SilentUnlessRegistered, Connected, InHandler
<1>a. CASE UNCHANGED vars
  BY <1>a DEF vars, settings, resources, handshake, shared, script, threads
<1>1. ASSUME NEW b \in BOOLEAN, SetPauseResumeState(b) PROVE StopGoes'
  BY <1>1 DEF SetPauseResumeState, DispatcherRuns, resources, handshake, shared, script, threads
<1>2. ASSUME NEW b \in BOOLEAN, SetExitMode(b) PROVE StopGoes'
  BY <1>2 DEF SetExitMode, resources, handshake, shared, script, threads
<1>3. ASSUME NEW c \in ExitCodes, SetExitCode(c) PROVE StopGoes'
  BY <1>3 DEF SetExitCode, resources, handshake, shared, script, threads
<1>4. ASSUME NEW b \in BOOLEAN, StartDispatcher(b) PROVE StopGoes'
  BY <1>4 DEF StartDispatcher, DispatcherRuns, shared
<1>5. ASSUME NEW s \in StatusArgs, NEW cp \in CheckPoints, SetServiceStatus(s, cp) PROVE StopGoes'
  BY <1>5 DEF SetServiceStatus, settings, resources, handshake, threads
<1>6. CASE RequestShutdown
  <2>1. st'.state = st.state
    BY <1>6, ZenonT(60) DEF RequestShutdown, WithCodes
  <2> QED
    BY <1>6, <2>1 DEF RequestShutdown, NotStopped, settings, resources, handshake, threads
<1>7. CASE StartReturns
  BY <1>7 DEF StartReturns, settings, shared, threads
<1>8. CASE StartTimesOut
  BY <1>8 DEF StartTimesOut, settings, resources, shared, threads
<1>9. CASE StatusReports
  BY <1>9 DEF StatusReports, settings, resources, handshake, shared, threads
<1>10. CASE StatusReported
  BY <1>10 DEF StatusReported, settings, resources, handshake, shared, threads
<1>11. CASE ShutdownSetsState
  BY <1>11 DEF ShutdownSetsState, settings, resources, handshake, threads
<1>12. CASE ShutdownReports
  BY <1>12 DEF ShutdownReports, settings, resources, handshake, shared, threads
<1>13. CASE ShutdownReported
  BY <1>13 DEF ShutdownReported, settings, resources, handshake, shared, threads
<1>14. CASE ShutdownJoins
  BY <1>14 DEF ShutdownJoins, settings, handshake, shared, threads
<1>15. CASE ShutdownReleases
  BY <1>15 DEF ShutdownReleases, settings, handshake, shared, threads
<1>16. CASE ProcessExits
  BY <1>16 DEF ProcessExits, settings, resources, handshake, shared, threads
<1>17. CASE MainFillsStatus
  BY <1>17 DEF MainFillsStatus, settings, resources, handshake, script
<1>18. CASE MainRegisters
  BY <1>18 DEF MainRegisters, settings, resources, handshake, script
<1>19. CASE MainSetsCode
  BY <1>19 DEF MainSetsCode, settings, resources, shared, script
<1>20. CASE MainSignals
  BY <1>20 DEF MainSignals, settings, resources, shared, script
<1>21. ASSUME NEW a \in Attempts, DispatcherConnects(a) PROVE StopGoes'
  BY <1>21 DEF DispatcherConnects, settings, resources, handshake, shared, script
<1>22. ASSUME NEW a \in Attempts, DispatcherRefused(a) PROVE StopGoes'
  BY <1>22 DEF DispatcherRefused, settings, resources, shared, script
<1>23. ASSUME NEW a \in Attempts, DispatcherSignals(a) PROVE StopGoes'
  BY <1>23 DEF DispatcherSignals, settings, resources, shared, script
<1>24. ASSUME NEW a \in Attempts, DispatcherReturns(a) PROVE StopGoes'
  BY <1>24 DEF DispatcherReturns, settings, resources, handshake, shared, script
<1>25. ASSUME NEW a \in Attempts, HandlerStoresControl(a) PROVE StopGoes'
  BY <1>25 DEF HandlerStoresControl, settings, resources, handshake, script
<1>26. ASSUME NEW a \in Attempts, HandlerSetsState(a) PROVE StopGoes'
  BY <1>26 DEF HandlerSetsState, Handled, settings, resources, handshake, script
<1>27. ASSUME NEW a \in Attempts, HandlerReports(a) PROVE StopGoes'
  BY <1>27 DEF HandlerReports, settings, resources, handshake, shared, script
<1>28. ASSUME NEW a \in Attempts, HandlerReported(a) PROVE StopGoes'
  BY <1>28 DEF HandlerReported, settings, resources, handshake, shared, script
<1>29. ASSUME NEW a \in Attempts, NEW c \in Controls, ScmSends(a, c) PROVE StopGoes'
  BY <1>29 DEF ScmSends, settings, resources, handshake, shared, script
<1> QED
  BY <1>a, <1>1, <1>2, <1>3, <1>4, <1>5, <1>6, <1>7, <1>8, <1>9, <1>10, <1>11, <1>12, <1>13,
     <1>14, <1>15, <1>16, <1>17, <1>18, <1>19, <1>20, <1>21, <1>22, <1>23, <1>24, <1>25, <1>26,
     <1>27, <1>28, <1>29
     DEF Next, Script, PhpThread, ServiceMain, Dispatcher, Handler, Scm, Ended

-----------------------------------------------------------------------------
(* The theorems.                                                           *)

\* The inductive invariant behind the theorems below.
THEOREM InductiveInvariant == Spec => []IInv
<1>1. Init => IInv
  BY InitTyped, InvInit DEF IInv
<1>2. IInv /\ [Next]_vars => IInv'
  BY NextTyped, StartInvStep, ConnectionInvStep, AcceptedFollowsStep, CodesFollowStep,
     JoinedIsDoneStep, StopToldStep
     DEF IInv
<1> QED
  BY <1>1, <1>2, PTL DEF Spec

\* win32_start_service_ctrl_dispatcher returns TRUE only if the control handler is
\* registered and throws only if it is not, after any number of failed attempts.
THEOREM StartResult == Spec => []StartResultSound
<1>1. IInv => StartResultSound
  BY DEF IInv, StartInv, ResultKnown, NullIsIdle, StartResultSound
<1> QED
  BY <1>1, InductiveInvariant, PTL

\* The controls the SCM was told to deliver are those of the pause/resume setting.
THEOREM AcceptedControls == Spec => []AcceptedAgree
<1>1. IInv => AcceptedAgree
  BY DEF IInv, AcceptedFollows
<1> QED
  BY <1>1, InductiveInvariant, PTL

\* A report of the PHP thread tells the state its caller stored, or a stop that came
\* in between and that the script can still read.
THEOREM ReportsAreTrue == Spec => []ToldUnlessStopped
<1>1. IInv => ToldUnlessStopped
  BY DEF IInv, StopTold, StopPassed, ToldUnlessStopped
<1> QED
  BY <1>1, InductiveInvariant, PTL

\* The shutdown frees nothing that a thread still uses unless a wait has expired.
THEOREM ReleaseSafety == Spec => []ReleaseIsSafe
<1>1. ASSUME IInv, php = "released", startResult # "false", ~joinExpired
      PROVE  main \in {"none", "done"} /\ \A a \in Attempts : ~Announces(a)
  BY <1>1 DEF IInv, TypeOK, StartInv, ResultKnown, NullIsIdle, OneAnnouncer, MainAnnounces,
              MainRuns, Announces, MainAt
<1>2. ASSUME IInv, php = "released", ~joinExpired, NEW a \in Attempts
      PROVE  disp[a] \notin InHandler
  <2>1. CASE svc_thread = "null"
    BY <1>2, <2>1 DEF IInv, StartInv, NullIsIdle, ConnectionInv, SilentUnlessRegistered
  <2>2. CASE disp[attempt] = "done"
    <3>1. disp[a] \in InHandler => sh /\ disp[a] \in Connected
      BY <1>2 DEF IInv, ConnectionInv, SilentUnlessRegistered, Connected
    <3> QED
      BY <1>2, <2>2, <3>1 DEF IInv, ConnectionInv, OneConnected, InHandler
  <2> QED
    BY <1>2, <2>1, <2>2 DEF IInv, JoinedIsDone
<1>3. IInv => ReleaseIsSafe
  BY <1>1, <1>2 DEF ReleaseIsSafe, Announces
<1> QED
  BY <1>3, InductiveInvariant, PTL

\* A recorded error code is the one the script chose, cut to a DWORD, and only of a
\* script that chose the non-graceful exit.
THEOREM ExitCodeIsTheScripts == Spec => []ExitCodeExplained
<1>1. IInv => ExitCodeExplained
  BY DEF IInv, CodesFollow, CodesFromShutdown, ExitCodeExplained
<1> QED
  BY <1>1, InductiveInvariant, PTL
=============================================================================
