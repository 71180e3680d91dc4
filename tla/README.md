# A formal model of win32service

win32service is a PHP extension (C, Windows only) with which a PHP script can *be* a
Windows service, and can *manage* services: create, delete, start, stop and query them,
change their environment variables and their access rights.  This directory models the
parts of it whose correctness depends on the order of events: TLA+ modules, TLC
configurations, and proofs checked by TLAPS.  Source paths below are relative to the
repository; `:n` is a line of `win32service.c` unless a file is named.

    tlc -config service_process.cfg ServiceProcess     # any row of the table of runs
    for m in *Proofs.tla; do tlapm $m; done            # all proofs

## 1. Inventory

### Components

| component | state it keeps | operations | modelled by |
|---|---|---|---|
| **Service process**: dispatcher thread, `service_main`, `service_handler`, the functions a service script calls, RSHUTDOWN (:46-130, :283-452, :1218-1234, :1746-1754, :1976-2009) | the module globals `zend_win32service_globals`, one copy, shared by three threads; the SCM's record of the service | `win32_start_service_ctrl_dispatcher`, `win32_set_service_status`, `win32_get_last_control_message`, `win32_set_service_pause_resume_state`, `win32_set_service_exit_mode`, `win32_set_service_exit_code`; callbacks of the SCM; end of the request | `ServiceProcess`, proofs in `ServiceProcessProofs` |
| **Service scripts** (`examples/sample.php`, `tests/running/run.php`) | where the script is | configure, start, report, poll, end | `PollingService`, and `ServiceLifecycle`, what others see of it; proofs in `PollingServiceProofs` |
| **Script with a state table** (`examples/service.php`) | `paused`, and the state the last query saw | pause, continue, answer, complete a change, stop | `ControlledService`, proofs in `ControlledServiceProofs` |
| **Environment block** (`win32service_registry.c:66-193`) | none: functions on a `REG_MULTI_SZ` block | read, add or replace, remove | `EnvBlock`, proofs in `EnvBlockProofs` and `FlattenProofs` |
| **Environment functions** (`:1349-1584`, `win32service_registry.c:24-63`) | the registry value `Environment` of a service, shared by every process of the machine | get, add, remove | `EnvRegistry`, `MCEnvRegistry`; proofs in `EnvRegistryProofs` |
| **Service manager functions** (:1019-1343, :1589-1700) | the SCM's database; per call two handles | create, delete, exists, query, start, stop, pause, continue, send custom control | `ServiceManager`, `MCServiceManager`; proofs in `ServiceManagerProofs` |
| **Creation parameters** (:749-1018) | none | validation and conversion of an array | `CreateParams`, used by `ServiceManager` |
| **Access rights** (`win32service_right.c`, :455-747) | the access list of a service, shared by every process of the machine | read one account, read all, add, remove | `AccessRights`, `MCAccessRights`, and `AccessList`, what a change promises; proofs in `AccessRightsProofs` |
| **RightInfo class** (`win32service_right_info.c`) | immutable object | getters, `isGrantAccess`, serialisation | `RightInfo` |
| **Error conversion, constants, MINFO** | none | table look-up | no state: left out |
| **Build files, stubs, IDE files** | none | - | no run-time behaviour: left out |

### How they interact

A service script runs on the PHP thread.  `win32_start_service_ctrl_dispatcher` creates a
*dispatcher thread*, which hands itself to Windows (`StartServiceCtrlDispatcher`).  Windows
creates the `service_main` thread, which registers `service_handler` and returns.  Controls
arrive on the dispatcher thread as calls of the handler.  All three threads read and write
the same globals with no lock; `g->event` with its 30 s wait (:323) and the 10 s wait for the
thread (:1998) are the only synchronisation.  A control is stored in one slot
(`g->args.dwControl`), and the script polls it.

The managing functions run in other processes.  They share with the service only what the
SCM and the registry hold: the service database, the state of the service, its environment
value and its access list.

### What is hard

* *Interleaving without a lock.*  The handler stores `STOP_PENDING` (:58) in the structure
  the PHP thread is filling or reporting (:440, :1993).
* *Announcing a start.*  `g->code` and `g->event` may be set by `service_main` or by the
  dispatcher thread, after a time-out, or for an attempt that has been given up.
* *Waits that expire.*  RSHUTDOWN closes the event and frees the name whether or not the
  thread has ended.
* *One slot.*  A control replaces the one before it when the script has not polled.
* *State of the last report.*  Checkpoints, accepted controls and codes stay in the
  structure from one report to the next.
* *Reports that cross.*  The handler and the script report on their own; what was decided
  first may arrive last, and the SCM then delivers controls for a state that is over.
* *Read, change, write.*  The environment and the access list are changed with no
  transaction; the service, or an account, can disappear between any two steps.
* *Counted bytes.*  The environment block is built by hand.
* *Widths, bits and macros.*  The numbers of a script are cut to a `long`; start types and
  access modes are compared as bit masks although they are numbers.
* *Steps that fail half-way.*  A creation is five calls to the SCM; every one can fail.

`PROJECT.json` lists each hazard at its line with the property that covers it, or why none
does yet.

### What makes each component correct

* Service process: the result of a start tells the truth; what is reported is what the
  script asked for; nothing in use is released; the exit mode and exit code have their
  documented effect.
* Script: a stop is not lost and ends the service; the SCM sees a well-formed life cycle.
* Script with a state table: whatever was sent last takes effect, and is shown.
* Environment: an operation changes its own variable only; entries are never cut or doubled.
* Manager: no error path leaves a handle, and "success" means configured as asked.
* Access rights: a change concerns one account, and exactly what was asked for it; what is
  read identifies every entry.

## 2. Modules

`ServiceProcess` and `EnvBlock`/`EnvRegistry` stand alone.  `PollingService` and
`ControlledService` EXTEND `ServiceProcess` and restrict its script to a concrete one.
`ServiceLifecycle` is the abstract specification which `PollingService` implements and
`ServiceManager` uses as its view of the service.  `ServiceManager` EXTENDS `CreateParams`,
and `AccessRights` EXTENDS `RightInfo` and implements `AccessList`.

### ServiceProcess

Variables are the globals (`svc_thread`, `event`, `code`, `st`, `sh`, ...) with the C names,
the positions of the threads (`php`, `disp`, `main`), and the SCM's record (`scm`).
`signalled` is the state of the event object, `attempt` counts dispatcher threads.  `asked`,
`startResult`, `statusResult` and `joinExpired` record how a call ended, for the properties.

| actions | code |
|---|---|
| `StartDispatcher`, `StartReturns`, `StartTimesOut` | `win32_start_service_ctrl_dispatcher` :283-334 |
| `DispatcherConnects/Refused/Signals/Returns` | `svc_thread_proc` :117-130 |
| `MainFillsStatus`, `MainRegisters`, `MainSetsCode`, `MainSignals` | `service_main` :66-115 |
| `HandlerStoresControl/SetsState/Reports/Reported` | `service_handler` :49-64 |
| `SetServiceStatus`, `StatusReports`, `StatusReported` | `win32_set_service_status` :426-452 |
| `SetPauseResumeState`, `SetExitMode`, `SetExitCode` | :340-421 |
| `RequestShutdown`, `ShutdownSetsState/Reports/Reported/Joins/Releases` | RSHUTDOWN :1976-2009 |
| `ScmSends`, `ProcessExits`, and what `ScmRecords` accepts | Windows, as the code uses it |

A step is one access to shared state, or several that no other thread can tell apart.  A
call of `SetServiceStatus` is two steps: the structure is copied (`told`, `htold`), and the
SCM records it later.  A call that throws before it assigns, or only reads, is a stuttering
step.  A dispatcher thread may be refused at any time and a registration may fail.  The
`exitCode` is a `zend_long` and the reported code a DWORD, so it is taken modulo `DWord`.

The SCM is external: it delivers a control only if the recorded state and the accepted
controls allow it, one at a time; it ignores reports after `STOPPED`; a process that ends
without having reported `STOPPED` leaves the service `ABORTED`, which it counts as a failure.

### PollingService and ServiceLifecycle

The script of `examples/sample.php`, or, if `answers`, that of `tests/running/run.php`, which
also answers `INTERROGATE`, reports `STOPPED` itself, and ends when the query of its own
status throws (`QueryFails`).  `line` is the script's position; each of its actions is an
action of `ServiceProcess` with a guard.  `ServiceLifecycle` has one variable, the state of
the service as the SCM shows it, which may only advance and does end once it is
`STOP_PENDING`.  The mapping is `state <- scm.state` for the script that only polls; the
other one can show `RUNNING` after `STOP_PENDING`, does not implement the life cycle, and is
mapped to a service that stays where it starts.

### ControlledService

The command `run` of `examples/service.php`: `status` is what its last query saw (or `NONE`,
when the query threw), `paused` its own flag, `line` its position.  `Branch` is the chain of
conditions of its loop, `Completes` the second look at a change that was seen half-way, and
the reports go through `win32_set_service_status` of `ServiceProcess`.  Its quirks are kept:
an exception without a code counts as a success, the dispatcher's FALSE is not looked at,
and three reports are outside of its `try`.  `ControlledServiceAssumption` names the states it
reports, so that its reports are among those `ServiceProcess` allows.

### EnvBlock, EnvRegistry, MCEnvRegistry

`EnvBlock` holds the pure operators: a block is a sequence of entries, an entry a sequence
of characters of which only `=` is special.  `Removed` and `BytesOfAdd` keep the arithmetic
of the code, its terminators included; `Kept` is the filter of the removal.  `EnvRegistry` runs them in several processes: ask
for the size, read, open the key, write, each one a step that can fail, with the service
created and deleted in between.  `PlainNames` assumes that no name given to it contains `=`: with
such a name `NamesUnique` is false (see 5).  `MCEnvRegistry` supplies names and values.

### CreateParams, ServiceManager, MCServiceManager

`CreateParams` reads an array, a function from keys to values, as the macros of the code do:
`Params` with the defaults, `ToLong` and `ToDword` for the widths, `Valid` for the checks
(with `NotOwnInteractive` for the comparison as the preprocessor leaves it), `Entry` and
`Setting` for what is handed to the SCM.  `LongKeys` are the keys whose numbers are cut to a `long`.

`ServiceManager` has one service and its clients.  A call opens the service (or creates it
from one of `Details`, or `Refuses` the array), acts, and closes its handle; a creation runs
through `description`, `delayedStart`, `failureActions`, `failureFlag`.  Every step may fail.
`Settles` is the SCM's rule for a service marked for deletion: it goes when it has stopped
and no handle is open.  The test of the start type is the code's bit mask (:1087), so a
demand-start service also gets the delayed-start setting.  `base_priority` is checked and
then not stored: the function returns before that code (:1113), so no step stores it.

### RightInfo, AccessRights, AccessList, MCAccessRights

`RightInfo` holds the object as a record: a mask is the set of its bits.  `AccessRights` runs
the four functions in several processes.  A change is four steps: size, list, look-up of the
account, store; each may fail, and one that finds the list longer than the size it has asked
for throws.  The list is a set of entries, the accounts that are known may shrink, and a
name without a domain is resolved on the machine first.  A read copies the list in one step
and makes its objects in another.  `NameInfo` keeps the mistake of :541: both parts of
`DOMAIN\user` are taken from the first.

`AccessList` says what the changes promise: a list is stored that was in force when the
change took it, with the entries of one account replaced by at most one grant.  The mapping
is `taken <-` the copy a call holds between its read and its store.

## 3. Runs

| run | specification and bounds | shows |
|---|---|---|
| `service_process` | arbitrary script, 2 dispatcher threads, controls STOP and PAUSE, 4 states; 185,640 distinct states | `StartResultSound`, `AcceptedAgree`, `ToldUnlessStopped`, `ReleaseIsSafe`, `ExitCodeExplained`, `TypeOK` |
| `polling_service` | both scripts, 3 controls, exit codes 0 and 5; 48,744 states, fair | `PollingKeepsStop`, `StopLeadsToExit`, `ShutdownHonoursMode`, `OwnStopRecorded`, and the refinement `LifecycleSpec` |
| `controlled_service` | service.php, 4 controls, 1 dispatcher thread; 51,560 states, fair | `StopIsClean`, `PauseSettles`, `ContinueSettles`, `InterrogateSettles`, `StopSettles`, `UncrossedStopEnds` |
| `env_concurrent` | 2 processes (symmetric), 2 names, 2 values, one of them empty, 12 bytes; 594,988 states | `EntriesUncut`, `NamesUnique`, `WriteUpdatesOne`, `TypeOK`; and, before it starts, `AdditionOverrides` and `RemovalDrops` on every block of at most 3 variables |
| `service_manager` | 3 clients (symmetric), 9 arrays: 2 the function refuses, 1 CreateService refuses, 2 are accepted with a number that is cut; 605,958 states | `DeletedIsReleased`, `CreatedAsAsked`, `TypeOK` |
| `access_rights` | 2 processes (symmetric), 3 accounts, 2 names, 4 masks of which 2 are refused; 417,233 states | `OthersKept`, `ChangeIsExact`, `InfosTellTheList`, `TypeOK`, and the refinement `ListSpec` |

Bounds, and why they are enough:

* `MaxAttempts = 2`: the hazards of a start need one earlier attempt whose thread, code or
  event is still around.  The proofs cover every number.  The scripts start once.
* `DWord = 4` with the exit code 5: a code wider than the field, so that the cut shows.
  Code 0 in the polling runs is the code that counts as no error if it is read as such.
* The process runs take the controls apart that matter: one that changes the state
  (STOP), those that need an accepted bit (PAUSE, CONTINUE), one that needs none
  (INTERROGATE).  The handler treats CONTINUE as PAUSE, so it appears only where the script
  tells the two apart.
* `MaxBytes` is the size at which the registry refuses a value.  An entry `a=1` and its NUL
  take 4 bytes: 12 bytes hold two entries, the smallest block with a *first* and a *last*
  one, and what another process can change behind a reader's back; larger blocks are left to
  the two comparisons of operators.  Merged entries (see `env_entries`, with 16 bytes) need
  three variables, and are a property of one removal, not of an interleaving.
* `LongValues = 2^18`: more than twice every default and constant, with arrays just below, at and
  above it.  On Windows it is 2^32.  Two arrays have a number that does not fit, and are
  accepted with another one: `CreatedAsAsked` speaks of arrays whose numbers fit (`Fits`).
* Three clients in `service_manager`: one that creates or deletes, one that keeps a
  handle, one that starts or stops.  Calls on different services do not interact.
* In `access_rights` two accounts share the user name `web`, one of them is denied a right,
  and a third is the system's, which no caller names: it must come through every
  interleaving.  Masks with generic rights are accepted by the code, but Windows maps them to
  others when it stores them; none is among the masks.

`WriteUpdatesOne` is about a write whose process has read what is still stored, and
`ListSpec` says the same of access lists in another way: a change starts from a list that
*was* in force.  A lost update between two processes is possible, inherent in the design of
read, change, write, and documented nowhere as excluded; the properties say that nothing
worse is.  `WriteUpdatesOne` also leaves out removals that keep several entries; those are
`EntriesIntact`, which fails.

Deadlock is checked in all runs.  `Ended`, `PollingEnded` and `ScriptEnded` say where the
process has ended and nothing is to happen; the other modules have a step everywhere.

### Where the code and its documentation disagree

| run | line | what TLC finds |
|---|---|---|
| `graceful_exit` | :1993 | a stop handled between the shutdown's store of `STOPPED` and its report replaces it: the SCM is told `STOP_PENDING`, the wait expires, and a graceful exit ends as a failure |
| `exit_mode_ignored` | :1977 | a script that reports `STOPPED` itself stops with `NO_ERROR`, whatever exit mode it has chosen |
| `stop_hangs` | :53 | a stop that crosses a report of service.php is overwritten by the next control, whose answer still shows `STOP_PENDING`: the service is stopping for ever |
| `interactive_type` | :904 | the documented type `WIN32_SERVICE_WIN32_OWN_PROCESS_INTERACTIVE` is refused, because the macro has no parentheses |
| `env_entries` | `win32service_registry.c:176` | removing one of three variables stores the other two as one entry |
| `env_room` | `win32service_registry.c:90` | the length computed for the new block is too short when a variable is appended |

One more disagreement needs no run: the comment at :1115 says that `base_priority` is stored in
the registry, but the function has returned two lines before it, and no path leads there.
`CreatedAsAsked` leaves `base_priority` out for that reason: the setting is checked, accepted
(the array `OnDemand` has one) and has no effect.  What it promises of a creation that succeeds
is type, start, error control, account, command line, description, delayed start and recovery.

What holds for which script of `polling_service`: that a stop is kept (`PollingKeepsStop`) and
ends the process, and that the exit mode counts (`ShutdownHonoursMode`), is promised to a script
that only polls, like `sample.php`; a report of its own can hide a stop, and its own `STOPPED`
hides the mode.  `OwnStopRecorded` is the counterpart: a script that reports `STOPPED` ends as
stopped, even if the handler's late `STOP_PENDING` has replaced its report.

`StopIsClean` says the same of service.php, and more: once the script has taken a stop and
reported `STOPPED`, the process ends as a service that has stopped, with `NO_ERROR`, whatever
controls cross its reports.  `StatusArgs` and `CheckPoints` in the configurations of both
scripts are just what these scripts report.

The properties of `controlled_service` say when the state the script is in and the state the
SCM shows agree in the end.  `NeverCross` is needed: without it TLC shows a PAUSE that crosses
the report of a resume and leaves `PAUSED` in the SCM while the script runs, and a CONTINUE
that crosses the report of a pause and leaves the script paused while the SCM shows
`RUNNING`; nothing repairs either, because the loop looks at the SCM's state, which is the
wrong one.  It is not needed for INTERROGATE, whose answer is made from `paused`, nor for a
STOP that remains the last control.

### Fairness

Liveness is checked for `PollingSpec` and `ScriptSpec`: weak fairness of the PHP thread, of
`service_main` and of each dispatcher thread.  The operating system schedules all of them,
and none of their steps can be disabled for ever by another thread except by a wait that
expires.  Nothing is assumed of the SCM: it need never send a control.  A wait may end
either way as soon as its call is made, so no property depends on how long 30 s or 10 s are.
In `PollingSpec`, `Sleeps`, the iteration of the loop that finds nothing, is not part of the
fair steps.  In `ScriptSpec` the query that ends an iteration may throw, and strong fairness
of `Sleeps(scm.state)` says that one which is made again and again succeeds again and again.

## 4. Proofs

### ServiceProcessProofs

`ServiceProcessProofs` proves for every value of the constants (`ServiceProcessAssumption`
is all that is assumed: natural numbers, known controls and states, a DWORD of at least
two values):

| theorem | says |
|---|---|
| `TypeCorrect` | `[]TypeOK` |
| `InductiveInvariant` | `[]IInv` |
| `StartResult` | TRUE only with a handler registered, an exception only without |
| `AcceptedControls` | the controls the SCM delivers are those of the setting |
| `ReportsAreTrue` | a report says what was asked for, or the STOP_PENDING of a pending stop |
| `ReleaseSafety` | nothing in use is released unless a wait has expired |
| `ExitCodeIsTheScripts` | an error code at the SCM is the script's, in the non-graceful mode |

None of the properties is inductive.  The invariant `IInv` is built around the question *who
may announce the result of a start?*

1. `StartInv`.  After `StartDispatcher` there is exactly one announcer: the dispatcher thread
   until it connects, `service_main` afterwards (`OneAnnouncer`, `MainAnnounces`).  While it
   exists the event is not signalled, and once it is, `code` is `NO_ERROR` exactly if the
   handler is registered (`AnnouncedIsTrue`).  `svc_thread` stays set until the announcement
   has been read (`NullIsIdle`, `ResultKnown`), and as long as it is set no second attempt
   starts; so a late thread, after a time-out, cannot announce into another attempt.
2. `ConnectionInv`.  At most one dispatcher thread is connected, that of the last attempt
   (`OneConnected`), and before registration the SCM hears and sends nothing
   (`SilentUnlessRegistered`).
3. `AcceptedFollows`, `CodesFollow`.  Every copy of the status, in the globals, in a call
   under way and at the SCM, carries the setting and the codes of the script.
4. `JoinedIsDone`.  After the final wait the thread has ended or the wait has expired.
5. `StopTold`.  If the reported state is not the one asked for, a stop is the last control and
   its `STOP_PENDING` is on its way to the SCM, or has arrived: no further control is delivered
   that could overwrite it.

Each part has a lemma that says every step preserves it, one case per action.

### AccessRightsProofs

`AccessRightsProofs` proves everything the run `access_rights` checks, for every number of
processes, all names and masks and every default list, from `AccessRightsAssumption`: an account
is determined by its sid and by its domain and user, has a domain, and the default list grants
and denies rights that have a name to such accounts.

| theorem | says |
|---|---|
| `TypeCorrect` | `[]TypeOK`: every entry keeps rights that exist, and some |
| `InductiveInvariant` | `[]IInv` |
| `OthersAreKept` | accounts no caller names keep their entries |
| `InfosAreTrue` | what is read identifies every entry |
| `ChangesAreExact` | a change does what was asked for, to one account of the name given |
| `ImplementsAccessList` | `Spec => ListSpec`: the refinement |

Nothing protects the list, so no invariant can say anything about the list of a later moment.
`IInv` is therefore mostly about the record of a single call (`CallInv`): a change keeps the name
and mask it was given (`ChangeGiven`); the copy it holds was in force, so it has the entries of
the unnamed accounts (`CopyOK`); the accounts it has found are of that name (`AccountsFound`),
even if they are deleted before the store.  Since a step changes one record, each action needs
`CallInv` of the new record only (`OneCallInv`).  `InfosTell` rests on `EntriesTold`: an account
is identified by its name or, when it has gone, by its sid, and the names of rights stand for
exactly the bits of the mask (`RightsTellTheMask`).  For the refinement a step that leaves the
list alone takes it, gives it up or keeps what it holds (`HeldAs`), and a store is a store of
`AccessList` (`StoreIsStore`).

### ServiceManagerProofs

Proved for every number of clients, every set of arrays and of short names, and every width of
a `long` that the defaults fit (`ServiceManagerAssumption`).

| theorem | says |
|---|---|
| `TypeCorrect` | `[]TypeOK` |
| `InductiveInvariant` | `[]IInv` |
| `NothingKeepsDeleted` | a deleted service that has stopped stays only while a call on it is in progress |
| `OneCreates` | two calls never configure the service at the same time |
| `CreatesAsAsked` | what is reported as created is configured as the array asks, `base_priority` and numbers that do not fit a `long` excepted |

The configuration of a service is made by several calls, between which other clients open,
start, stop and delete it.  `CreatesAsAsked` holds because of the handle the creator keeps, and
the invariant says how: `HandlesInv` (a call has a handle exactly while it is at a step that
uses one, and an entry with an open handle stays), so the entry cannot go and be created again
under the creator (`OneCreator`), so it holds what this call has stored so far and nothing else
(`Created`, with `Made` for the settings by position).  The attempt to prove it without a
condition failed at the conversion to `long`: an array with an action of 2^32 + 1 is accepted
as one with the action 1 (:760-769).  Hence `Fits`, and the array `Wrapped` in
`MCServiceManager`.

### PollingServiceProofs

Proved for every set of controls and of exit codes.  That the scripts are scripts of `ServiceProcess` is a theorem,
so everything proved of `ServiceProcess` is used here.

| theorem | says |
|---|---|
| `ImplementsServiceProcess` | `PollingSpec => Spec` of `ServiceProcess` |
| `PollingInvariant` | `[]PInv` |
| `StopIsKept` | no control replaces a stop the script has not seen |
| `ExitModeByShutdown` | the non-graceful mode of a script that only polls takes effect |
| `OwnStopReachesScm` | a script that reports `STOPPED` itself ends as stopped |
| `ImplementsLifecycle` | the initial states and the steps of `ServiceLifecycle`, without its fairness |

What makes the script that only polls well-behaved is that it reports once, before the SCM
sends anything (`QuietInv`); from then on only the handler and the shutdown store a state, and
every copy on its way, in the globals, in a call of the handler or of the shutdown, is as far
in the life cycle as what the SCM has been told (`ForwardInv`).  A stop that was taken
therefore stays (`StopInv`), and `STOPPED` is stored only after the codes (`CodesStored`).  For
the script that reports `STOPPED` itself none of this holds; `StopGoes` does: as long as the SCM
has not recorded it, that report is on its way, or a stop has replaced it and the shutdown,
which finds `STOP_PENDING`, stores `STOPPED` again.

### ControlledServiceProofs

| theorem | says |
|---|---|
| `ImplementsServiceProcess` | `ScriptSpec => Spec` of `ServiceProcess` |
| `ControlledInvariant` | `[]CInv` |
| `StopEndsCleanly` | `[]StopIsClean` |

Proved for every set of controls, without `NeverCross`.  The script never touches the exit mode,
which rules the failure codes out, and its last report is followed by `StopGoes`, which is stated
and proved once, in `ServiceProcessProofs`, for all scripts: the step lemma `StopGoesStep` says
that no thread of the process breaks it once the script makes no further report.

### FlattenProofs, EnvBlockProofs, EnvRegistryProofs

| theorem | says |
|---|---|
| `AdditionUpdatesOne` | add or replace changes one variable of a block, for blocks of every length |
| `RemovalUpdatesOne` | so does a removal, if at most one other variable is left |
| `TypeCorrect`, `InductiveInvariant` | `[]TypeOK`, `[]IInv` of `EnvRegistry` |
| `NoDoubles` | no variable is stored twice |
| `NothingCut` | every stored entry is one, or a row of some, that calls have asked for |
| `ChangesItsOwn` | a change whose process has read what is still stored changes its own variable only; removals that keep several entries are excepted (`EntriesIntact`) |

The operators join entries with `FlattenSeq`, whose definition is recursive.  The induction
theorems of the library take a predicate, which no prover here can instantiate, so
`FlattenProofs` does induction with *sets*: a set of natural numbers has a least element
(`WFMin` and `NatLessThanWellFounded` of the library), hence a set that has 0, and with n also
n + 1, has every number (`NatSetInduction`), and likewise for sequences (`SeqSetInduction`).
From it follow what `FlattenSeq` makes of `Append` and `\o`, and from that what `Kept` keeps.

The inductive invariant of `EnvRegistry` is about every block in sight: the stored one
(`BlockOK`) and the copy in the record of each call (`CallsOK`), because an old copy may be
stored at any time; two conjuncts are there only to make it inductive, that a key is open only
of a service that exists, and that one which does not exist has no value.  Entries stay whole
because a value longer than the size asked for is not read at all, and a value of length 0 is
one without entries, as a row of n entries has at least 2n characters (`RowLength`).

`NoDoubles` needs `PlainNames`: a call that adds `a=b` stores an entry whose name is `a`,
although there may be one already (:1441).  `Chars` names `=` beside
`STRING` because the provers do not know that a literal is a string.

### What is only model-checked

Every safety property of a passing run is stated by one of the theorems above, for all values of
the constants.  Left to TLC:

* liveness, because fairness and `ENABLED` are out of the prover's reach: `StopLeadsToExit`,
  `PauseSettles`, `ContinueSettles`, `InterrogateSettles`, `StopSettles`, `UncrossedStopEnds`,
  and the fairness of `LifecycleSpec`;
* the runs of the table above, whose properties are false.

## 5. Not modelled

* *The contents of messages, logging, `MINFO`, `__toString`.*  No property depends on them.
* *`lpEventData`, `dwEventType`, thread ids.*  Stored and never read.
* *Controls other than STOP, PAUSE, CONTINUE, INTERROGATE.*  The handler treats all of them as
  PAUSE; shutdown and pre-shutdown are not in the accepted bits the script can clear.
* *Leaks of memory and of registry handles.*  Not visible to another call; listed as hazards.
* *The `zend_long` written into a 32-bit `long`* (:436, :1656).  What it overwrites depends on
  the compiler's layout.
* *Dependencies, and details that are NULL* (:797, :841).  A dependency array whose keys are
  not 0 to n-1, and a string read from a NULL, are undefined in C, with outcomes no model of
  the sources can enumerate.  The conversion of values in the caller's own array is left out
  as well.
* *Strings passed on unchanged* (display name, password, load order, reboot message).
* *The last error after `CloseServiceHandle`* (:1076).  A failure is one outcome here, whatever
  its code.
* *A service without an access list.*  The reading functions throw; the model has a list.
* *The machine argument.*  One machine is modelled; that reads ignore it is listed as a hazard.
* *A second request in the same process* (embed SAPI).  RSHUTDOWN leaves the globals as they
  are, and a CLI process has one request; listed as a hazard.
* *Names with `=` and names that differ in case.*  A name with `=` is stored as a shorter one
  (:1441), listed as a hazard: `PlainNames` excludes it.  The names of the runs have neither.
* *Error conversion, constants, build files, stubs.*  Tables and generated code, with no state.

## 6. Plan

Modelled: every component with state.  Proved: the safety properties of all of them.  What is
left:

1. A script and its clients on one SCM, so that a client's stop and the script's end are in
   one behaviour; the proof that its parts are `PollingService` and `ServiceManager`.
2. The second request of an embedding process, which starts with the globals of the first.
