# servicejni in TLA+

servicejni lets Java programs be Windows services and control them: a C++ library
(`servicecpp/servicelib`) over the Win32 service API, and a thin Java facade
(`src/main/java/com/infomaximum/system`) over JNI. This directory models it,
model-checks it with TLC and proves its safety with TLAPS.

Paths below are relative to the repository's root.

## Inventory

| part | state it keeps | operations | talks to |
|---|---|---|---|
| **ServiceEntry, ServicePrepare** (`servicelib/ServiceEntryWin.cpp`, `Pending.hpp`) | one `SERVICE_STATUS` per process, the two event handlers, a map of native handlers, `pInstance` | constructor, `RegisterEventHandler` (2), `SetExitCode`, `Execute`, `Exit`, destructor; callbacks `ServiceMain`, `ServiceHandler` | the SCM (status reports, controls); the application's handlers, each on a thread of its own |
| **Service, control path** (`ServiceWin.cpp` 237-309, 387-399, 430-458) | a handle; local variables of polling loops | `Start`, `StartAsync`, `Stop`, `SendCode`, `GetStatus` | the SCM |
| **Service, database** (`ServiceWin.cpp` 12-182, 206-235, 311-385) | the SCM's database (external) | `Create`, `CreateDriver`, `Open`, `Exists`, `Remove`, `SetAutoRestart`, descriptions | the SCM |
| **One-shot execution** (`ServiceWin.cpp` 184-204, `Service.hpp`) | the SCM's database (external) | `ExecuteOnce` | the SCM, the process it ends |
| **JNI callbacks** (`CallbackJNI.hpp`, `system_service_ServiceEntry.cpp`) | a global reference, a method id, the VM | construct, move, `Call`, `Clear` | the JVM, on any thread |
| **Library loader** (`LibraryLoader.java`) | `initialized`, the temporary copy of the DLL | `load` | the temporary directory all processes share |
| **Java facade, JNI glue** (`Service.java`, `ServiceEntry.java`, `NativeReference.java`, `system_service_Service.cpp`) | a native pointer per object | one forwarder per C++ operation, `close` | the classes above |
| **Windows registry** (`WindowsRegistry.java`, `system_service_WindowsRegistry.cpp`) | none between calls | query and set values | the registry |
| errors, strings, OS detection | none | formatting | - |
| Linux variant, sample services, tests, googletest | - | in no build target, or test code, or vendored | - |

What is hard here:

- *Unlocked sharing.* `ServicePrepare` runs on the ServiceMain thread, on the
  dispatcher thread (a stop) and on any thread that calls `Exit`. All of them write the
  one status block field by field and hand it to the SCM as they find it. STOP is
  accepted from the constructor on, so a stop may come while the service still starts.
  The map of native handlers has no lock either.
- *Partial failure.* `CreateThread` is unchecked, `Remove` and `Create` ignore `Stop`,
  `ExecuteOnce` goes on after most errors.
- *Timeouts.* `ControlService` gives up after 30s, yet the control stays queued.
- *Polling.* `Start`, `Stop` and `ExecuteOnce` sample a state that other clients and the
  service change between two samples.
- *One name for all.* Every call of `Create`, `Remove` and `ExecuteOnce` finds the service
  by its name again, and others may have deleted, changed or started it.
- *Life of objects.* Global references are moved by hand, threads attached and detached
  by hand; a handle that leaks keeps a removed service in the database.
- *A shared directory.* Every process that loads the library deletes the copies it finds.

What makes each part correct: a service process shows clients *one lifecycle*
(`ServiceLifecycle`), its pending states cover the handlers' work, STOPPED is its last
act and carries the last exit code; a client's `Start` and `Stop` come back and mean
what the tests assert; a removed service goes away, a reconfigured one runs no old
process, failure actions do what was last asked; a one-shot service never outlives its
calls and its caller reads the code of its own run; a handler's reference has one owner
and is there when it is called; no process loses a DLL to its own cleaning.

## Modules

    ScmStatus             states, exit-code encoding and decoding
    ServiceLifecycle      abstract: what a service shows its clients
      OverlappedLifecycle     the same when stops and exits meet the start
      ServiceEntry        the service process and the SCM; implements ServiceLifecycle
        EntryInvariants       the inductive invariants
          ServiceEntryProofs  proofs for any overlap
            EntrySerialProofs proofs without overlap, and the refinement
          EntryOverlap        a history variable; implements OverlappedLifecycle
            EntryOverlapProofs  the refinement, for any overlap
      ServiceControl      clients, SCM, and a service that is an OverlappedLifecycle
        MCServiceControl      its instance for TLC
        ServiceControlProofs  proofs
      ServiceDatabase     one entry of the SCM's database
        ServiceManager        create, open, remove, failure actions; its service is an
                              OverlappedLifecycle
          MCServiceManager    its instance for TLC
          ServiceManagerProofs proofs
        ExecuteOnce           the one-shot execution; its service is a ServiceLifecycle
          ExecuteOnceProofs   proofs
    HandlerCallbacks      Java handlers behind ServiceEntry, threads and the JVM
      HandlerCallbacksProofs  proofs
    LibraryLoader         processes that share the temporary directory
      LibraryLoaderProofs     proofs

`ServiceControl`, `ServiceManager` and `ExecuteOnce` do not repeat the service process:
they take what `ServiceEntry` is shown to implement. `ServiceControl` and `ServiceManager`
send stops, which may meet the start, and take `OverlappedLifecycle`; `ExecuteOnce`, whose
program nobody sends a control, takes `ServiceLifecycle`.

### ServiceEntry

`main` is the thread of `main()`: it creates the entry, registers handlers, calls
`Execute`, and then *is* the dispatcher thread that runs `ServiceHandler`
("handling" a user code, "stopping" in `ServicePrepare`). `status` is `Impl::status`,
`scm` the copy the SCM holds, `pipe` the controls it has queued. `prep[a]` is a program
counter into `ServicePrepare` for each *activation* (`"start"`, `"control"`, each thread
in `ExitThreads`), `hand[a]` the thread `CreateThread` made for it.

| action | code |
|---|---|
| `Enter`, `Pend`, `Notify`, `Bump`, `WaitTimeout`, `WaitDone`, `Reset`, `Final`, `ReportFinal` | `ServicePrepare`, one step per access to the shared block (`Pending.hpp` 17-57) |
| `SetExitCode`, `SetExitCodeEnd` | the two writes of `SetExitCode` |
| `TakeStop`, `StopHandled`, `TakeCode`, `CodeHandled` | `ServiceHandler` |
| `Create`, `RegisterEventHandler`, `RegisterNativeHandler`, `Execute`, `Exit`, `Close`, `ServiceMain` | the operations of the same name |
| `Launch`, `SendControl`, `ProcessEnds`, `Crash`, the guard in `Report` | external: the SCM and the operating system as the code relies on them |

The SCM is modelled from its documented contract: a STOP goes to a running or a starting
service that accepts it, any other control only to a running one; reports after STOPPED
are ignored; the dispatcher call returns when STOPPED was reported; a process that dies
otherwise leaves `ERROR_PROCESS_ABORTED`. STOP stands for SHUTDOWN as well, which takes
the same branch. Left out: a failing `RegisterServiceCtrlHandlerExW`, the wait hint, and
what the handlers do beyond `SetExitCode` and registration.

`Env` names what the environment may do. Without `"Overlap"`, a stop or an `Exit` begins
only when the service runs and nothing else is under way; with it, whenever the code
allows it. `"ThreadFails"` lets `CreateThread` fail. `"LateRegister"` lets the application
register a native handler once the service runs; then the SCM keeps the old accept mask
until the next report (`ServiceEntryWin.cpp:91`), so `RegisteredIsDeliverable` is claimed
without it, that is for handlers registered before `execute()` or while starting.

### ServiceControl

Each client is a loop over its `Calls` with `pc` at "begin", "sent" (inside
`ControlService`) or "poll" (the loops of `Start` and `Stop`). The service is the
abstract one (`Service == INSTANCE OverlappedLifecycle`): `Serves` is what it does by
itself, `Take` and `HandlerReturns` tell it of a control, `Launch` and `Crash` begin and
end its process. `disp` and `pipe` are the dispatcher and its
queue, `life` counts starts, and a control whose sender has timed out stays queued for
`Nobody`. A control to a service that has not reported yet may be refused. Rights
(`ToServiceAccessFlags`) decide who is `Denied`. `StartFails` is any
other error of `StartServiceW`.

### OverlappedLifecycle and EntryOverlap

`OverlappedLifecycle` keeps `ServiceLifecycle` (`Orderly`) as long as no stop (`Take`) and
no `Exit` (`EarlyExit`) begins while the service starts. Once one has, `overlap` is set:
every activation reports what another has written, so any state may be shown (`Scramble`),
except START_PENDING after RUNNING, until the last of those that met the start has
reported (`Settle`) or its control handler has returned (`HandlerReturns`); from then on
the lifecycle holds again. A stop that begins after the start is not among them.

`EntryOverlap` is `ServiceEntry` with a history variable: `early`, the activations at work
that met the start, which is what `overlap` is of. `Remember` adds to it and forgets what
has returned, and is never in the way of a step. `Shown` is the mapping, and
`ImplementsOverlapped`, safety and progress, is checked in `entry_races`.

### ServiceDatabase and ServiceManager

The database entry is `record` (absent, present, or marked for deletion), the service's
`state`, and the `handles` each client has open. A marked entry goes with the last handle
and the service's process (`Remaining`); it can be opened meanwhile, but not created,
reconfigured, started or deleted.

| action | code (`ServiceWin.cpp`) |
|---|---|
| `Create`, `OpenExisting`, `Configure`, then `Stop`, `Sent`, `Wait` | `ScManager::Create`, one step per SCM call; `kept` says that the client has the `Service` object |
| `Open`, `Exists`, `Remove` with `Stop`, `Sent`, `Wait`, `Delete`, `Finish` | the operations of the same name |
| `Answer` | `ServiceHandler` returns (`ServiceEntryWin.cpp` 34-52), and with it `ControlService` |
| `Close` | `~Service`, from `Service.close` |
| `Refused` | `Remove` after an access error: the null pointer (229), where the client ends |
| `SetAutoRestart` | 311-347, with `FailureActions` and `CommandSet` for the two things it hands over |
| `Failure`, `Restart`, `QuietHour`, `Start`, `Process`, `TakeOther`, `Exit`, `Ends` | external: the SCM's failure counting, a start at boot or on request, the service, another program's stop, the end of a process and of a client |

The service is `Service == INSTANCE OverlappedLifecycle`: a stop that meets a start is
accepted and may be answered in time, and what the service shows afterwards is whatever
its last activation reports, RUNNING included. `taken` says whose stop the control handler
works for, a client's or, once that has timed out or died, nobody's here (`"other"`). The
dispatcher's queue is that of `ServiceControl` without its contents: a client that waits
in it is still at "stop", and one that gives up there (`TimedOut`) leaves a control that
`TakeOther` may take at any later time. `weak` remembers that a client's stop timed out or
met a start, `stale` that the process its `Create` found is older than the configuration
it has just set.

### ExecuteOnce

Every function of `Service.hpp` opens the service by its name, does one thing and closes
it: `Open(c, from, to, missing)` and `Close(c, from, to)` are those steps, `pc` the place
in `ServiceExecuteOnce`. `SetupCreate`, `SetupChange` are `ServiceSetup`, `Enable` is
`ServiceSetStartType`, `StartService` and `Poll` are `ServiceStart`, `After` the wait and
`ServiceGetExitCode`, `QueryPid`, `Terminate`, `Delete` are `ServiceDelete`. A failed open
goes where the code's error path goes. `config` is the caller whose program the entry
names, `run` and `image` the last process and whose program it is, `alone` remembers that
nobody else has touched the service since a caller's `ServiceSetup`. Initially a service
of that name may be installed and in any state, as a caller that died leaves it.

### HandlerCallbacks

`held` says which global reference each `VoidCallbackJni` owns: the temporary of the JNI
call, the object inside `std::bind`, and the slot in `ServiceEntry`. `Construct`,
`MoveToBind`, `Store`, `Registered` are one registration, `Enter` (with `Attach`),
`Invoke`, `HandlerReturns`, `Leave` one call through an `EnvironmentGuard`, on a thread
made by `CreateThread` or, for native codes, on the main thread, which is Java's own. A
handler may throw (`pending`); the next call on that thread is then made or skipped.
`Replaceable` is an assumption on the application: a thread does not register for the
event another is about to call. A running handler may replace any, its own included.

### LibraryLoader

Each place in `Procs` runs one process after another, each with threads in `Workers` that
call `load()` under its monitor. `List`, `Delete`, `Create`, `Copy`, `Write`, `Load`,
`LoadFails`, `CopyFails`, `Leave` are the steps of `load`; `Exit` (with `deleteOnExit`) and
`Crash` end a process. A mapped DLL cannot be deleted, a copy not loaded yet can.

## Runs

| run | bounds | shows |
|---|---|---|
| `entry_serial` | 1 exit thread, 2 native codes, exit codes 0, 5 and 1077, failing threads, no overlap; with fairness | `TypeOK`, `StoppedIsFinal`, `NoUseAfterClose`, `LastExitReported`, `RegisteredIsDeliverable`, `RenotifyAdvances`, `StopCompletes`, and the refinement `ImplementsLifecycle` with its liveness |
| `entry_races` | 1 exit thread, 1 native code, 1 queued control, overlap and late registration; with fairness | `NoRunningWhileStarting`, `CodesAfterStart` and `StopIsNotWithdrawn` survive every overlap, `PrepareReturns`: no `ServicePrepare` is stuck, and the refinement `ImplementsOverlapped` with its liveness |
| `entry_checkpoint` | overlap | violation of `RenotifyAdvances`, see Findings |
| `entry_init` | failing threads | violation of `InitializedBeforeRunning` |
| `control` | 3 clients, 2 lives, 1 queued control; with fairness | `TypeOK`, `StopNotLost`, `StopEndsLife`, `StopReturns`, `StartReturns`, `LateStopCounts` |
| `control_start`, `control_stop` | 2 clients | violations of `StartMeansStarted`, `StopMeansNotRunning` |
| `manager` | an installer that creates and configures, an administrator that creates, opens, looks for and removes, a client without rights; 3 failures, 1 command | `TypeOK`, `MarkedIsHeld`, `RestartsBounded`, `CommandAsAsked`, `FreshProcess` |
| `once` | 2 callers, an outsider, 3 runs; with fairness | `TypeOK`, `TemporaryOnly`, `ExactWhenAlone`, `CallsReturn` |
| `once_wait` | 2 callers, an outsider, 2 runs | violation of `WaitsForEnd` |
| `callbacks` | 2 handler threads, 1 code, 4 handlers registered | `TypeOK`, `OneOwner`, `CallIsLive`, `Attached` |
| `loader` | 2 places for processes, 2 threads each, 2 copies; with fairness | `TypeOK`, `OneCopyEach`, `LoadedOnce`, `LostToAnother`, `LoadReturns` |

*Bounds.* `MaxCheckPoint`: rounds of the notification loop; 2 is enough for a first, a
repeated and a reset notification, and `entry_races`, whose properties are not about the
counter, takes 1. `MaxQueued = 1`: one control waits behind the one in the handler, and a
duplicate stop follows a timed-out one. Three activations are all kinds there are. Exit
codes 0, 5 and 1077: the clean code, an ordinary one, and the one `GetStatus` rewrites.
`MaxLives = 2`: a stop meant for one life can meet the next one. `MaxFails = 3`: one
failure for each action and the third is the one that repeats. `MaxRuns = 3`: a run of
each caller and one of the outsider, in any order. `MaxRefs = 4`: each of the three slots
and one that is replaced. `MaxAttempts = 2`: a failed copy and its retry, or a process and
its successor. The proofs remove every one of these bounds for the safety properties.

*Deadlock* is checked except where the system may stop. `ServiceControl`: when the lives
are used up and the service stopped cleanly, a `Start` that polls waits for ever
(`ServiceWin.cpp:258`), as the code does when nobody starts the service again.

*Fairness.* In `ServiceEntry` every thread runs (weak fairness of its steps), and every
handler returns: an assumption on the application, strong because a handler may set exit
codes again and again before it returns. Nobody is obliged to send a control, call
`Exit`, start or crash. In `ServiceControl` the service makes the progress
`OverlappedLifecycle` states (`OverlapFairness`), which `entry_races` shows `ServiceEntry`
makes: starts, stops and overlaps end, and control handlers return. The dispatcher takes
controls, and clients run, with strong fairness: their polls sample a state that others
change, and `ControlService` lets one client in at a time. In `ExecuteOnce` the program starts,
ends by itself and stops once it has begun to, and callers run; that others stop starting
the service some time is the bound `MaxRuns`, without which the wait of line 220 need not
end. In `LibraryLoader` threads run, and strong fairness of `Enter` says that the monitor
is not denied to a waiting thread for ever.

*Variants.* The operators named `Mut...` and marked "Variant" are deliberately broken
forms of the operator after them. The broken form of the operator makes the property it
names fail, which shows that the property depends on that line of the code.

## Findings

1. **The progress counter is reset under a running start** (`Pending.hpp:21`). The comment
   at line 45 explains that the counter must change between notifications or the system
   closes the service. A STOP handled while the service starts sets the shared counter to
   0 in the middle of the other loop, whose next notification does not advance.
2. **RUNNING without initialisation** (`Pending.hpp:39`). When `CreateThread` fails the
   starting handler never runs, and line 55, "the service is initialised", follows.
3. **Start succeeds too early** (`ServiceWin.cpp:258`). The loop takes any non-zero exit
   code as the end, and leaves `err` at success; a service whose starting handler calls
   `SetExitCode`, as both test services do, shows that code while START_PENDING. The tests
   assert RUNNING after `Start`.
4. **Stop succeeds with the service running** (`ServiceWin.cpp:302`). After a
   time-out of `ControlService` any state but STOP_PENDING ends the loop, also RUNNING
   when the dispatcher has not taken the stop from its queue yet, whatever it is at. `LateStopCounts` shows that the stop does arrive later.
5. **The one-shot wait ends while the service stops** (`Service.hpp:220`). The comment
   says that the loop waits until the service has finished; it waits while the state is
   RUNNING. In STOP_PENDING the exit code is read before the stopping handler has set it,
   and the process is then terminated under that handler.

Seen on the way, with no document to hold them against: `Remove` goes on with a null
pointer after any error of `Open` but one (`ServiceWin.cpp:229`); a second `close()`
deletes the native object again (`Service.java:124`); `Create` for LocalSystem keeps the
account of a service that exists (`ServiceWin.cpp:68`); a stop that meets a start may be
answered in time and leave the service running, so `Create` and `Stop` succeed with the old
process at work (`ServiceWin.cpp:96`, 302; `FreshProcess` and `StopEndsLife` are claimed for
a service that had started); a Java
exception in a native-code handler is still pending when the next one is called
(`CallbackJNI.hpp:132`). `ServiceTest.java:40-51` removes old copies by the name
"servicelib", while the loader's prefix is "infomaximum_servicelib".

## Proofs

All of them hold for every value of the constants under the `ASSUME`s of the modules: the
names of threads, codes, clients and commands are distinct, bounds and exit codes are
naturals, rights and calls are functions of the clients.

| theorem | statement |
|---|---|
| `TypeCorrect` | `Safety => []TypeOK` (ServiceEntry) |
| `RunningAfterStarting`, `CodesFollowStart` | `NoRunningWhileStarting`, `CodesAfterStart`, for any overlap |
| `StopNotWithdrawn` | `Safety => StopIsNotWithdrawn`, for any overlap |
| `SessionsDelivered` | without late registration: `RegisteredIsDeliverable`, for any overlap |
| `StoppedLast`, `ClosedUnused`, `ExitCodeKept`, `CounterMoves` | under `Serial` (no overlap): `StoppedIsFinal`, `NoUseAfterClose`, `LastExitReported`, `RenotifyAdvances` |
| `FollowsLifecycle` | under `Serial`: `Safety => Lifecycle!Safety`, the refinement |
| `ShowsOverlappedLifecycle` | `HistorySafety => Shown!OverlapSafety`, the refinement for any overlap (EntryOverlap) |
| `ControlTypes`, `StopIsHonest`, `TimedOutStopStays` | ServiceControl: `TypeOK`, `StopEndsLife`, `StopNotLost` |
| `ManagerTypes`, `CreateIsFresh` | ServiceManager: `TypeOK`, `FreshProcess` |
| `RemovedGoes`, `RestartsEnd`, `CommandCurrent` | ServiceManager: `MarkedIsHeld`, `RestartsBounded`, `CommandAsAsked` |
| `HandlesClosed`, `NothingLeft`, `OwnExitCode` | ExecuteOnce: `TypeOK`, `TemporaryOnly`, `ExactWhenAlone` |
| `CallbackTypes`, `ReferencesOwned`, `CallsFindHandler`, `AttachmentBalanced` | HandlerCallbacks: `TypeOK`, `OneOwner`, `CallIsLive`, `Attached` |
| `LoaderTypes`, `CopiesBounded`, `LoadedForGood`, `LossExplained` | LibraryLoader: `TypeOK`, `OneCopyEach`, `LoadedOnce`, `LostToAnother` |

*ServiceEntry, any overlap* (`ServiceEntryProofs`). The point is that only the start's own
last steps write RUNNING (`RunningIsLate`) and that a handler runs only inside the loop of
its own activation (`HandlerInLoop`); so by the time RUNNING is in the block the starting
handler is over, even if it is another thread that reports it. `StopIsKept` says that after
the start nothing but stops is ever written, `CodesAreLate` that only stops reach the
dispatcher before. With `BeforeDispatch`, `ControlThread` and `TypeOK` these are inductive
(`OverlapInv`); none is inductive alone: the state a report carries is the block's, and
what the block may hold depends on where every activation is. `Deliverable` adds that a
registered session-change handler is in the process's own accept mask, and in the SCM's
once it shows RUNNING.

*ServiceEntry, no overlap* (`EntrySerialProofs`). `SerialInv` adds who may be active
(`OneAtATime`, `DispatcherInv`), how far the start and the stop have come on both sides
(`Progress`, `StopProgress`), the counter being ahead of the reported one (`Counter`), and
the exit code both hold (`ExitCodeInv`). `FlowPrepare` and `FlowStep` show that the first
part is kept, `OneHandler` that at most one handler writes exit codes, `ExitCodeStep` the
rest. `LifecycleStep` then maps each step to a lifecycle step or to a stutter.

*ServiceEntry, the refinement for any overlap* (`EntryOverlapProofs`). `EarlyInv` ties the
history to the process: what is remembered is at work, with the start among it until that
is over, and until then every stop and `Exit` at work is remembered (`EarlyAtWork`). So
with nothing remembered the start is alone (`AloneStart`) or over; when it is over the
block no longer says START_PENDING (`StartIsOver`), and a stop that nobody remembers began
after it and has announced itself before it reports or returns (`LateStops`). Each of these
needs the others: whether a report is in order depends on who wrote the block last, and
that on who was at work when the reporter began. Then every step maps: `ShowsStop` and
`ShowsExit` begin an overlap exactly if the start is not over, `ShowsReport` is `Orderly`
with nothing remembered, `Settle` when the last is forgotten and `Scramble` in between,
`ShowsStopHandled` is the return of a stop's handler, and the rest is not seen.

*ServiceControl.* As long as the life lasts that a stop was sent to, the service does not
overlap or start, and while it runs the stop is queued or handled (`StopHeld`): a time-out
takes the sender away and not the control (`OrphanKeeps`, `HeldMoves`), the dispatcher is
busy with one control at a time, and a stop's handler leaves no service without overlap
running. That is `StopNotLost`; and a client that is answered finds its life over or in
STOP_PENDING (`LifeOver`), which its loop waits out (`StopPollEnds`). For that the answer
must be the client's own: a queued control with a sender is the one its sender waits for,
and there is one at most (`Awaited`, `OneAwaited`).

*ServiceManager.* Every handle belongs to a kept object or to a call under way, so a marked
entry without either is gone; the failure invariant ties the count of restarts to the
failures counted and to the length of the list of actions. For `FreshProcess`,
`StopUnderWay` follows the stop of a `Create` with a process from before it still there,
when that stop met no start: while the handler works for the client (`TakenInv` says that
it does so only for one that waits) the service does not overlap and is running or
stopping; when it has answered, STOP_PENDING is shown and nothing but STOPPED can follow,
so the wait is not over. The effects of a step of `OverlappedLifecycle` on the entry
(`ServeEffect`, `TakeEffect`, `AnswerEffect`, `DieEffect`, `LaunchEffect`) are lemmas, which
the other invariants use as well.

*ExecuteOnce.* The caller whose program the entry names has still to delete it (`Owner`):
whoever takes the entry over by `ServiceSetup` takes over that duty. `Undisturbed` says what
a caller left alone finds: its entry, its process, its program.

*HandlerCallbacks and LibraryLoader.* Ownership is a bijection between live references and
the places that hold them; at most one thread of a process is past the monitor, and a
copy that exists belongs to its process's current attempt.

Only model-checked: all liveness (`StopCompletes`, `PrepareReturns`, the fairness part of
`ImplementsLifecycle` and of `ImplementsOverlapped`, `StopReturns`, `StartReturns`, `LateStopCounts`, `CallsReturn`,
`LoadReturns`), which is out of the prover's reach.

## Not modelled

- *Vendored googletest* (33.9K of the repository's 35.4K lines): third-party test code.
- *Windows registry*: each call opens a key, reads or writes one value and closes it. No
  state stays, nothing runs concurrently inside one call.
- *The account, type and path of a service*: values handed over to `CreateServiceW` and
  `ChangeServiceConfigW`. Only that a configuration is newer than a process is kept (`stale`).
- *Descriptions, GetPid, GetExecutablePath*: one query or one change of an attribute that
  no other operation reads.
- *Forwarders* of the Java facade and of `system_service_Service.cpp`: one call each.
- *Error formatting, string conversion, OS detection*: pure functions or constants.
- *Linux variant*: stubs in no build target; the loader refuses other systems.
- *Sample services and tests*: read for what they expect of the library.
- A failing `QueryServiceStatusEx` in a polling loop and a failing
  `RegisterServiceCtrlHandlerExW`; a process id that is reused between `QueryPid` and
  `Terminate`, which is another program's loss and not visible in this state; a handler
  class without `apply`; a use after `close()`, which is undefined.

## Plan

Done: all modules above. Left: a composition of `ServiceManager` with the queue of
`ServiceControl`, so that a timed-out stop of `Remove` is the same control that reaches the
process later, and that only one does; the registry wrapper, if it ever keeps state.
