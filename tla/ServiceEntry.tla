--------------------------- MODULE ServiceEntry ---------------------------
(***************************************************************************)
(* A service process built on servicelib and the Service Control Manager   *)
(* that launches and controls it: ServiceEntryWin.cpp and Pending.hpp.     *)
(*                                                                         *)
(* ServicePrepare runs on three kinds of thread, called activations here:  *)
(* "start" (the ServiceMain thread), "control" (the dispatcher thread,     *)
(* inside ServiceHandler) and every thread that calls ServiceEntry::Exit.  *)
(* All of them write the one SERVICE_STATUS of the process, field by       *)
(* field and without a lock, so each write is a step.  A handler runs on a *)
(* thread of its own while ServicePrepare keeps reporting progress.        *)
(***************************************************************************)
EXTENDS ScmStatus, Sequences

CONSTANTS
  ExitThreads,    \* threads that call ServiceEntry::Exit
  NativeCodes,    \* control codes the application may register a handler for
  MaxCheckPoint,  \* bound on the time-outs of one ServicePrepare
  MaxQueued,      \* bound on the controls queued to the dispatcher
  Env             \* what the environment may do, see below

SessionChange == "SESSIONCHANGE"

\* "Overlap": a stop or an Exit may begin while another ServicePrepare runs,
\* and the SCM, whose wait for a handler times out after 30s, may queue more
\* controls.  "ThreadFails": CreateThread may fail.  "LateRegister": a native
\* handler may be registered once the service runs.
EnvChoices == {"Overlap", "ThreadFails", "LateRegister"}

ASSUME EntryAssumption ==
  /\ Env \subseteq EnvChoices
  /\ {"start", "control", "native"} \cap ExitThreads = {}
  /\ {"STOP", "STARTING", "STOPPING"} \cap NativeCodes = {}
  /\ MaxCheckPoint \in Nat /\ MaxQueued \in Nat

Act == {"start", "control"} \cup ExitThreads
Callers == Act \cup {"native"}
Steps == {"idle", "enter", "pending", "notify", "renotify", "bump", "wait",
          "reset", "final", "report", "ret"}
Controls == {"STOP"} \cup NativeCodes

VARIABLES
  main,      \* the thread of main(): creates the entry, then dispatches
  handlers,  \* the events and native codes a handler is registered for
  status,    \* Impl::status, the process's own SERVICE_STATUS
  prep,      \* where each activation of ServicePrepare is
  hand,      \* the handler thread of each activation
  half,      \* SetExitCode calls between their two writes
  pipe,      \* controls the SCM has queued to the dispatcher
  scm,       \* the status the SCM holds for the service
  lastExit   \* history: the last exit code set, or how the process died

vars == <<main, handlers, status, prep, hand, half, pipe, scm, lastExit>>
process == <<main, handlers, status, prep, hand, half>>

Callback(a) == IF a = "start" THEN "STARTING" ELSE "STOPPING"
\* Variant: the two pending states swapped (for ImplementsLifecycle).
MutPendingState(a) == IF a = "start" THEN "STOP_PENDING" ELSE "START_PENDING"
PendingState(a) == IF a = "start" THEN "START_PENDING" ELSE "STOP_PENDING"
\* Variant: a stop requested on another thread restores RUNNING (for
\* StopIsNotWithdrawn).
MutTargetExit(a) == IF a = "control" THEN "STOPPED" ELSE "RUNNING"
TargetState(a) == IF a = "start" THEN "RUNNING" ELSE "STOPPED"

\* Variant: no memset and no dwWin32ExitCode, garbage is reported (for TypeOK).
MutConstructed ==
  [state |-> "START_PENDING", checkPoint |-> 0, specific |-> NO_ERROR,
   win32 |-> 204, accepts |-> {"STOP"}]

\* Impl's constructor: STOP and SHUTDOWN are accepted from the first report on.
Constructed ==
  [state |-> "START_PENDING", checkPoint |-> 0, specific |-> NO_ERROR,
   win32 |-> NO_ERROR, accepts |-> {"STOP"}]

Stopped(win32) ==
  [state |-> "STOPPED", checkPoint |-> 0, specific |-> NO_ERROR,
   win32 |-> win32, accepts |-> {}]

InProgress(a) == prep[a] \notin {"idle", "ret"}

\* No control is queued, the dispatcher waits and no ServicePrepare runs.
Quiet ==
  /\ scm.state = "RUNNING" /\ main = "dispatching" /\ pipe = <<>>
  /\ \A a \in Act : ~InProgress(a)

Init ==
  /\ main = "none" /\ handlers = {} /\ status = Constructed
  /\ prep = [a \in Act |-> "idle"] /\ hand = [a \in Act |-> "none"]
  /\ half = [c \in Callers |-> {}] /\ pipe = <<>>
  /\ scm = Stopped(ERROR_SERVICE_NEVER_STARTED) /\ lastExit = NO_ERROR
---------------------------------------------------------------------------
(* The SCM starts the process; main() builds the entry and dispatches.     *)

Launch ==
  /\ main = "none"
  /\ main' = "launched"
  /\ scm' = [Constructed EXCEPT !.accepts = {}]
  /\ lastExit' = NO_ERROR
  /\ UNCHANGED <<handlers, status, prep, hand, half, pipe>>

Create ==
  /\ main = "launched"
  /\ main' = "created" /\ status' = Constructed
  /\ UNCHANGED <<handlers, prep, hand, half, pipe, scm, lastExit>>

RegisterEventHandler(event) ==
  /\ main = "created"
  /\ handlers' = handlers \cup {event}
  /\ UNCHANGED <<main, status, prep, hand, half, pipe, scm, lastExit>>

\* Variant: the accept mask forgotten (for RegisteredIsDeliverable).
MutRegisterNativeHandler(code) ==
  /\ code \notin handlers /\ main = "created"
  /\ handlers' = handlers \cup {code}
  /\ UNCHANGED <<main, status, prep, hand, half, pipe, scm, lastExit>>

\* The application registers native handlers before Execute or in its
\* starting handler; the accept mask reaches the SCM with the next report.
RegisterNativeHandler(code) ==
  /\ code \notin handlers
  /\ \/ main = "created"
     \/ hand["start"] = "running"
     \/ "LateRegister" \in Env /\ scm.state = "RUNNING"
  /\ main \notin {"none", "launched", "closed"}
  /\ handlers' = handlers \cup {code}
  /\ status' = IF code = SessionChange
               THEN [status EXCEPT !.accepts = @ \cup {SessionChange}]
               ELSE status
  /\ UNCHANGED <<main, prep, hand, half, pipe, scm, lastExit>>

Execute ==
  /\ main = "created"
  /\ main' \in {"dispatching", "returned"}   \* returned: no SCM connection
  /\ UNCHANGED <<handlers, status, prep, hand, half, pipe, scm, lastExit>>

\* The dispatcher starts the ServiceMain thread, which registers the control
\* handler and calls ServicePrepare.
ServiceMain ==
  /\ main = "dispatching" /\ prep["start"] = "idle"
  /\ prep' = [prep EXCEPT !["start"] = "enter"]
  /\ UNCHANGED <<main, handlers, status, hand, half, pipe, scm, lastExit>>
---------------------------------------------------------------------------
(* ServicePrepare, one step per access to the shared status.               *)

\* SetServiceStatus fails while no control handler is registered (hSS is
\* null), and the SCM ignores a service that has already reported STOPPED.
Report ==
  scm' = IF prep["start"] = "idle" \/ scm.state = "STOPPED" THEN scm ELSE status

\* Lines 20-24: reset the progress counter; is there a handler to run?
Enter(a) ==
  /\ prep[a] = "enter"
  /\ status' = [status EXCEPT !.checkPoint = 0]
  /\ prep' = [prep EXCEPT ![a] = IF Callback(a) \in handlers
                                 THEN "pending" ELSE "final"]
  /\ UNCHANGED <<main, handlers, hand, half, pipe, scm, lastExit>>

\* Variant: the target state announced at once (for
\* NoRunningWhileStarting and CodesAfterStart).
MutPend(a) ==
  /\ prep[a] = "pending"
  /\ status' = [status EXCEPT !.state = TargetState(a)]
  /\ hand' = [hand EXCEPT ![a] = "running"]
  /\ prep' = [prep EXCEPT ![a] = "notify"]
  /\ UNCHANGED <<main, handlers, half, pipe, scm, lastExit>>

\* Lines 27-39: announce the pending state, create the handler's thread.
Pend(a) ==
  /\ prep[a] = "pending"
  /\ status' = [status EXCEPT !.state = PendingState(a)]
  /\ \/ hand' = [hand EXCEPT ![a] = "running"]
     \/ "ThreadFails" \in Env /\ hand' = [hand EXCEPT ![a] = "failed"]
  /\ prep' = [prep EXCEPT ![a] = "notify"]
  /\ UNCHANGED <<main, handlers, half, pipe, scm, lastExit>>

\* Line 44; "renotify" is the same line in a later round of the loop.
Notify(a) ==
  /\ prep[a] \in {"notify", "renotify"}
  /\ Report
  /\ prep' = [prep EXCEPT ![a] = "bump"]
  /\ UNCHANGED <<main, handlers, status, hand, half, pipe, lastExit>>

\* Variant: the counter stands still (for RenotifyAdvances).
MutBump(a) ==
  /\ prep[a] = "bump"
  /\ prep' = [prep EXCEPT ![a] = "wait"]
  /\ UNCHANGED <<main, handlers, status, hand, half, pipe, scm, lastExit>>

Bump(a) ==
  /\ prep[a] = "bump"
  /\ status' = [status EXCEPT !.checkPoint = @ + 1]
  /\ prep' = [prep EXCEPT ![a] = "wait"]
  /\ UNCHANGED <<main, handlers, hand, half, pipe, scm, lastExit>>

\* Line 47: the handler did not finish within a second.
WaitTimeout(a) ==
  /\ prep[a] = "wait" /\ hand[a] = "running"
  /\ status.checkPoint < MaxCheckPoint
  /\ prep' = [prep EXCEPT ![a] = "renotify"]
  /\ UNCHANGED <<main, handlers, status, hand, half, pipe, scm, lastExit>>

\* Variant: the handler is waited for one second only (for StoppedIsFinal and
\* NoUseAfterClose).
MutWaitOnce(a) ==
  /\ prep[a] = "wait" /\ hand[a] # "none"
  /\ prep' = [prep EXCEPT ![a] = "reset"]
  /\ UNCHANGED <<main, handlers, status, hand, half, pipe, scm, lastExit>>

\* Variant: the loop goes on unless the shared state is still its own (for
\* PrepareReturns).
MutWaitOwn(a) ==
  /\ prep[a] = "wait" /\ hand[a] \in {"done", "failed"}
  /\ status.state = PendingState(a)
  /\ prep' = [prep EXCEPT ![a] = "reset"]
  /\ UNCHANGED <<main, handlers, status, hand, half, pipe, scm, lastExit>>

\* Variant: the loop ends on WAIT_OBJECT_0 alone (for StopCompletes).
MutWaitObject(a) ==
  /\ prep[a] = "wait" /\ hand[a] = "done"
  /\ prep' = [prep EXCEPT ![a] = "reset"]
  /\ UNCHANGED <<main, handlers, status, hand, half, pipe, scm, lastExit>>

\* The wait ends with the handler's thread, and at once (WAIT_FAILED) when
\* there is none.
WaitDone(a) ==
  /\ prep[a] = "wait" /\ hand[a] \in {"done", "failed"}
  /\ prep' = [prep EXCEPT ![a] = "reset"]
  /\ UNCHANGED <<main, handlers, status, hand, half, pipe, scm, lastExit>>

Reset(a) ==
  /\ prep[a] = "reset"
  /\ status' = [status EXCEPT !.checkPoint = 0]
  /\ prep' = [prep EXCEPT ![a] = "final"]
  /\ UNCHANGED <<main, handlers, hand, half, pipe, scm, lastExit>>

Final(a) ==
  /\ prep[a] = "final"
  /\ status' = [status EXCEPT !.state = TargetState(a)]
  /\ prep' = [prep EXCEPT ![a] = "report"]
  /\ UNCHANGED <<main, handlers, hand, half, pipe, scm, lastExit>>

ReportFinal(a) ==
  /\ prep[a] = "report"
  /\ Report
  /\ prep' = [prep EXCEPT ![a] = "ret"]
  /\ UNCHANGED <<main, handlers, status, hand, half, pipe, lastExit>>

PrepareStep(a) ==
  \/ Enter(a) \/ Pend(a) \/ Notify(a) \/ Bump(a) \/ WaitDone(a)
  \/ Reset(a) \/ Final(a) \/ ReportFinal(a)
---------------------------------------------------------------------------
(* The application's handlers.                                             *)

HandlerRuns(c) == IF c = "native" THEN main = "handling" ELSE hand[c] = "running"

\* Variant: the first code set wins (for LastExitReported).
MutSetExitCode(c, code) ==
  /\ HandlerRuns(c) /\ half[c] = {}
  /\ status' = [status EXCEPT !.specific = IF @ = NO_ERROR THEN code ELSE @]
  /\ half' = [half EXCEPT ![c] = {code}]
  /\ UNCHANGED <<main, handlers, prep, hand, pipe, scm, lastExit>>

\* SetExitCode writes the specific code first, the Win32 code second.
SetExitCode(c, code) ==
  /\ HandlerRuns(c) /\ half[c] = {}
  /\ status' = [status EXCEPT !.specific = code]
  /\ half' = [half EXCEPT ![c] = {code}]
  /\ UNCHANGED <<main, handlers, prep, hand, pipe, scm, lastExit>>

SetExitCodeEnd(c) ==
  \E code \in half[c] :
    /\ status' = [status EXCEPT !.win32 = EncodedWin32(code)]
    /\ half' = [half EXCEPT ![c] = {}]
    /\ lastExit' = code
    /\ UNCHANGED <<main, handlers, prep, hand, pipe, scm>>

HandlerDone(a) ==
  /\ hand[a] = "running" /\ half[a] = {}
  /\ hand' = [hand EXCEPT ![a] = "done"]
  /\ UNCHANGED <<main, handlers, status, prep, half, pipe, scm, lastExit>>
---------------------------------------------------------------------------
(* Controls.  ControlService checks the state and the accept mask the SCM  *)
(* holds: a stop is let through to a starting service, nothing else is;    *)
(* user-defined codes need no bit in the mask.                             *)

SendControl(c) ==
  /\ main \in {"dispatching", "handling", "stopping"}
  /\ \/ scm.state = "RUNNING"
     \/ scm.state = "START_PENDING" /\ c = "STOP"
  /\ c \in {"STOP", SessionChange} => c \in scm.accepts
  /\ "Overlap" \in Env \/ Quiet
  /\ Len(pipe) < MaxQueued
  /\ pipe' = Append(pipe, c)
  /\ UNCHANGED <<main, handlers, status, prep, hand, half, scm, lastExit>>

\* ServiceHandler: SERVICE_CONTROL_STOP and SERVICE_CONTROL_SHUTDOWN.
TakeStop ==
  /\ main = "dispatching" /\ pipe # <<>> /\ Head(pipe) = "STOP"
  /\ main' = "stopping" /\ pipe' = Tail(pipe)
  /\ prep' = [prep EXCEPT !["control"] = "enter"]
  /\ UNCHANGED <<handlers, status, hand, half, scm, lastExit>>

StopHandled ==
  /\ main = "stopping" /\ prep["control"] = "ret"
  /\ main' = "dispatching"
  /\ prep' = [prep EXCEPT !["control"] = "idle"]
  /\ hand' = [hand EXCEPT !["control"] = "none"]
  /\ UNCHANGED <<handlers, status, half, pipe, scm, lastExit>>

\* ServiceHandler, default: the registered handler, on this very thread.
TakeCode ==
  /\ main = "dispatching" /\ pipe # <<>> /\ Head(pipe) # "STOP"
  /\ main' = IF Head(pipe) \in handlers THEN "handling" ELSE "dispatching"
  /\ pipe' = Tail(pipe)
  /\ UNCHANGED <<handlers, status, prep, hand, half, scm, lastExit>>

CodeHandled ==
  /\ main = "handling" /\ half["native"] = {}
  /\ main' = "dispatching"
  /\ UNCHANGED <<handlers, status, prep, hand, half, pipe, scm, lastExit>>

\* ServiceEntry::Exit, on any thread of the process.
Exit(e) ==
  /\ prep[e] = "idle"
  /\ main \notin {"none", "launched", "closed"}
  /\ "Overlap" \in Env \/ Quiet
  /\ prep' = [prep EXCEPT ![e] = "enter"]
  /\ UNCHANGED <<main, handlers, status, hand, half, pipe, scm, lastExit>>
---------------------------------------------------------------------------
(* The end of the process.                                                 *)

\* The dispatcher call returns once the service has reported STOPPED.
DispatcherReturns ==
  /\ main = "dispatching" /\ pipe = <<>> /\ scm.state = "STOPPED"
  /\ main' = "returned"
  /\ UNCHANGED <<handlers, status, prep, hand, half, pipe, scm, lastExit>>

\* ServiceEntry.close: the entry, its status and its handlers are deleted.
Close ==
  /\ main = "returned"
  /\ main' = "closed"
  /\ UNCHANGED <<handlers, status, prep, hand, half, pipe, scm, lastExit>>

\* Whatever still runs dies with the process; the SCM notices a service that
\* never reported STOPPED.
ProcessEnds ==
  /\ main' = "none" /\ handlers' = {} /\ status' = Constructed
  /\ prep' = [a \in Act |-> "idle"] /\ hand' = [a \in Act |-> "none"]
  /\ half' = [c \in Callers |-> {}] /\ pipe' = <<>>
  /\ IF scm.state = "STOPPED"
     THEN UNCHANGED <<scm, lastExit>>
     ELSE scm' = Stopped(ERROR_PROCESS_ABORTED) /\ lastExit' = ERROR_PROCESS_ABORTED

ExitProcess == main \in {"returned", "closed"} /\ ProcessEnds
Crash == main # "none" /\ ProcessEnds
---------------------------------------------------------------------------
Environment ==
  \/ Launch \/ Crash
  \/ \E c \in Controls : SendControl(c)
  \/ \E e \in ExitThreads : Exit(e)
  \/ \E a \in Act : WaitTimeout(a)

Application ==
  \/ \E event \in {"STARTING", "STOPPING"} : RegisterEventHandler(event)
  \/ \E code \in NativeCodes : RegisterNativeHandler(code)
  \/ \E c \in Callers, code \in ExitCodes : SetExitCode(c, code)

MainStep ==
  \/ Create \/ Execute \/ DispatcherReturns \/ Close \/ ExitProcess
  \/ TakeStop \/ StopHandled \/ TakeCode \/ CodeHandled

Next ==
  \/ Environment \/ Application \/ MainStep \/ ServiceMain
  \/ \E a \in Act : PrepareStep(a) \/ HandlerDone(a)
  \/ \E c \in Callers : SetExitCodeEnd(c)

\* Every thread runs and every handler returns; nobody has to send a control,
\* call Exit, set a code, start the service or crash it.
Fairness ==
  /\ WF_vars(MainStep) /\ SF_vars(CodeHandled) /\ WF_vars(ServiceMain)
  /\ \A a \in Act : WF_vars(PrepareStep(a)) /\ SF_vars(HandlerDone(a))
  /\ \A c \in Callers : WF_vars(SetExitCodeEnd(c))

Safety == Init /\ [][Next]_vars
Spec == Safety /\ Fairness
---------------------------------------------------------------------------
Mains == {"none", "launched", "created", "dispatching", "handling", "stopping",
          "returned", "closed"}

StatusesWith(codes) ==
  [state : States, checkPoint : Nat, specific : LiveCodes, win32 : codes,
   accepts : SUBSET Controls]

OwnStatuses == StatusesWith({NO_ERROR, ERROR_SERVICE_SPECIFIC_ERROR})
Statuses == StatusesWith(Win32Codes)

\* Type correctness of the process's and the SCM's variables.
TypeOK ==
  /\ main \in Mains
  /\ handlers \in SUBSET ({"STARTING", "STOPPING"} \cup NativeCodes)
  /\ status \in OwnStatuses /\ scm \in Statuses
  /\ prep \in [Act -> Steps]
  /\ hand \in [Act -> {"none", "running", "done", "failed"}]
  /\ half \in [Callers -> SUBSET ExitCodes]
  /\ pipe \in Seq(Controls)
  /\ lastExit \in ExitCodes \cup {NO_ERROR, ERROR_PROCESS_ABORTED}

\* The SCM (and so every client) never sees RUNNING while the application's
\* starting handler is still at work, whoever else is reporting meanwhile
\* (Pending.hpp 47-56).
NoRunningWhileStarting == scm.state = "RUNNING" => hand["start"] # "running"

\* Line 43 looks a code up in eventHandlers without a lock.  No code is queued
\* or handled while the starting handler, which may still be registering
\* handlers (line 87), is at work.
CodesAfterStart ==
  main = "handling" \/ (\E i \in DOMAIN pipe : pipe[i] # "STOP")
    => hand["start"] # "running"

\* The comment at Pending.hpp:54: when RUNNING is set, the service has been
\* initialised: its starting handler, if it has one, was run to its end.
InitializedBeforeRunning ==
  scm.state = "RUNNING" /\ "STARTING" \in handlers /\ prep["start"] = "ret"
    => hand["start"] = "done"

\* Once ServiceMain's own ServicePrepare has returned, a stop announced to the
\* SCM is never withdrawn, however many stops and exits overlap.
StopIsNotWithdrawn ==
  [][prep["start"] = "ret" /\ scm.state = "STOP_PENDING"
       => scm'.state \in {"STOP_PENDING", "STOPPED"}]_vars

\* Every call of ServicePrepare returns, whatever overlaps with it (or its
\* process is gone): InProgress(a) ~> ~InProgress(a), in the form that TLC
\* checks without a tableau.
PrepareReturns == \A a \in Act : []<>~InProgress(a)

\* The comment at Pending.hpp:45: each further notification of the same
\* ServicePrepare shows the SCM a progress counter that has moved on.
RenotifyAdvances ==
  [][\A a \in Act :
       prep[a] = "renotify" /\ prep'[a] = "bump" /\ scm.state # "STOPPED"
         => scm'.checkPoint > scm.checkPoint]_vars

\* STOPPED is the last thing a process does with the entry: no ServicePrepare
\* and no handler is at work when the SCM learns that the service stopped.
StoppedIsFinal ==
  scm.state = "STOPPED" =>
    /\ \A a \in Act : ~InProgress(a) /\ hand[a] # "running"
    /\ main # "handling"

\* close() deletes the status block, the handlers and pInstance: no thread
\* uses them afterwards (ServiceEntryWin.cpp 31, 40, 67-70).
NoUseAfterClose ==
  main = "closed" => \A a \in Act : ~InProgress(a) /\ hand[a] # "running"

\* A client that reads the exit code of a stopped service gets the last code
\* the application set, from whichever handler (or ERROR_PROCESS_ABORTED); the
\* one code it cannot get is ERROR_SERVICE_NEVER_STARTED.
LastExitReported ==
  scm.state = "STOPPED" => Seen(scm) = Decoded(lastExit, EncodedWin32(lastExit))

\* A running service with a session-change handler is one the SCM delivers
\* session changes to.
RegisteredIsDeliverable ==
  scm.state = "RUNNING" /\ SessionChange \in handlers
    => SessionChange \in scm.accepts

\* A stop control that was queued is carried out.
StopCompletes ==
  (\E i \in DOMAIN pipe : pipe[i] = "STOP") ~> scm.state = "STOPPED"

\* What clients see is the lifecycle of ServiceLifecycle.
Lifecycle == INSTANCE ServiceLifecycle
               WITH state <- scm.state, exitCode <- Seen(scm)
ImplementsLifecycle == Lifecycle!Spec
=============================================================================
