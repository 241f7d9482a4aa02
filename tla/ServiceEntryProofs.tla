------------------------ MODULE ServiceEntryProofs ------------------------
(***************************************************************************)
(* What holds of ServiceEntry for every set of exit threads, control codes *)
(* and exit codes, and for every environment.                              *)
(***************************************************************************)
EXTENDS EntryInvariants, TLAPS

\* The two records the code builds are statuses.
LEMMA StatusTypes ==
  /\ Constructed \in OwnStatuses /\ OwnStatuses \subseteq Statuses
  /\ [Constructed EXCEPT !.accepts = {}] \in Statuses
  /\ \A w \in Win32Codes : Stopped(w) \in Statuses
BY DEF Constructed, Stopped, OwnStatuses, Statuses, StatusesWith, LiveCodes, Controls,
   States, Win32Codes

\* Each write of the code to one field of the shared status keeps it a status.
LEMMA StatusWrites ==
  ASSUME TypeOK,
         \/ \E a \in Act : Enter(a) \/ Pend(a) \/ Bump(a) \/ Reset(a) \/ Final(a)
         \/ \E c \in Callers, code \in ExitCodes : SetExitCode(c, code)
         \/ \E c \in Callers : SetExitCodeEnd(c)
         \/ \E code \in NativeCodes : RegisterNativeHandler(code)
  PROVE  status' \in OwnStatuses
<1> USE DEF TypeOK, OwnStatuses, StatusesWith, LiveCodes
<1>1. ASSUME NEW a \in Act, Enter(a) \/ Reset(a) PROVE status' \in OwnStatuses
  BY <1>1 DEF Enter, Reset
<1>2. ASSUME NEW a \in Act, Bump(a) PROVE status' \in OwnStatuses
  BY <1>2 DEF Bump
<1>3. ASSUME NEW a \in Act, Pend(a) PROVE status' \in OwnStatuses
  BY <1>3 DEF Pend, PendingState, States
<1>4. ASSUME NEW a \in Act, Final(a) PROVE status' \in OwnStatuses
  BY <1>4 DEF Final, TargetState, States
<1>5. ASSUME NEW c \in Callers, NEW code \in ExitCodes, SetExitCode(c, code)
      PROVE status' \in OwnStatuses
  BY <1>5 DEF SetExitCode
<1>6. ASSUME NEW c \in Callers, SetExitCodeEnd(c) PROVE status' \in OwnStatuses
  BY <1>6 DEF SetExitCodeEnd, EncodedWin32, Win32Codes
<1>7. ASSUME NEW code \in NativeCodes, RegisterNativeHandler(code)
      PROVE status' \in OwnStatuses
  BY <1>7 DEF RegisterNativeHandler, Controls
<1> QED
  BY <1>1, <1>2, <1>3, <1>4, <1>5, <1>6, <1>7

\* SetServiceStatus leaves a status in the SCM's hands.
LEMMA ReportType ==
  ASSUME TypeOK, Report PROVE scm' \in Statuses
BY StatusTypes DEF TypeOK, Report

\* Type correctness is preserved by every step, whatever overlaps with it.
LEMMA TypeOKStep == TypeOK /\ [Next]_vars => TypeOK'
<1> SUFFICES ASSUME TypeOK, [Next]_vars PROVE TypeOK'
  OBVIOUS
<1> USE DEF TypeOK, Act, Callers
<1>1. CASE Launch
  BY <1>1, StatusTypes DEF Launch, Mains, Win32Codes
<1>2. ASSUME ProcessEnds PROVE TypeOK'
  BY <1>2, StatusTypes DEF ProcessEnds, Win32Codes, Mains, Steps, Controls
<1>3. ASSUME NEW c \in Controls, SendControl(c) PROVE TypeOK'
  BY <1>3 DEF SendControl
<1>4. ASSUME NEW e \in ExitThreads, Exit(e) PROVE TypeOK'
  BY <1>4 DEF Exit, Steps
<1>5. ASSUME NEW a \in Act, WaitTimeout(a) PROVE TypeOK'
  BY <1>5 DEF WaitTimeout, Steps
<1>6. ASSUME NEW ev \in {"STARTING", "STOPPING"}, RegisterEventHandler(ev)
      PROVE TypeOK'
  BY <1>6 DEF RegisterEventHandler
<1>7. ASSUME NEW code \in NativeCodes, RegisterNativeHandler(code) PROVE TypeOK'
  BY <1>7, StatusWrites DEF RegisterNativeHandler
<1>8. ASSUME NEW c \in Callers, NEW code \in ExitCodes, SetExitCode(c, code)
      PROVE TypeOK'
  BY <1>8, StatusWrites DEF SetExitCode
<1>9. CASE MainStep
  <2>1. CASE Create
    BY <2>1, StatusTypes DEF Create, Mains
  <2>2. CASE Execute
    BY <2>2 DEF Execute, Mains
  <2>3. CASE DispatcherReturns
    BY <2>3 DEF DispatcherReturns, Mains
  <2>9. CASE Close
    BY <2>9 DEF Close, Mains
  <2>4. CASE ExitProcess
    BY <2>4, <1>2 DEF ExitProcess
  <2>5. CASE TakeStop
    BY <2>5 DEF TakeStop, Mains, Steps
  <2>6. CASE StopHandled
    BY <2>6 DEF StopHandled, Mains, Steps
  <2>7. CASE TakeCode
    BY <2>7 DEF TakeCode, Mains
  <2>8. CASE CodeHandled
    BY <2>8 DEF CodeHandled, Mains
  <2> QED
    BY <1>9, <2>1, <2>2, <2>3, <2>4, <2>5, <2>6, <2>7, <2>8, <2>9 DEF MainStep
<1>10. CASE ServiceMain
  BY <1>10 DEF ServiceMain, Steps
<1>11. ASSUME NEW a \in Act, PrepareStep(a) PROVE TypeOK'
  <2>1. CASE Enter(a)
    BY <2>1, StatusWrites DEF Enter, Steps
  <2>2. CASE Pend(a)
    BY <2>2, StatusWrites DEF Pend, Steps
  <2>3. CASE Notify(a)
    BY <2>3, ReportType DEF Notify, Steps
  <2>4. CASE Bump(a)
    BY <2>4, StatusWrites DEF Bump, Steps
  <2>5. CASE WaitDone(a)
    BY <2>5 DEF WaitDone, Steps
  <2>6. CASE Reset(a)
    BY <2>6, StatusWrites DEF Reset, Steps
  <2>7. CASE Final(a)
    BY <2>7, StatusWrites DEF Final, Steps
  <2>8. CASE ReportFinal(a)
    BY <2>8, ReportType DEF ReportFinal, Steps
  <2> QED
    BY <1>11, <2>1, <2>2, <2>3, <2>4, <2>5, <2>6, <2>7, <2>8 DEF PrepareStep
<1>12. ASSUME NEW a \in Act, HandlerDone(a) PROVE TypeOK'
  BY <1>12 DEF HandlerDone
<1>13. ASSUME NEW c \in Callers, SetExitCodeEnd(c) PROVE TypeOK'
  BY <1>13, StatusWrites DEF SetExitCodeEnd
<1>14. CASE UNCHANGED vars
  BY <1>14 DEF vars
<1>15. CASE Environment
  BY <1>15, <1>1, <1>2, <1>3, <1>4, <1>5 DEF Environment, Crash
<1>16. CASE Application
  BY <1>16, <1>6, <1>7, <1>8 DEF Application
<1> QED
  BY <1>9, <1>10, <1>11, <1>12, <1>13, <1>14, <1>15, <1>16 DEF Next

\* TypeOK holds in every reachable state, for every value of the constants.
THEOREM TypeCorrect == Safety => []TypeOK
<1>1. Init => TypeOK
  BY StatusTypes DEF Init, TypeOK, Win32Codes, Mains, Steps, Controls, Act, Callers
<1> QED
  BY <1>1, TypeOKStep, PTL DEF Safety
---------------------------------------------------------------------------
(* Whatever overlaps.                                                      *)

\* A queue loses its head or gains a last element.
LEMMA QueueMembers ==
  ASSUME NEW S, NEW q \in Seq(S)
  PROVE  /\ q # <<>> => Head(q) \in S /\ Tail(q) \in Seq(S)
         /\ q # <<>> => 1 \in DOMAIN q /\ Head(q) = q[1]
         /\ q # <<>> => \A i \in DOMAIN Tail(q) : i + 1 \in DOMAIN q /\ Tail(q)[i] = q[i + 1]
         /\ \A e \in S : \A i \in DOMAIN Append(q, e) :
              \/ i \in DOMAIN q /\ Append(q, e)[i] = q[i]
              \/ Append(q, e)[i] = e
OBVIOUS

\* A code that is queued or handled was let through to a running service, and
\* ServiceMain does not go back behind its last report.
LEMMA CodesStep == OverlapInv /\ [Next]_vars => CodesAreLate'
<1> SUFFICES ASSUME OverlapInv, [Next]_vars PROVE CodesAreLate'
  OBVIOUS
<1>t. prep \in [Act -> Steps] /\ "start" \in Act /\ "control" \in Act
      /\ "start" \notin ExitThreads /\ pipe \in Seq(Controls)
  BY EntryAssumption DEF OverlapInv, TypeOK, Act
<1>c. CodesAreLate /\ RunningIsLate /\ BeforeDispatch /\ ControlThread
  BY DEF OverlapInv
<1> USE DEF CodesAreLate, Announced
<1> DEFINE Late == prep["start"] \in Announced => prep'["start"] \in Announced
<1>1. ASSUME Late, UNCHANGED <<main, pipe>> PROVE CodesAreLate'
  BY <1>1, <1>c
<1>2. ASSUME ProcessEnds PROVE CodesAreLate'
  BY <1>2 DEF ProcessEnds
<1>3. ASSUME NEW c \in Controls, SendControl(c) PROVE CodesAreLate'
  <2>1. c # "STOP" => prep["start"] \in Announced
    BY <1>3, <1>c DEF SendControl, RunningIsLate
  <2> QED
    BY <1>3, <2>1, <1>c, <1>t, QueueMembers DEF SendControl
<1>4. CASE TakeStop
  BY <1>4, <1>c, <1>t, QueueMembers DEF TakeStop
<1>5. CASE TakeCode
  BY <1>5, <1>c, <1>t, QueueMembers DEF TakeCode
<1>6. CASE StopHandled \/ CodeHandled
  BY <1>6, <1>c, <1>t DEF StopHandled, CodeHandled
<1>7. CASE Launch \/ Create \/ Execute \/ DispatcherReturns \/ Close
  BY <1>7, <1>c DEF Launch, Create, Execute, DispatcherReturns, Close
<1>8. CASE ServiceMain
  BY <1>8, <1>c, <1>t DEF ServiceMain
<1>9. ASSUME NEW a \in Act, PrepareStep(a) \/ WaitTimeout(a) PROVE CodesAreLate'
  <2>1. /\ UNCHANGED <<main, pipe>> /\ prep' = [prep EXCEPT ![a] = prep'[a]]
        /\ prep[a] \in Announced => prep'[a] = "ret"
    BY <1>9, <1>t DEF PrepareStep, WaitTimeout, Enter, Pend, Notify, Bump, WaitDone,
       Reset, Final, ReportFinal
  <2>2. prep'["start"] = IF a = "start" THEN prep'[a] ELSE prep["start"]
    BY <2>1, <1>t
  <2>3. Late
    BY <2>1, <2>2
  <2> QED
    BY <2>1, <2>3, <1>1
<1>10. ASSUME NEW e \in ExitThreads, Exit(e) PROVE CodesAreLate'
  BY <1>10, <1>1, <1>t DEF Exit
<1>11. ASSUME UNCHANGED <<main, pipe, prep>> PROVE CodesAreLate'
  BY <1>11, <1>1
<1>12. CASE MainStep
  BY <1>12, <1>2, <1>4, <1>5, <1>6, <1>7 DEF MainStep, ExitProcess
<1>13. CASE Environment
  BY <1>13, <1>2, <1>3, <1>7, <1>9, <1>10 DEF Environment, Crash
<1>14. CASE Application \/ UNCHANGED vars
  BY <1>14, <1>11 DEF Application, RegisterEventHandler, RegisterNativeHandler,
     SetExitCode, vars
<1>15. ASSUME NEW a \in Act, HandlerDone(a) PROVE CodesAreLate'
  BY <1>15, <1>11 DEF HandlerDone
<1>16. ASSUME NEW c \in Callers, SetExitCodeEnd(c) PROVE CodesAreLate'
  BY <1>16, <1>11 DEF SetExitCodeEnd
<1> QED
  BY <1>8, <1>9, <1>12, <1>13, <1>14, <1>15, <1>16 DEF Next

\* The invariant of overlapping activations is preserved by every step.
LEMMA OverlapStep == OverlapInv /\ [Next]_vars => OverlapInv'
<1> SUFFICES ASSUME OverlapInv, [Next]_vars PROVE OverlapInv'
  OBVIOUS
<1>0. TypeOK'
  BY TypeOKStep DEF OverlapInv
<1>t. prep \in [Act -> Steps] /\ hand \in [Act -> {"none", "running", "done", "failed"}]
      /\ "start" \in Act /\ "control" \in Act /\ "start" # "control"
      /\ status \in Statuses /\ scm \in Statuses /\ ExitThreads \subseteq Act
      /\ "start" \notin ExitThreads /\ "control" \notin ExitThreads
  BY EntryAssumption, StatusTypes DEF OverlapInv, TypeOK, Act
<1> USE <1>t
<1> DEFINE Kept == BeforeDispatch /\ ControlThread /\ HandlerInLoop /\ RunningIsLate /\ StopIsKept
<1>k. Kept
  BY DEF OverlapInv
<1> SUFFICES Kept'
  BY <1>0, CodesStep DEF OverlapInv
<1> USE DEF BeforeDispatch, ControlThread, HandlerInLoop, RunningIsLate, StopIsKept, InLoop, Announced
<1>1. CASE Launch
  BY <1>1, <1>k DEF Launch, Constructed
<1>2. ASSUME ProcessEnds PROVE Kept'
  BY <1>2, <1>k DEF ProcessEnds, Constructed, Stopped
<1>3. ASSUME NEW c \in Controls, SendControl(c) PROVE Kept'
  BY <1>3, <1>k DEF SendControl
<1>4. ASSUME NEW e \in ExitThreads, Exit(e) PROVE Kept'
  BY <1>4, <1>k DEF Exit
<1>5. ASSUME NEW a \in Act, WaitTimeout(a) PROVE Kept'
  BY <1>5, <1>k DEF WaitTimeout
<1>6. ASSUME NEW ev \in {"STARTING", "STOPPING"}, RegisterEventHandler(ev) PROVE Kept'
  BY <1>6, <1>k DEF RegisterEventHandler
<1>7. ASSUME NEW code \in NativeCodes, RegisterNativeHandler(code) PROVE Kept'
  <2>1. status'.state = status.state
    BY <1>7 DEF RegisterNativeHandler, Statuses, StatusesWith
  <2> QED
    BY <2>1, <1>7, <1>k DEF RegisterNativeHandler
<1>8. ASSUME NEW c \in Callers, NEW code \in ExitCodes, SetExitCode(c, code) PROVE Kept'
  <2>1. status'.state = status.state
    BY <1>8 DEF SetExitCode, Statuses, StatusesWith
  <2> QED
    BY <2>1, <1>8, <1>k DEF SetExitCode
<1>9. CASE MainStep
  <2>1. CASE Create
    BY <2>1, <1>k DEF Create, Constructed
  <2>2. CASE Execute \/ DispatcherReturns \/ Close
    BY <2>2, <1>k DEF Execute, DispatcherReturns, Close
  <2>3. CASE ExitProcess
    BY <2>3, <1>2 DEF ExitProcess
  <2>4. CASE TakeStop
    BY <2>4, <1>k DEF TakeStop
  <2>5. CASE StopHandled
    BY <2>5, <1>k DEF StopHandled
  <2>6. CASE TakeCode \/ CodeHandled
    BY <2>6, <1>k DEF TakeCode, CodeHandled
  <2> QED
    BY <1>9, <2>1, <2>2, <2>3, <2>4, <2>5, <2>6 DEF MainStep
<1>10. CASE ServiceMain
  BY <1>10, <1>k DEF ServiceMain
<1>11. ASSUME NEW a \in Act, PrepareStep(a) PROVE Kept'
  <2>1. CASE Enter(a) \/ Reset(a) \/ Bump(a)
    <3>1. status'.state = status.state /\ prep[a] \in {"enter", "reset", "bump"}
          /\ UNCHANGED <<scm, hand, main>>
      BY <2>1 DEF Enter, Reset, Bump, Statuses, StatusesWith
    <3>2. /\ prep' = [prep EXCEPT ![a] = prep'[a]]
          /\ prep'[a] \in {"pending", "final", "wait"}
          /\ prep[a] = "bump" => prep'[a] = "wait"
      BY <2>1 DEF Enter, Reset, Bump
    <3> QED
      BY <3>1, <3>2, <1>k
  <2>2. CASE Pend(a)
    BY <2>2, <1>k DEF Pend, PendingState, Statuses, StatusesWith
  <2>3. CASE Notify(a)
    BY <2>3, <1>k DEF Notify, Report
  <2>4. CASE WaitDone(a)
    BY <2>4, <1>k DEF WaitDone
  <2>5. CASE Final(a)
    BY <2>5, <1>k DEF Final, TargetState, Statuses, StatusesWith
  <2>6. CASE ReportFinal(a)
    BY <2>6, <1>k DEF ReportFinal, Report
  <2> QED
    BY <1>11, <2>1, <2>2, <2>3, <2>4, <2>5, <2>6 DEF PrepareStep
<1>12. ASSUME NEW a \in Act, HandlerDone(a) PROVE Kept'
  BY <1>12, <1>k DEF HandlerDone
<1>13. ASSUME NEW c \in Callers, SetExitCodeEnd(c) PROVE Kept'
  <2>1. status'.state = status.state
    BY <1>13 DEF SetExitCodeEnd, Statuses, StatusesWith
  <2> QED
    BY <2>1, <1>13, <1>k DEF SetExitCodeEnd
<1>14. CASE UNCHANGED vars
  BY <1>14, <1>k DEF vars
<1>15. CASE Environment
  BY <1>15, <1>1, <1>2, <1>3, <1>4, <1>5 DEF Environment, Crash
<1>16. CASE Application
  BY <1>16, <1>6, <1>7, <1>8 DEF Application
<1> QED
  BY <1>9, <1>10, <1>11, <1>12, <1>13, <1>14, <1>15, <1>16 DEF Next

\* The invariant of overlapping activations holds before the first launch.
LEMMA OverlapInit == Init => OverlapInv
<1> SUFFICES ASSUME Init PROVE OverlapInv
  OBVIOUS
<1>1. TypeOK
  BY StatusTypes DEF Init, TypeOK, Win32Codes, Mains, Steps, Controls, Act, Callers
<1>2. "start" \in Act /\ "control" \in Act
  BY DEF Act
<1> QED
  BY <1>1, <1>2 DEF OverlapInv, Init, Constructed, Stopped, BeforeDispatch,
     ControlThread, HandlerInLoop, RunningIsLate, StopIsKept, CodesAreLate

\* The invariant of overlapping activations holds in every reachable state.
LEMMA OverlapInvariant == Safety => []OverlapInv
BY OverlapInit, OverlapStep, PTL DEF Safety

\* No client sees RUNNING while the starting handler is at work, for any set of
\* threads and any overlap of starts, stops and exits.
THEOREM RunningAfterStarting == Safety => []NoRunningWhileStarting
<1>1. OverlapInv => NoRunningWhileStarting
  BY DEF OverlapInv, HandlerInLoop, RunningIsLate, InLoop, Announced,
         NoRunningWhileStarting, Act
<1> QED
  BY <1>1, OverlapInvariant, PTL

\* A user code never meets the starting handler, for any set of threads and
\* codes and any overlap of starts, stops and exits.
THEOREM CodesFollowStart == Safety => []CodesAfterStart
<1>1. OverlapInv => CodesAfterStart
  BY DEF OverlapInv, HandlerInLoop, CodesAreLate, InLoop, Announced,
         CodesAfterStart, Act
<1> QED
  BY <1>1, OverlapInvariant, PTL

\* Once the service has started, a stop the SCM was told of stays a stop, for
\* any set of threads and any overlap of stops and exits.
THEOREM StopNotWithdrawn == Safety => StopIsNotWithdrawn
<1> DEFINE A == prep["start"] = "ret" /\ scm.state = "STOP_PENDING"
                  => scm'.state \in {"STOP_PENDING", "STOPPED"}
<1>1. ASSUME OverlapInv, [Next]_vars PROVE A
  <2> SUFFICES ASSUME prep["start"] = "ret", scm.state = "STOP_PENDING"
               PROVE  scm'.state \in {"STOP_PENDING", "STOPPED"}
    OBVIOUS
  <2>1. status.state \in {"STOP_PENDING", "STOPPED"} /\ main # "none"
    BY <1>1 DEF OverlapInv, StopIsKept, BeforeDispatch
  <2>2. CASE UNCHANGED scm
    BY <2>2
  <2>3. CASE Report
    BY <2>1, <2>3 DEF Report
  <2>4. CASE ProcessEnds
    BY <2>4 DEF ProcessEnds, Stopped
  <2>5. UNCHANGED scm \/ Report \/ ProcessEnds
    BY <1>1, <2>1 DEF Next, vars, Environment, Application, MainStep, PrepareStep,
       Launch, Crash, SendControl, Exit, WaitTimeout, RegisterEventHandler,
       RegisterNativeHandler, SetExitCode, Create, Execute, DispatcherReturns, Close,
       ExitProcess, TakeStop, StopHandled, TakeCode, CodeHandled, ServiceMain, Enter,
       Pend, Notify, Bump, WaitDone, Reset, Final, ReportFinal, HandlerDone,
       SetExitCodeEnd
  <2> QED
    BY <2>2, <2>3, <2>4, <2>5
<1> QED
  BY <1>1, OverlapInvariant, PTL DEF Safety, StopIsNotWithdrawn


\* Every step keeps the accept masks, unless a running service registers.
LEMMA DeliverableStep ==
  ASSUME "LateRegister" \notin Env, OverlapInv, Deliverable, [Next]_vars
  PROVE  Deliverable'
<1> USE DEF Deliverable, RegisteredIsDeliverable
<1>1. status \in Statuses /\ status.accepts \in SUBSET Controls /\ "start" \in Act
  BY StatusTypes DEF OverlapInv, TypeOK, Statuses, StatusesWith, Act
<1>2. CASE ProcessEnds
  BY <1>2 DEF ProcessEnds, Stopped
<1>3. CASE Launch
  BY <1>3 DEF Launch, Constructed
<1>4. CASE Create
  BY <1>4 DEF Create, Constructed
<1>5. ASSUME NEW code \in NativeCodes, RegisterNativeHandler(code) PROVE Deliverable'
  <2>1. scm.state # "RUNNING"
    BY <1>1, <1>5 DEF RegisterNativeHandler, OverlapInv, BeforeDispatch, HandlerInLoop,
       RunningIsLate, InLoop, Announced
  <2>2. SessionChange \in handlers' => SessionChange \in status'.accepts
    BY <1>1, <1>5 DEF RegisterNativeHandler, Statuses, StatusesWith
  <2> QED
    BY <1>5, <2>1, <2>2 DEF RegisterNativeHandler
<1>6. ASSUME NEW ev \in {"STARTING", "STOPPING"}, RegisterEventHandler(ev) PROVE Deliverable'
  BY <1>6 DEF RegisterEventHandler, SessionChange, OverlapInv, BeforeDispatch, RunningIsLate,
     Announced
<1>7. ASSUME NEW a \in Act, Notify(a) \/ ReportFinal(a) PROVE Deliverable'
  BY <1>7 DEF Notify, ReportFinal, Report
<1>8. ASSUME UNCHANGED <<handlers, scm>>, status'.accepts = status.accepts,
             main' \in {"none", "launched"} => main \in {"none", "launched"}
      PROVE  Deliverable'
  BY <1>8
<1>9. ASSUME NEW a \in Act, Enter(a) \/ Pend(a) \/ Bump(a) \/ Reset(a) \/ Final(a)
      PROVE  Deliverable'
  BY <1>1, <1>8, <1>9 DEF Enter, Pend, Bump, Reset, Final, Statuses, StatusesWith
<1>10. ASSUME NEW c \in Callers,
              (\E code \in ExitCodes : SetExitCode(c, code)) \/ SetExitCodeEnd(c)
       PROVE  Deliverable'
  BY <1>1, <1>8, <1>10 DEF SetExitCode, SetExitCodeEnd, Statuses, StatusesWith
<1>11. ASSUME NEW a \in Act, WaitTimeout(a) \/ WaitDone(a) \/ HandlerDone(a)
       PROVE  Deliverable'
  BY <1>8, <1>11 DEF WaitTimeout, WaitDone, HandlerDone
<1>12. CASE (\E c \in Controls : SendControl(c)) \/ \E e \in ExitThreads : Exit(e)
  BY <1>8, <1>12 DEF SendControl, Exit
<1>13. CASE \/ Execute \/ DispatcherReturns \/ Close \/ ServiceMain
            \/ TakeStop \/ StopHandled \/ TakeCode \/ CodeHandled \/ UNCHANGED vars
  BY <1>8, <1>13 DEF Execute, DispatcherReturns, Close, ServiceMain, TakeStop, StopHandled,
     TakeCode, CodeHandled, vars
<1> QED
  BY <1>2, <1>3, <1>4, <1>5, <1>6, <1>7, <1>9, <1>10, <1>11, <1>12, <1>13
     DEF Next, Environment, Application, MainStep, PrepareStep, Crash, ExitProcess

\* Unless a service registers once it runs, the SCM delivers session changes to
\* every running service with a handler for them, for any overlap.
THEOREM SessionsDelivered ==
  "LateRegister" \notin Env => (Safety => []RegisteredIsDeliverable)
<1> SUFFICES ASSUME "LateRegister" \notin Env PROVE Safety => []RegisteredIsDeliverable
  OBVIOUS
<1>1. Init => Deliverable
  BY DEF Init, Deliverable, RegisteredIsDeliverable
<1>2. OverlapInv /\ Deliverable /\ [Next]_vars => Deliverable'
  BY DeliverableStep
<1>3. Deliverable => RegisteredIsDeliverable
  BY DEF Deliverable
<1> QED
  BY <1>1, <1>2, <1>3, OverlapInvariant, PTL DEF Safety
=============================================================================
