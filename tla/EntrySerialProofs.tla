------------------------- MODULE EntrySerialProofs ------------------------
(***************************************************************************)
(* What holds of ServiceEntry, for every value of the other constants,     *)
(* when its calls of ServicePrepare do not overlap.                        *)
(***************************************************************************)
EXTENDS ServiceEntryProofs

\* The facts about the constants and types that every step below uses.
LEMMA FlowTypes ==
  ASSUME OverlapInv
  PROVE  /\ prep \in [Act -> Steps]
         /\ hand \in [Act -> {"none", "running", "done", "failed"}]
         /\ "start" \in Act /\ "control" \in Act /\ "start" # "control"
         /\ Stoppers \subseteq Act /\ "control" \in Stoppers
         /\ ExitThreads \subseteq Stoppers /\ "start" \notin Stoppers
         /\ "control" \notin ExitThreads
         /\ \A a \in Act : a = "start" \/ a \in Stoppers
         /\ status \in Statuses /\ scm \in Statuses
         /\ pipe \in Seq(Controls)
         /\ scm.checkPoint \in Nat /\ status.checkPoint \in Nat
BY EntryAssumption, StatusTypes DEF OverlapInv, TypeOK, Act, Stoppers, Statuses, StatusesWith

\* A step of the one ServicePrepare in progress keeps the flow.
LEMMA FlowPrepare ==
  ASSUME OverlapInv, Flow, NEW a \in Act, PrepareStep(a)
  PROVE  Flow'
<1> USE FlowTypes
<1>p. InProgress(a) /\ \A b \in Act : b # a => ~InProgress(b)
  BY DEF Flow, OneAtATime, InProgress, PrepareStep, Enter, Pend, Notify, Bump,
         WaitDone, Reset, Final, ReportFinal
<1>s. a = "start" \/ (a \in Stoppers /\ prep["start"] = "ret")
  BY <1>p DEF Flow, OneAtATime, InProgress
<1>m. UNCHANGED <<main, pipe>>
  BY DEF PrepareStep, Enter, Pend, Notify, Bump, WaitDone, Reset, Final, ReportFinal
<1>n. main \in {"dispatching", "stopping"} /\ pipe = <<>> /\ scm.state # "STOPPED"
  BY <1>p, <1>s DEF Flow, DispatcherInv, InProgress, OverlapInv, TypeOK, Mains,
     Progress, StopProgress
<1>r. prep["start"] # "idle"
  BY <1>p, <1>s DEF InProgress
<1>x. prep' = [prep EXCEPT ![a] = prep'[a]]
  BY DEF PrepareStep, Enter, Pend, Notify, Bump, WaitDone, Reset, Final, ReportFinal
<1>o. OneAtATime' /\ prep'[a] # "idle"
  <2>1. prep'[a] # "idle"
    BY DEF PrepareStep, Enter, Pend, Notify, Bump, WaitDone, Reset, Final, ReportFinal
  <2> QED
    BY <2>1, <1>p, <1>s, <1>x DEF Flow, OneAtATime, InProgress
<1>d. DispatcherInv'
  BY <1>m, <1>n DEF DispatcherInv
<1>1. CASE Enter(a)
  <2>1. /\ status'.state = status.state /\ scm' = scm
        /\ prep[a] = "enter" /\ prep'[a] \in {"pending", "final"}
    BY <1>1 DEF Enter, Statuses, StatusesWith
  <2>2. Progress'
    BY <2>1, <1>m, <1>n, <1>s, <1>x DEF Flow, Progress, Announced
  <2>3. StopProgress'
    BY <2>1, <1>m, <1>n, <1>p, <1>s, <1>x DEF Flow, StopProgress, InProgress, InLoop
  <2>4. Counter'
    BY <2>1, <1>p, <1>x DEF Counter, InProgress
  <2> QED
    BY <1>o, <1>d, <2>2, <2>3, <2>4 DEF Flow
<1>2. CASE Pend(a)
  <2>1. /\ status'.state = PendingState(a) /\ scm' = scm
        /\ prep[a] = "pending" /\ prep'[a] = "notify"
    BY <1>2, <1>n, <1>r DEF Pend, Statuses, StatusesWith
  <2>2. Progress'
    BY <2>1, <1>m, <1>n, <1>s, <1>x DEF Flow, Progress, StopProgress, InProgress, Announced,
           PendingState
  <2>3. StopProgress'
    BY <2>1, <1>m, <1>n, <1>p, <1>s, <1>x
       DEF Flow, Progress, StopProgress, InProgress, InLoop, Announced,
           PendingState
  <2>4. Counter'
    BY <2>1, <1>p, <1>x DEF Flow, Counter, InProgress
  <2> QED
    BY <1>o, <1>d, <2>2, <2>3, <2>4 DEF Flow
<1>3. CASE Notify(a)
  <2>1. /\ UNCHANGED status /\ scm' = status
        /\ prep[a] \in {"notify", "renotify"} /\ prep'[a] = "bump"
    BY <1>3, <1>n, <1>r DEF Notify, Report
  <2>2. Progress'
    BY <2>1, <1>m, <1>n, <1>s, <1>x DEF Flow, Progress, StopProgress, InProgress, Announced
  <2>3. StopProgress'
    BY <2>1, <1>m, <1>n, <1>p, <1>s, <1>x
       DEF Flow, Progress, StopProgress, InProgress, InLoop, Announced
  <2>4. Counter'
    BY <2>1, <1>p, <1>x DEF Flow, Counter, InProgress
  <2> QED
    BY <1>o, <1>d, <2>2, <2>3, <2>4 DEF Flow
<1>4. CASE Bump(a)
  <2>1. /\ status'.state = status.state /\ scm' = scm
        /\ status'.checkPoint = status.checkPoint + 1
        /\ prep[a] = "bump" /\ prep'[a] = "wait"
    BY <1>4, <1>n, <1>r DEF Bump, Statuses, StatusesWith
  <2>2. Progress'
    BY <2>1, <1>m, <1>n, <1>s, <1>x DEF Flow, Progress, StopProgress, InProgress, Announced
  <2>3. StopProgress'
    BY <2>1, <1>m, <1>n, <1>p, <1>s, <1>x
       DEF Flow, Progress, StopProgress, InProgress, InLoop, Announced
  <2>4. Counter'
    BY <2>1, <1>p, <1>x DEF Flow, Counter, InProgress
  <2> QED
    BY <1>o, <1>d, <2>2, <2>3, <2>4 DEF Flow
<1>5. CASE WaitDone(a)
  <2>1. /\ status' = status /\ scm' = scm
        /\ prep[a] = "wait" /\ prep'[a] = "reset"
    BY <1>5, <1>n, <1>r DEF WaitDone, Statuses, StatusesWith
  <2>2. Progress'
    BY <2>1, <1>m, <1>n, <1>s, <1>x DEF Flow, Progress, StopProgress, InProgress, Announced
  <2>3. StopProgress'
    BY <2>1, <1>m, <1>n, <1>p, <1>s, <1>x
       DEF Flow, Progress, StopProgress, InProgress, InLoop, Announced
  <2>4. Counter'
    BY <2>1, <1>p, <1>x DEF Flow, Counter, InProgress
  <2> QED
    BY <1>o, <1>d, <2>2, <2>3, <2>4 DEF Flow
<1>6. CASE Reset(a)
  <2>1. /\ status'.state = status.state /\ scm' = scm
        /\ prep[a] = "reset" /\ prep'[a] = "final"
    BY <1>6, <1>n, <1>r DEF Reset, Statuses, StatusesWith
  <2>2. Progress'
    BY <2>1, <1>m, <1>n, <1>s, <1>x DEF Flow, Progress, StopProgress, InProgress, Announced
  <2>3. StopProgress'
    BY <2>1, <1>m, <1>n, <1>p, <1>s, <1>x
       DEF Flow, Progress, StopProgress, InProgress, InLoop, Announced
  <2>4. Counter'
    BY <2>1, <1>p, <1>x DEF Flow, Counter, InProgress
  <2> QED
    BY <1>o, <1>d, <2>2, <2>3, <2>4 DEF Flow
<1>7. CASE Final(a)
  <2>1. /\ status'.state = TargetState(a) /\ scm' = scm
        /\ prep[a] = "final" /\ prep'[a] = "report"
    BY <1>7, <1>n, <1>r DEF Final, Statuses, StatusesWith
  <2>2. Progress'
    BY <2>1, <1>m, <1>n, <1>s, <1>x DEF Flow, Progress, StopProgress, InProgress, Announced,
           TargetState
  <2>3. StopProgress'
    BY <2>1, <1>m, <1>n, <1>p, <1>s, <1>x
       DEF Flow, Progress, StopProgress, InProgress, InLoop, Announced,
           TargetState
  <2>4. Counter'
    BY <2>1, <1>p, <1>x DEF Flow, Counter, InProgress
  <2> QED
    BY <1>o, <1>d, <2>2, <2>3, <2>4 DEF Flow
<1>8. CASE ReportFinal(a)
  <2>1. /\ UNCHANGED status /\ scm' = status
        /\ prep[a] = "report" /\ prep'[a] = "ret"
    BY <1>8, <1>n, <1>r DEF ReportFinal, Report
  <2>2. Progress'
    BY <2>1, <1>m, <1>n, <1>s, <1>x DEF Flow, Progress, StopProgress, InProgress, Announced
  <2>3. StopProgress'
    BY <2>1, <1>m, <1>n, <1>p, <1>s, <1>x
       DEF Flow, Progress, StopProgress, InProgress, InLoop, Announced
  <2>4. Counter'
    BY <2>1, <1>p, <1>x DEF Flow, Counter, InProgress
  <2> QED
    BY <1>o, <1>d, <2>2, <2>3, <2>4 DEF Flow
<1> QED
  BY <1>1, <1>2, <1>3, <1>4, <1>5, <1>6, <1>7, <1>8 DEF PrepareStep

\* Every step keeps the flow when activations do not overlap.
LEMMA FlowStep ==
  ASSUME Serial, OverlapInv, Flow, [Next]_vars
  PROVE  Flow'
<1> USE FlowTypes
<1> DEFINE Rest == UNCHANGED <<main, prep, pipe, scm, status>>
<1>0. ASSUME UNCHANGED <<main, prep, pipe, scm>>,
             status'.state = status.state, status'.checkPoint = status.checkPoint
      PROVE  Flow'
  BY <1>0 DEF Flow, OneAtATime, DispatcherInv, Progress, StopProgress, Counter,
     InProgress, InLoop, Announced
<1>1. CASE Launch
  <2>1. /\ main = "none" /\ main' = "launched" /\ UNCHANGED <<prep, pipe, status>>
        /\ scm'.state = "START_PENDING"
    BY <1>1 DEF Launch, Constructed
  <2>2. \A a \in Act : prep[a] = "idle"
    BY <2>1 DEF Flow, DispatcherInv
  <2> QED
    BY <2>1, <2>2 DEF Flow, OneAtATime, DispatcherInv, Progress, StopProgress, Counter,
       InProgress, InLoop, Announced
<1>2. ASSUME ProcessEnds PROVE Flow'
  <2>1. /\ main' = "none" /\ pipe' = <<>> /\ status'.state = "START_PENDING"
        /\ prep' = [a \in Act |-> "idle"] /\ scm'.state = "STOPPED"
    BY <1>2 DEF ProcessEnds, Constructed, Stopped
  <2> QED
    BY <2>1 DEF Flow, OneAtATime, DispatcherInv, Progress, StopProgress, Counter,
       InProgress, InLoop, Announced
<1>3. ASSUME NEW c \in Controls, SendControl(c) PROVE Flow'
  <2>1. pipe' # <<>> /\ Tail(pipe') = <<>> /\ pipe = <<>>
    BY <1>3 DEF SendControl, Serial, Quiet
  <2> QED
    BY <2>1, <1>3 DEF SendControl, Serial, Quiet, Flow, OneAtATime, DispatcherInv,
       Progress, StopProgress, Counter, InProgress, InLoop, Announced
<1>4. ASSUME scm.state = "RUNNING", \A a \in Act : ~InProgress(a), NEW e \in Stoppers, prep[e] = "idle",
             prep' = [prep EXCEPT ![e] = "enter"], UNCHANGED <<scm, status>>,
             pipe' = <<>>, main' \in {"dispatching", "stopping"}
      PROVE  Flow'
  <2>1. prep["start"] = "ret" /\ scm.state = status.state /\ scm.state = "RUNNING"
    BY <1>4 DEF OverlapInv, RunningIsLate, Announced, InProgress, Flow, StopProgress
  <2>2. OneAtATime' /\ DispatcherInv' /\ Progress' /\ Counter'
    BY <1>4, <2>1 DEF Flow, OneAtATime, DispatcherInv, Progress, Counter,
       InProgress, Announced
  <2>3. StopProgress'
    BY <1>4, <2>1 DEF Flow, StopProgress, InProgress, InLoop
  <2> QED
    BY <2>2, <2>3 DEF Flow
<1>5. ASSUME NEW e \in ExitThreads, Exit(e) PROVE Flow'
  BY <1>4, <1>5 DEF Exit, Serial, Quiet
<1>6. CASE TakeStop
  BY <1>4, <1>6 DEF TakeStop, Flow, DispatcherInv, OverlapInv, ControlThread
<1>7. CASE ServiceMain
  BY <1>7 DEF ServiceMain, Flow, OneAtATime, DispatcherInv, Progress, StopProgress,
     Counter, InProgress, InLoop, Announced
<1>8. CASE Create
  BY <1>8 DEF Create, Constructed, Flow, OneAtATime, DispatcherInv, Progress, StopProgress,
     Counter, InProgress, InLoop, Announced
<1>9. CASE Execute \/ DispatcherReturns \/ Close
  BY <1>9 DEF Execute, DispatcherReturns, Close, Flow, OneAtATime, DispatcherInv, Progress,
     StopProgress, Counter, InProgress, InLoop, Announced
<1>10. CASE StopHandled
  BY <1>10 DEF StopHandled, Flow, OneAtATime, DispatcherInv, Progress, StopProgress,
     Counter, InProgress, InLoop, Announced
<1>11. CASE TakeCode \/ CodeHandled
  BY <1>11 DEF TakeCode, CodeHandled, Flow, OneAtATime, DispatcherInv, Progress,
     StopProgress, Counter, InProgress, InLoop, Announced
<1>12. ASSUME NEW code \in NativeCodes, RegisterNativeHandler(code) PROVE Flow'
  BY <1>12, <1>0 DEF RegisterNativeHandler, Statuses, StatusesWith
<1>13. ASSUME NEW c \in Callers, NEW code \in ExitCodes, SetExitCode(c, code)
       PROVE Flow'
  BY <1>13, <1>0 DEF SetExitCode, Statuses, StatusesWith
<1>14. ASSUME NEW c \in Callers, SetExitCodeEnd(c) PROVE Flow'
  BY <1>14, <1>0 DEF SetExitCodeEnd, Statuses, StatusesWith
<1>15. ASSUME NEW a \in Act, WaitTimeout(a) PROVE Flow'
  BY <1>15 DEF WaitTimeout, Flow, OneAtATime, DispatcherInv, Progress, StopProgress,
     Counter, InProgress, InLoop, Announced
<1>16. CASE UNCHANGED vars
  BY <1>16, <1>0 DEF vars
<1>17. CASE Environment
  BY <1>17, <1>1, <1>2, <1>3, <1>5, <1>15 DEF Environment, Crash
<1>18. CASE Application
  BY <1>18, <1>0, <1>12, <1>13 DEF Application, RegisterEventHandler
<1>19. CASE MainStep
  BY <1>19, <1>2, <1>6, <1>8, <1>9, <1>10, <1>11 DEF MainStep, ExitProcess
<1>20. ASSUME NEW a \in Act, HandlerDone(a) PROVE Flow'
  BY <1>20, <1>0 DEF HandlerDone
<1> QED
  BY <1>7, <1>14, <1>16, <1>17, <1>18, <1>19, <1>20, FlowPrepare DEF Next

\* No two handlers run at the same time, and none when the service is STOPPED.
LEMMA OneHandler ==
  ASSUME OverlapInv, Flow
  PROVE  /\ \A c, d \in Callers : HandlerRuns(c) /\ HandlerRuns(d) => c = d
         /\ scm.state = "STOPPED" => \A c \in Callers : ~HandlerRuns(c)
         /\ main \in {"none", "launched"} => \A c \in Callers : ~HandlerRuns(c)
         /\ \A a \in Act : prep[a] \notin InLoop => ~HandlerRuns(a)
         /\ \A a \in Act : prep[a] = "report" => \A c \in Callers : ~HandlerRuns(c)
<1> USE FlowTypes
<1>0. "native" \notin Act /\ Callers = Act \cup {"native"}
  BY EntryAssumption DEF Act, Callers
<1>1. \A a \in Act : HandlerRuns(a) => prep[a] \in InLoop /\ InProgress(a)
  BY <1>0 DEF OverlapInv, HandlerInLoop, HandlerRuns, InLoop, InProgress
<1>2. HandlerRuns("native") => scm.state = "RUNNING" /\ \A a \in Act : ~InProgress(a)
  BY DEF HandlerRuns, Flow, DispatcherInv
<1>3. \A a, b \in Act : InProgress(a) /\ InProgress(b) => a = b
  BY DEF Flow, OneAtATime
<1>4. scm.state = "STOPPED" => \A a \in Act : ~InProgress(a)
  <2> SUFFICES ASSUME scm.state = "STOPPED", NEW a \in Act, InProgress(a) PROVE FALSE
    OBVIOUS
  <2>1. CASE a = "start"
    BY <2>1 DEF Flow, Progress, InProgress, DispatcherInv
  <2>2. CASE a \in Stoppers
    BY <2>2 DEF Flow, StopProgress
  <2> QED
    BY <2>1, <2>2
<1>5. main \in {"none", "launched"} => \A a \in Act : ~InProgress(a)
  BY DEF Flow, DispatcherInv, InProgress
<1>6. main \in {"none", "launched"} => ~HandlerRuns("native")
  BY DEF HandlerRuns
<1>7. \A a \in Act : prep[a] = "report" => InProgress(a) /\ prep[a] \notin InLoop
  BY DEF InProgress, InLoop
<1> QED
  BY <1>0, <1>1, <1>2, <1>3, <1>4, <1>5, <1>6, <1>7

\* The status block and the SCM keep the last exit code set.
LEMMA ExitCodeStep ==
  ASSUME OverlapInv, Flow, ExitCodeInv, [Next]_vars
  PROVE  ExitCodeInv'
<1> USE FlowTypes
<1>0. half \in [Callers -> SUBSET ExitCodes] /\ Act \subseteq Callers
      /\ "native" \in Callers /\ "native" \notin Act /\ Callers = Act \cup {"native"}
  BY EntryAssumption DEF OverlapInv, TypeOK, Callers, Act
<1> DEFINE Silent == \A c \in Callers : half[c] = {}
<1>1. \A c \in Callers : ~HandlerRuns(c) => half[c] = {}
  BY DEF ExitCodeInv
<1>2. ASSUME UNCHANGED <<half, lastExit, scm>>,
             status'.specific = status.specific, status'.win32 = status.win32,
             main \in {"none", "launched"} <=> main' \in {"none", "launched"},
             main' = "launched" => main = "launched",
             \A c \in Callers : half[c] # {} => HandlerRuns(c)'
      PROVE  ExitCodeInv'
  BY <1>2 DEF ExitCodeInv, LastExitReported
<1>3. ASSUME UNCHANGED <<half, lastExit, status, main, hand>>, Report,
             status.state = "STOPPED" => \A c \in Callers : ~HandlerRuns(c),
             main \notin {"none", "launched"}
      PROVE  ExitCodeInv'
  BY <1>1, <1>3 DEF Report, ExitCodeInv, LastExitReported, HandlerRuns, Seen
<1>4. CASE Launch
  <2>1. Silent
    BY <1>1, <1>4, OneHandler DEF Launch
  <2> QED
    BY <1>4, <2>1 DEF Launch, Constructed, ExitCodeInv, LastExitReported
<1>5. ASSUME ProcessEnds PROVE ExitCodeInv'
  BY <1>5 DEF ProcessEnds, Constructed, Stopped, ExitCodeInv, LastExitReported, Seen,
     Decoded, EncodedWin32, NO_ERROR, ERROR_SERVICE_SPECIFIC_ERROR,
     ERROR_PROCESS_ABORTED, ERROR_SERVICE_NEVER_STARTED
<1>6. CASE Create
  <2>1. Silent
    BY <1>1, <1>6, OneHandler DEF Create
  <2> QED
    BY <1>6, <2>1 DEF Create, Constructed, ExitCodeInv, LastExitReported, EncodedWin32,
       NO_ERROR
<1>7. ASSUME NEW c \in Callers, NEW code \in ExitCodes, SetExitCode(c, code)
      PROVE  ExitCodeInv'
  <2>1. \A d \in Callers : d # c => half[d] = {}
    BY <1>1, <1>7, OneHandler DEF SetExitCode
  <2>2. scm.state # "STOPPED" /\ main # "launched"
    BY <1>7, OneHandler DEF SetExitCode
  <2>3. status'.specific = code /\ half' = [half EXCEPT ![c] = {code}]
        /\ HandlerRuns(c)' /\ UNCHANGED <<main, scm, lastExit>>
    BY <1>7 DEF SetExitCode, Statuses, StatusesWith, HandlerRuns
  <2> QED
    BY <1>0, <2>1, <2>2, <2>3 DEF ExitCodeInv, LastExitReported
<1>8. ASSUME NEW c \in Callers, SetExitCodeEnd(c) PROVE ExitCodeInv'
  <2>1. PICK code \in half[c] : SetExitCodeEnd(c)!(code)
    BY <1>8 DEF SetExitCodeEnd
  <2>2. HandlerRuns(c) /\ code = status.specific
    BY <2>1 DEF ExitCodeInv
  <2>3. \A d \in Callers : d # c => half[d] = {}
    BY <1>1, <2>2, OneHandler
  <2>4. scm.state # "STOPPED" /\ main # "launched"
    BY <2>2, OneHandler
  <2>5. status'.specific = code /\ status'.win32 = EncodedWin32(code) /\ lastExit' = code
        /\ half' = [half EXCEPT ![c] = {}] /\ UNCHANGED <<main, scm>>
    BY <2>1, <2>2 DEF Statuses, StatusesWith
  <2> QED
    BY <1>0, <2>3, <2>4, <2>5 DEF ExitCodeInv, LastExitReported
<1>9. ASSUME NEW a \in Act, PrepareStep(a) PROVE ExitCodeInv'
  <2>0. main \notin {"none", "launched"}
    BY <1>9 DEF PrepareStep, Enter, Pend, Notify, Bump, WaitDone, Reset, Final,
       ReportFinal, Flow, DispatcherInv
  <2>1. CASE Enter(a) \/ Bump(a) \/ Reset(a) \/ Final(a) \/ WaitDone(a)
    BY <2>1, <1>2 DEF Enter, Bump, Reset, Final, WaitDone, Statuses, StatusesWith, ExitCodeInv,
       HandlerRuns
  <2>2. CASE Pend(a)
    <3>1. ~HandlerRuns(a)
      BY <2>2, OneHandler DEF Pend, InLoop
    <3>2. \A c \in Callers : HandlerRuns(c) => HandlerRuns(c)'
      BY <3>1, <2>2, <1>0 DEF Pend, HandlerRuns
    <3> QED
      BY <3>2, <2>2, <1>2 DEF Pend, Statuses, StatusesWith, ExitCodeInv
  <2>3. CASE Notify(a)
    <3>1. status.state # "STOPPED"
      BY <2>3 DEF Notify, Flow, Progress, StopProgress, InProgress, Announced
    <3> QED
      BY <3>1, <2>0, <2>3, <1>3 DEF Notify
  <2>4. CASE ReportFinal(a)
    BY <2>0, <2>4, <1>3, OneHandler DEF ReportFinal
  <2> QED
    BY <1>9, <2>1, <2>2, <2>3, <2>4 DEF PrepareStep
<1>10. ASSUME NEW a \in Act, HandlerDone(a) PROVE ExitCodeInv'
  BY <1>0, <1>2, <1>10 DEF HandlerDone, HandlerRuns, ExitCodeInv
<1>11. CASE StopHandled
  <2>1. ~HandlerRuns("control")
    BY <1>11, OneHandler DEF StopHandled, InLoop
  <2> QED
    BY <2>1, <1>0, <1>2, <1>11 DEF StopHandled, HandlerRuns, ExitCodeInv
<1>12. CASE CodeHandled
  BY <1>0, <1>2, <1>12 DEF CodeHandled, HandlerRuns, ExitCodeInv
<1>13. CASE Execute \/ DispatcherReturns \/ Close \/ TakeStop \/ TakeCode \/ ServiceMain
  BY <1>0, <1>2, <1>13 DEF Execute, DispatcherReturns, Close, TakeStop, TakeCode,
     ServiceMain, HandlerRuns, ExitCodeInv
<1>14. ASSUME NEW code \in NativeCodes, RegisterNativeHandler(code) PROVE ExitCodeInv'
  BY <1>0, <1>2, <1>14 DEF RegisterNativeHandler, Statuses, StatusesWith, HandlerRuns, ExitCodeInv
<1>15. CASE UNCHANGED <<main, status, hand, half, scm, lastExit>>
  BY <1>0, <1>2, <1>15 DEF HandlerRuns, ExitCodeInv
<1>16. CASE Environment
  BY <1>16, <1>4, <1>5, <1>15 DEF Environment, Crash, SendControl, Exit, WaitTimeout
<1>17. CASE Application
  BY <1>17, <1>7, <1>14, <1>15 DEF Application, RegisterEventHandler
<1>18. CASE MainStep
  BY <1>18, <1>5, <1>6, <1>11, <1>12, <1>13 DEF MainStep, ExitProcess
<1> QED
  BY <1>8, <1>9, <1>10, <1>13, <1>15, <1>16, <1>17, <1>18 DEF Next, vars

\* The invariant of one activation at a time, from the first state on.
LEMMA SerialInvariant == Serial => (Safety => []SerialInv)
<1> SUFFICES ASSUME Serial PROVE Safety => []SerialInv
  OBVIOUS
<1>1. Init => SerialInv
  <2> SUFFICES ASSUME Init PROVE OverlapInv /\ Flow /\ ExitCodeInv
    BY DEF SerialInv
  <2>1. OverlapInv
    BY OverlapInit
  <2>2. Flow
    BY <2>1, FlowTypes DEF Init, Constructed, Stopped, Flow, OneAtATime, DispatcherInv,
       Progress, StopProgress, Counter, InProgress, InLoop, Announced
  <2>3. ExitCodeInv
    BY DEF Init, Stopped, ExitCodeInv, LastExitReported, Seen, Decoded, EncodedWin32,
       NO_ERROR, ERROR_SERVICE_SPECIFIC_ERROR, ERROR_SERVICE_NEVER_STARTED
  <2> QED
    BY <2>1, <2>2, <2>3
<1>2. SerialInv /\ [Next]_vars => SerialInv'
  BY OverlapStep, FlowStep, ExitCodeStep DEF SerialInv
<1> QED
  BY <1>1, <1>2, PTL DEF Safety

\* When no two activations overlap, nothing of the process is at work once the
\* SCM has been told STOPPED.
THEOREM StoppedLast == Serial => (Safety => []StoppedIsFinal)
<1> SUFFICES ASSUME Serial PROVE Safety => []StoppedIsFinal
  OBVIOUS
<1>1. OverlapInv /\ Flow => StoppedIsFinal
  <2> SUFFICES ASSUME OverlapInv, Flow, scm.state = "STOPPED"
               PROVE  /\ \A a \in Act : ~InProgress(a) /\ hand[a] # "running"
                      /\ main # "handling"
    BY DEF StoppedIsFinal
  <2>1. \A a \in Act : ~InProgress(a)
    <3> SUFFICES ASSUME NEW a \in Act, InProgress(a) PROVE FALSE
      OBVIOUS
    <3>1. main # "none"
      BY DEF Flow, DispatcherInv, InProgress
    <3> QED
      BY <3>1, FlowTypes DEF Flow, Progress, StopProgress, InProgress
  <2>2. \A a \in Act : hand[a] # "running"
    BY <2>1 DEF OverlapInv, HandlerInLoop, InLoop, InProgress
  <2> QED
    BY <2>1, <2>2 DEF Flow, DispatcherInv
<1> QED
  BY <1>1, SerialInvariant, PTL DEF SerialInv

\* When no two activations overlap, no thread touches the entry once close()
\* has deleted it.
THEOREM ClosedUnused == Serial => (Safety => []NoUseAfterClose)
<1> SUFFICES ASSUME Serial PROVE Safety => []NoUseAfterClose
  OBVIOUS
<1>1. OverlapInv /\ Flow => NoUseAfterClose
  BY DEF OverlapInv, HandlerInLoop, InLoop, InProgress, Flow, DispatcherInv,
     NoUseAfterClose
<1> QED
  BY <1>1, SerialInvariant, PTL DEF SerialInv

\* When no two activations overlap, a stopped service shows every client the
\* last exit code its application set.
THEOREM ExitCodeKept == Serial => (Safety => []LastExitReported)
<1> SUFFICES ASSUME Serial PROVE Safety => []LastExitReported
  OBVIOUS
<1>1. ExitCodeInv => LastExitReported
  BY DEF ExitCodeInv
<1> QED
  BY <1>1, SerialInvariant, PTL DEF SerialInv

\* When no two activations overlap, each further notification of a
\* ServicePrepare moves the SCM's progress counter on.
THEOREM CounterMoves == Serial => (Safety => RenotifyAdvances)
<1> SUFFICES ASSUME Serial PROVE Safety => RenotifyAdvances
  OBVIOUS
<1> DEFINE A == \A a \in Act :
       prep[a] = "renotify" /\ prep'[a] = "bump" /\ scm.state # "STOPPED"
         => scm'.checkPoint > scm.checkPoint
<1>1. ASSUME OverlapInv, Flow, [Next]_vars PROVE A
  <2> SUFFICES ASSUME NEW a \in Act, prep[a] = "renotify", prep'[a] = "bump",
                      scm.state # "STOPPED"
               PROVE  scm'.checkPoint > scm.checkPoint
    OBVIOUS
  <2> USE <1>1, FlowTypes
  <2>1. InProgress(a) /\ (a = "start" \/ prep["start"] = "ret")
    BY DEF Flow, OneAtATime, InProgress
  <2>2. Notify(a)
    <3>1. \A b \in Act : PrepareStep(b) => prep' = [prep EXCEPT ![b] = prep'[b]]
      BY DEF PrepareStep, Enter, Pend, Notify, Bump, WaitDone, Reset, Final, ReportFinal
    <3>2. ASSUME NEW b \in Act, PrepareStep(b) PROVE b = a
      BY <3>1, <3>2
    <3>3. PrepareStep(a)
      BY <1>1, <3>2 DEF Next, vars, Environment, Application, MainStep,
         Launch, Crash, ProcessEnds, SendControl, Exit, WaitTimeout,
         RegisterEventHandler, RegisterNativeHandler, SetExitCode, Create, Execute,
         DispatcherReturns, Close, ExitProcess, TakeStop, StopHandled, TakeCode,
         CodeHandled, ServiceMain, HandlerDone, SetExitCodeEnd
    <3> QED
      BY <3>3 DEF PrepareStep, Enter, Pend, Bump, WaitDone, Reset, Final, ReportFinal
  <2>3. scm' = status
    BY <2>1, <2>2 DEF Notify, Report
  <2> QED
    BY <1>1, <2>3 DEF Flow, Counter
<1> QED
  BY <1>1, SerialInvariant, PTL DEF Safety, SerialInv, RenotifyAdvances

\* Every step of the service process that a client can see is a step of the
\* lifecycle, when no two activations overlap.
LEMMA LifecycleStep ==
  ASSUME SerialInv, [Next]_vars
  PROVE  [Lifecycle!Next]_(Lifecycle!vars)
<1> USE FlowTypes DEF SerialInv
<1>1. CASE UNCHANGED scm
  BY <1>1 DEF Lifecycle!vars
<1>2. CASE Launch
  BY <1>2 DEF Launch, Flow, Progress, Constructed, Lifecycle!Next, Lifecycle!Launch, Seen,
     Decoded, NO_ERROR, Lifecycle!NO_ERROR, ERROR_SERVICE_SPECIFIC_ERROR, ERROR_SERVICE_NEVER_STARTED
<1>3. CASE ProcessEnds
  BY <1>1, <1>3 DEF ProcessEnds, Stopped, Lifecycle!Next, Lifecycle!Abort, Seen, Decoded,
     ERROR_PROCESS_ABORTED, Lifecycle!ERROR_PROCESS_ABORTED,
     ERROR_SERVICE_SPECIFIC_ERROR, ERROR_SERVICE_NEVER_STARTED
<1>4. ASSUME NEW a \in Act, Notify(a) \/ ReportFinal(a)
      PROVE  [Lifecycle!Next]_(Lifecycle!vars)
  <2>1. InProgress(a)
    BY <1>4 DEF Notify, ReportFinal, InProgress
  <2>2. scm' = scm \/ scm' = status
    BY <1>4 DEF Notify, ReportFinal, Report
  <2>3. Seen(status) \in LiveCodes
    BY DEF OverlapInv, TypeOK, OwnStatuses, StatusesWith, Seen, Decoded, LiveCodes,
       ERROR_SERVICE_SPECIFIC_ERROR, ERROR_SERVICE_NEVER_STARTED, NO_ERROR
  <2> DEFINE Moves(from, to) == scm.state = from /\ status.state = to
  <2>4. \/ Moves("START_PENDING", "START_PENDING") \/ Moves("START_PENDING", "RUNNING")
        \/ Moves("RUNNING", "STOP_PENDING") \/ Moves("STOP_PENDING", "STOP_PENDING")
        \/ Moves("STOP_PENDING", "STOPPED") \/ Moves("RUNNING", "STOPPED")
    <3>1. CASE a = "start"
      BY <1>4, <2>1, <3>1 DEF Notify, ReportFinal, Flow, Progress, DispatcherInv,
         InProgress, Announced
    <3>2. CASE a \in Stoppers
      BY <1>4, <2>1, <3>2 DEF Notify, ReportFinal, Flow, StopProgress, InLoop
    <3> QED
      BY <3>1, <3>2
  <2> QED
    BY <1>1, <2>2, <2>3, <2>4 DEF Lifecycle!Next, Lifecycle!Report, Lifecycle!Starting,
       Lifecycle!Run, Lifecycle!BeginStop, Lifecycle!Stopping, Lifecycle!Finish,
       LiveCodes, Lifecycle!LiveCodes, NO_ERROR, Lifecycle!NO_ERROR
<1> QED
  BY <1>1, <1>2, <1>3, <1>4 DEF Next, vars, Environment, Application, MainStep, PrepareStep,
     Crash, SendControl, Exit, WaitTimeout, RegisterEventHandler, RegisterNativeHandler,
     SetExitCode, Create, Execute, DispatcherReturns, Close, ExitProcess, TakeStop,
     StopHandled, TakeCode, CodeHandled, ServiceMain, Enter, Pend, Bump, WaitDone, Reset,
     Final, HandlerDone, SetExitCodeEnd

\* ServiceEntry implements the safety part of the lifecycle clients rely on, for
\* every value of the constants, when no two activations overlap.
THEOREM FollowsLifecycle == Serial => (Safety => Lifecycle!Safety)
<1> SUFFICES ASSUME Serial PROVE Safety => Lifecycle!Safety
  OBVIOUS
<1>1. Init => Lifecycle!Init
  BY DEF Init, Stopped, Lifecycle!Init, Seen, Decoded, NO_ERROR, Lifecycle!NO_ERROR,
     ERROR_SERVICE_SPECIFIC_ERROR, ERROR_SERVICE_NEVER_STARTED
<1> QED
  BY <1>1, LifecycleStep, SerialInvariant, PTL DEF Safety, Lifecycle!Safety
=============================================================================
