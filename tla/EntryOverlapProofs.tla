------------------------ MODULE EntryOverlapProofs ------------------------
(***************************************************************************)
(* However the stops and exits of a service process overlap its start and  *)
(* each other, what its clients see is OverlappedLifecycle, for every set  *)
(* of exit threads, control codes and exit codes.                          *)
(***************************************************************************)
EXTENDS EntryOverlap, ServiceEntryProofs

\* The activations and the stopping ones among them.
LEMMA Activations ==
  /\ "start" \in Act /\ "start" \notin Stoppers
  /\ "control" \in Act /\ "control" \in Stoppers
  /\ \A e \in ExitThreads : e \in Act /\ e \in Stoppers /\ e # "control" /\ e # "start"
  /\ \A a \in Act : a = "start" \/ a \in Stoppers
  /\ \A a \in Stoppers : a \in Act /\ a # "start" /\ (a = "control" \/ a \in ExitThreads)
BY EntryAssumption DEF Act, Stoppers

\* Nothing begins and nothing ends: the memory stays what it is.
LEMMA EarlyKept ==
  ASSUME EarlyInv, Remember, \A a \in Act : Unfinished(a)' = Unfinished(a),
         main' = "none" => main = "none"
  PROVE  early' = early
<1>1. Begins = {}
  BY Activations DEF Begins
<1>2. early' = {a \in early : main' # "none" /\ Unfinished(a)'}
  BY <1>1 DEF Remember
<1>3. \A a \in early : main' # "none" /\ Unfinished(a)'
  BY DEF EarlyInv, EarlyAtWork
<1> QED
  BY <1>2, <1>3

\* A step that touches neither an activation, nor a state, nor the SCM.
LEMMA SilentStep ==
  ASSUME EarlyInv, Remember, UNCHANGED <<prep, scm>>, status'.state = status.state,
         main' = "none" => main = "none",
         main = "none" => main' = "none",
         main' \in {"none", "launched"} => main \in {"none", "launched"}
  PROVE  EarlyInv' /\ early' = early
<1>1. \A a \in Act : Unfinished(a)' = Unfinished(a)
  BY DEF Unfinished, InProgress
<1>2. early' = early
  BY <1>1, EarlyKept
<1>3. Untouched' /\ StartIsOver'
  BY DEF EarlyInv, Untouched, StartIsOver
<1>4. EarlyAtWork' /\ AloneStart' /\ LateStops'
  <2>1. \A a \in Stoppers : Unfinished(a)' = Unfinished(a)
    BY <1>1, Activations
  <2> QED
    BY <1>1, <1>2, <2>1 DEF EarlyInv, EarlyAtWork, AloneStart, LateStops
<1> QED
  BY <1>2, <1>3, <1>4 DEF EarlyInv

\* A new process, and the end of one.
LEMMA ProcessStep ==
  ASSUME TypeOK, EarlyInv, Remember, Launch \/ ProcessEnds
  PROVE  EarlyInv' /\ early' = {}
<1>1. CASE Launch
  <2>1. /\ main = "none" /\ main' = "launched" /\ UNCHANGED <<prep, status>>
        /\ scm'.state = "START_PENDING"
    BY <1>1 DEF Launch, Constructed
  <2>2. early' = early /\ early = {}
    <3>1. \A a \in Act : Unfinished(a)' = Unfinished(a)
      BY <2>1 DEF Unfinished, InProgress
    <3> QED
      BY <2>1, <3>1, EarlyKept DEF EarlyInv, EarlyAtWork
  <2>3. status.state = "START_PENDING" /\ \A a \in Act : prep[a] = "idle"
    BY <2>1 DEF EarlyInv, Untouched
  <2> QED
    BY <2>1, <2>2, <2>3, Activations DEF EarlyInv, Untouched, EarlyAtWork, AloneStart,
       StartIsOver, LateStops, Unfinished, InProgress, Announced
<1>2. CASE ProcessEnds
  <2>1. /\ main' = "none" /\ prep' = [a \in Act |-> "idle"]
        /\ status'.state = "START_PENDING" /\ scm'.state = "STOPPED"
    BY <1>2 DEF ProcessEnds, Constructed, Stopped
  <2>2. early' = {}
    BY <2>1 DEF Remember
  <2> QED
    BY <2>1, <2>2, Activations DEF EarlyInv, Untouched, EarlyAtWork, AloneStart,
       StartIsOver, LateStops, Unfinished, InProgress, Announced
<1> QED
  BY <1>1, <1>2

\* Whoever is in ServicePrepare does so in a process that has come to main().
LEMMA InMain ==
  ASSUME EarlyInv, NEW a \in Act, prep[a] # "idle"
  PROVE  main \notin {"none", "launched"}
BY DEF EarlyInv, Untouched

\* A stop or an Exit begins: remembered if the start is not over.
LEMMA BeginStep ==
  ASSUME TypeOK, EarlyInv, Remember, NEW a \in Stoppers, prep[a] = "idle",
         prep' = [prep EXCEPT ![a] = "enter"], UNCHANGED <<status, scm>>,
         main \notin {"none", "launched"}, main' \notin {"none", "launched"}
  PROVE  /\ EarlyInv'
         /\ prep["start"] = "ret" => early' = early
         /\ prep["start"] # "ret" => early' # {}
<1>1. /\ ~Unfinished(a) /\ Unfinished(a)'
      /\ \A b \in Act \ {a} : prep'[b] = prep[b] /\ Unfinished(b)' = Unfinished(b)
      /\ prep'[a] = "enter"
  BY Activations DEF Unfinished, InProgress, TypeOK
<1>2. Begins = {a}
  BY <1>1, Activations DEF Begins
<1>3. \A b \in early : b \in Act /\ b # a /\ Unfinished(b)'
  BY <1>1 DEF EarlyInv, EarlyAtWork
<1>4. prep'["start"] = prep["start"] /\ (prep["start"] # "ret" => Unfinished("start")')
  BY <1>1, Activations DEF Unfinished
<1>5. early' = IF prep["start"] = "ret" THEN early ELSE early \cup {"start", a}
  BY <1>1, <1>2, <1>3, <1>4 DEF Remember
<1>6. Untouched' /\ StartIsOver'
  BY <1>4 DEF EarlyInv, Untouched, StartIsOver
<1>7. EarlyAtWork'
  <2>1. \A b \in early' : b \in Act /\ Unfinished(b)'
    BY <1>1, <1>3, <1>4, <1>5, Activations
  <2>2. prep["start"] # "ret" =>
          "start" \in early' /\ \A b \in Stoppers : Unfinished(b)' => b \in early'
    BY <1>1, <1>5, Activations DEF EarlyInv, EarlyAtWork
  <2> QED
    BY <1>4, <2>1, <2>2 DEF EarlyAtWork
<1>8. AloneStart'
  BY <1>4, <1>5 DEF EarlyInv, AloneStart
<1>9. LateStops'
  BY <1>1, <1>4, <1>5, Activations DEF EarlyInv, LateStops, InLoop
<1> QED
  BY <1>5, <1>6, <1>7, <1>8, <1>9 DEF EarlyInv

\* A stop or an Exit is over and forgotten.
LEMMA EndStep ==
  ASSUME TypeOK, EarlyInv, Remember, NEW a \in Stoppers, Unfinished(a), main' # "none",
         NEW place \in {"idle", "ret"}, prep' = [prep EXCEPT ![a] = place],
         ~Unfinished(a)'
  PROVE  /\ early' = early \ {a} /\ EarlyAtWork'
         /\ prep'["start"] = prep["start"]
         /\ prep["start"] # "ret" => early' # {}
         /\ \A b \in Stoppers : Unfinished(b)' =>
              /\ Unfinished(b) /\ prep'[b] = prep[b]
              /\ b \notin early' => b \notin early
<1>1. /\ \A b \in Act \ {a} : prep'[b] = prep[b] /\ Unfinished(b)' = Unfinished(b)
      /\ prep'[a] = place
  BY Activations DEF Unfinished, InProgress, TypeOK
<1>2. Begins = {}
  BY <1>1, Activations DEF Begins
<1>3. early' = {b \in early : Unfinished(b)'}
  BY <1>2 DEF Remember
<1>4. early' = early \ {a}
  BY <1>1, <1>3 DEF EarlyInv, EarlyAtWork
<1>5. prep["start"] # "ret" => "start" \in early'
  BY <1>4, Activations DEF EarlyInv, EarlyAtWork
<1>6. prep'["start"] = prep["start"]
  BY <1>1, Activations
<1>7. EarlyAtWork'
  BY <1>1, <1>3, <1>4, <1>5, <1>6, Activations DEF EarlyInv, EarlyAtWork
<1> QED
  BY <1>1, <1>4, <1>5, <1>6, <1>7, Activations

\* The steps of ServicePrepare before its last report.
LEMMA PrepareKeepsEarly ==
  ASSUME TypeOK, BeforeDispatch, EarlyInv, Remember, NEW a \in Act,
         \/ Enter(a) \/ Pend(a) \/ Notify(a) \/ Bump(a) \/ WaitTimeout(a)
         \/ WaitDone(a) \/ Reset(a) \/ Final(a) \/ (a = "start" /\ ServiceMain)
  PROVE  EarlyInv' /\ early' = early
<1> DEFINE InL(step) == step \in InLoop \cup {"reset", "report", "ret"}
<1>1. \E step \in Steps \ {"idle", "ret"} : prep' = [prep EXCEPT ![a] = step]
  BY DEF Enter, Pend, Notify, Bump, WaitTimeout, WaitDone, Reset, Final, ServiceMain, Steps
<1>2. main' = main /\ main \notin {"none", "launched"}
  <2>1. CASE a = "start" /\ ServiceMain
    BY <2>1 DEF ServiceMain
  <2>2. CASE prep[a] # "idle"
    BY <2>2, InMain DEF Enter, Pend, Notify, Bump, WaitTimeout, WaitDone, Reset, Final,
       ServiceMain
  <2> QED
    BY <2>1, <2>2 DEF Enter, Pend, Notify, Bump, WaitTimeout, WaitDone, Reset, Final
<1>3. prep[a] # "ret" /\ (a # "start" => prep[a] # "idle")
  BY Activations DEF Enter, Pend, Notify, Bump, WaitTimeout, WaitDone, Reset, Final, ServiceMain
<1>4. /\ \A b \in Act \ {a} : prep'[b] = prep[b]
      /\ \A b \in Act : Unfinished(b)' = Unfinished(b)
  BY <1>1, <1>3, Activations DEF Unfinished, InProgress, TypeOK
<1>5. early' = early
  BY <1>2, <1>4, EarlyKept
<1>6. Untouched'
  BY <1>2 DEF Untouched
<1>7. prep["start"] # "ret" => prep'["start"] # "ret"
  BY <1>4, Activations DEF Unfinished
<1>8. prep["start"] = "ret" => prep'["start"] = "ret" /\ a # "start"
  BY <1>3, <1>4, Activations
<1>9. EarlyAtWork'
  BY <1>2, <1>4, <1>5, <1>7, <1>8, Activations DEF EarlyInv, EarlyAtWork
<1>10. a # "start" => Unfinished(a) /\ prep'["start"] = prep["start"]
  BY <1>3, <1>4, Activations DEF Unfinished, InProgress, Enter, Pend, Notify, Bump, WaitTimeout,
     WaitDone, Reset, Final
<1>11. a # "start" /\ prep["start"] # "ret" => early # {}
  BY <1>10, Activations DEF EarlyInv, EarlyAtWork
<1>12. ASSUME scm' = scm, status'.state = status.state,
              {prep[a], prep'[a]} \cap Announced = {}, InL(prep'[a]) => InL(prep[a])
       PROVE  AloneStart' /\ StartIsOver' /\ LateStops'
  <2>1. AloneStart' /\ StartIsOver'
    <3>1. CASE a = "start"
      BY <1>2, <1>3, <1>5, <1>12, <3>1 DEF EarlyInv, AloneStart, StartIsOver, Announced
    <3>2. CASE a # "start"
      BY <1>2, <1>5, <1>10, <1>12, <3>2 DEF EarlyInv, AloneStart, StartIsOver
    <3> QED
      BY <3>1, <3>2
  <2>2. LateStops'
    BY <1>4, <1>5, <1>7, <1>8, <1>12, Activations DEF EarlyInv, LateStops, Announced
  <2> QED
    BY <2>1, <2>2
<1>13. CASE Enter(a) \/ Bump(a) \/ WaitTimeout(a) \/ WaitDone(a) \/ Reset(a)
            \/ (a = "start" /\ ServiceMain)
  <2>1. /\ scm' = scm /\ status'.state = status.state
        /\ {prep[a], prep'[a]} \cap Announced = {} /\ (InL(prep'[a]) => InL(prep[a]))
    BY <1>13 DEF Enter, Bump, WaitTimeout, WaitDone, Reset, ServiceMain, TypeOK,
       OwnStatuses, StatusesWith, InLoop, Announced
  <2> QED
    BY <1>5, <1>6, <1>9, <1>12, <2>1 DEF EarlyInv
<1>14. CASE Pend(a)
  <2>1. /\ scm' = scm /\ prep[a] = "pending" /\ prep'[a] = "notify"
        /\ status'.state = PendingState(a)
    BY <1>14 DEF Pend, TypeOK, OwnStatuses, StatusesWith
  <2>2. AloneStart' /\ StartIsOver'
    BY <1>2, <1>5, <1>10, <1>11, <2>1 DEF EarlyInv, AloneStart, StartIsOver, Announced,
       PendingState
  <2>3. LateStops'
    BY <1>4, <1>5, <1>8, <2>1, Activations DEF EarlyInv, LateStops, PendingState
  <2> QED
    BY <1>5, <1>6, <1>9, <2>2, <2>3 DEF EarlyInv
<1>15. CASE Final(a)
  <2>1. /\ scm' = scm /\ prep[a] = "final" /\ prep'[a] = "report"
        /\ status'.state = TargetState(a)
    BY <1>15 DEF Final, TypeOK, OwnStatuses, StatusesWith
  <2>2. AloneStart' /\ StartIsOver'
    BY <1>2, <1>5, <1>10, <1>11, <2>1 DEF EarlyInv, AloneStart, StartIsOver, Announced,
       TargetState
  <2>3. LateStops'
    BY <1>4, <1>5, <1>8, <2>1, Activations DEF EarlyInv, LateStops, TargetState
  <2> QED
    BY <1>5, <1>6, <1>9, <2>2, <2>3 DEF EarlyInv
<1>16. CASE Notify(a)
  <2>1. /\ prep[a] \in {"notify", "renotify"} /\ prep'[a] = "bump" /\ status' = status
        /\ scm' = scm \/ scm' = status
        /\ scm.state = "STOPPED" => scm' = scm
    BY <1>16 DEF Notify, Report, TypeOK
  <2>2. AloneStart' /\ StartIsOver'
    BY <1>2, <1>5, <1>8, <1>10, <1>11, <2>1 DEF EarlyInv, AloneStart, StartIsOver, Announced
  <2>3. LateStops'
    <3>1. SUFFICES ASSUME prep["start"] = "ret" PROVE LateStops'
      BY <1>7 DEF LateStops
    <3>2. \A b \in Stoppers \ early : Unfinished(b)' /\ InL(prep'[b])
            => Unfinished(b) /\ InL(prep[b])
      BY <1>4, <2>1, Activations DEF InLoop
    <3>3. prep'["control"] = "ret" => prep["control"] = "ret" /\ Unfinished("control")
      BY <1>4, <2>1, Activations DEF Unfinished
    <3> QED
      BY <1>5, <2>1, <3>1, <3>2, <3>3, Activations DEF EarlyInv, LateStops
  <2> QED
    BY <1>5, <1>6, <1>9, <2>2, <2>3 DEF EarlyInv
<1> QED
  BY <1>13, <1>14, <1>15, <1>16

\* The last report of the start...
LEMMA StartReports ==
  ASSUME TypeOK, EarlyInv, Remember, ReportFinal("start")
  PROVE  EarlyInv' /\ early' \subseteq early /\ prep'["start"] = "ret"
<1>1. /\ prep["start"] = "report" /\ prep' = [prep EXCEPT !["start"] = "ret"]
      /\ UNCHANGED <<main, status>>
      /\ scm' = IF scm.state = "STOPPED" THEN scm ELSE status
  BY DEF ReportFinal, Report
<1>2. main \notin {"none", "launched"}
  BY <1>1, InMain, Activations
<1>3. /\ \A b \in Stoppers : prep'[b] = prep[b] /\ Unfinished(b)' = Unfinished(b)
      /\ prep'["start"] = "ret" /\ ~Unfinished("start")'
  BY <1>1, Activations DEF Unfinished, InProgress, TypeOK
<1>4. Begins = {}
  BY <1>3 DEF Begins
<1>5. early' = {b \in early : Unfinished(b)'}
  BY <1>1, <1>2, <1>4 DEF Remember
<1>6. \A b \in Stoppers : Unfinished(b)' => b \in early'
  BY <1>1, <1>3, <1>5 DEF EarlyInv, EarlyAtWork
<1>7. EarlyAtWork'
  BY <1>1, <1>2, <1>3, <1>5 DEF EarlyInv, EarlyAtWork
<1>8. Untouched' /\ AloneStart'
  BY <1>1, <1>2, <1>3 DEF Untouched, AloneStart
<1>9. StartIsOver'
  BY <1>1 DEF EarlyInv, StartIsOver, Announced
<1>10. LateStops'
  BY <1>3, <1>6, Activations DEF LateStops, Unfinished
<1> QED
  BY <1>3, <1>5, <1>7, <1>8, <1>9, <1>10 DEF EarlyInv

\* ... and of a stop or an Exit.
LEMMA StopReports ==
  ASSUME TypeOK, BeforeDispatch, EarlyInv, Remember, NEW a \in Stoppers, ReportFinal(a)
  PROVE  /\ EarlyInv' /\ early' \subseteq early
         /\ prep'["start"] = prep["start"]
         /\ prep["start"] # "ret" => early' # {}
<1>1. /\ prep[a] = "report" /\ prep' = [prep EXCEPT ![a] = "ret"]
      /\ UNCHANGED <<main, status>> /\ Unfinished(a)
      /\ scm' = IF prep["start"] = "idle" \/ scm.state = "STOPPED" THEN scm ELSE status
  BY Activations DEF ReportFinal, Report, Unfinished, InProgress
<1>2. main \notin {"none", "launched"}
  BY <1>1, InMain, Activations
<1>3. /\ \A b \in Act \ {a} : prep'[b] = prep[b] /\ Unfinished(b)' = Unfinished(b)
      /\ prep'["start"] = prep["start"] /\ prep'[a] = "ret"
  BY <1>1, Activations DEF Unfinished, InProgress, TypeOK
<1>4. /\ EarlyAtWork' /\ early' \subseteq early
      /\ prep["start"] # "ret" => early' # {}
      /\ \A b \in Stoppers : Unfinished(b)' =>
           /\ Unfinished(b) /\ (b \notin early' => b \notin early)
           /\ b = a \/ prep'[b] = prep[b]
  <2>1. CASE a = "control"
    <3>1. \A b \in Act : Unfinished(b)' = Unfinished(b)
      BY <1>1, <1>3, <2>1 DEF Unfinished
    <3>2. early' = early
      BY <1>1, <1>2, <3>1, EarlyKept
    <3> QED
      BY <1>1, <1>2, <1>3, <3>1, <3>2, Activations DEF EarlyInv, EarlyAtWork
  <2>2. CASE a # "control"
    <3>1. ~Unfinished(a)'
      BY <1>3, <2>2, Activations DEF Unfinished, InProgress
    <3> QED
      BY <1>1, <1>2, <1>3, <3>1, EndStep, Activations
  <2> QED
    BY <2>1, <2>2
<1>5. Untouched' /\ AloneStart'
  BY <1>1, <1>2, <1>3, <1>4 DEF Untouched, AloneStart
<1>6. StartIsOver'
  BY <1>1, <1>3 DEF EarlyInv, StartIsOver, Announced
<1>7. LateStops'
  <2>1. SUFFICES ASSUME prep["start"] = "ret" PROVE LateStops'
    BY <1>3 DEF LateStops
  <2>2. a \notin early => status.state \in {"STOP_PENDING", "STOPPED"}
    BY <1>1, <2>1 DEF EarlyInv, LateStops
  <2>3. \A b \in Stoppers \ early' :
             Unfinished(b)' /\ prep'[b] \in InLoop \cup {"reset", "report", "ret"}
               => status.state \in {"STOP_PENDING", "STOPPED"}
    BY <1>4, <2>1, <2>2 DEF EarlyInv, LateStops
  <2>4. ASSUME prep'["control"] = "ret", "control" \notin early'
        PROVE  scm'.state \in {"STOP_PENDING", "STOPPED"}
    <3>1. Unfinished("control")' /\ "control" \notin early
      BY <1>4, <2>4, Activations DEF Unfinished
    <3>2. status.state \in {"STOP_PENDING", "STOPPED"}
      BY <2>3, <2>4, Activations, <3>1
    <3> QED
      BY <1>1, <2>1, <3>2
  <2> QED
    BY <1>1, <2>3, <2>4 DEF LateStops
<1> QED
  BY <1>3, <1>4, <1>5, <1>6, <1>7 DEF EarlyInv

\* The control handler of a stop returns.
LEMMA StopReturns ==
  ASSUME TypeOK, EarlyInv, Remember, StopHandled
  PROVE  EarlyInv' /\ early' = early \ {"control"}
                   /\ (prep["start"] # "ret" => early' # {})
<1>1. /\ main = "stopping" /\ main' = "dispatching" /\ prep["control"] = "ret"
      /\ prep' = [prep EXCEPT !["control"] = "idle"] /\ UNCHANGED <<status, scm>>
  BY DEF StopHandled
<1>2. Unfinished("control") /\ ~Unfinished("control")'
  BY <1>1, Activations DEF Unfinished, TypeOK
<1>3. /\ early' = early \ {"control"} /\ EarlyAtWork'
      /\ prep'["start"] = prep["start"]
      /\ prep["start"] # "ret" => early' # {}
      /\ \A b \in Stoppers : Unfinished(b)' =>
           /\ Unfinished(b) /\ prep'[b] = prep[b]
           /\ b \notin early' => b \notin early
  BY <1>1, <1>2, EndStep, Activations
<1>4. prep'["control"] # "ret"
  BY <1>1, Activations DEF TypeOK
<1>5. Untouched' /\ AloneStart' /\ StartIsOver'
  BY <1>1, <1>3 DEF EarlyInv, Untouched, AloneStart, StartIsOver
<1>6. LateStops'
  BY <1>1, <1>3, <1>4 DEF EarlyInv, LateStops
<1> QED
  BY <1>3, <1>5, <1>6 DEF EarlyInv

\* Neither an activation, nor a state, nor the SCM.
Silent ==
  \/ Create \/ Execute \/ DispatcherReturns \/ Close \/ TakeCode \/ CodeHandled
  \/ \E c \in Controls : SendControl(c)
  \/ \E event \in {"STARTING", "STOPPING"} : RegisterEventHandler(event)
  \/ \E code \in NativeCodes : RegisterNativeHandler(code)
  \/ \E c \in Callers, code \in ExitCodes : SetExitCode(c, code)
  \/ \E c \in Callers : SetExitCodeEnd(c)
  \/ \E a \in Act : HandlerDone(a)

\* What a step can be.
LEMMA StepKinds ==
  ASSUME Next
  PROVE  \/ Launch \/ ProcessEnds \/ Silent \/ TakeStop \/ StopHandled
         \/ \E e \in ExitThreads : Exit(e)
         \/ \E a \in Act : ReportFinal(a)
         \/ \E a \in Act : \/ Enter(a) \/ Pend(a) \/ Notify(a) \/ Bump(a)
                           \/ WaitTimeout(a) \/ WaitDone(a) \/ Reset(a) \/ Final(a)
                           \/ (a = "start" /\ ServiceMain)
BY Activations DEF Next, Environment, Application, MainStep, PrepareStep, Crash, ExitProcess,
   Silent

LEMMA SilentKeeps ==
  ASSUME TypeOK, EarlyInv, Remember, Silent
  PROVE  EarlyInv' /\ early' = early /\ scm' = scm /\ prep' = prep
<1>1. CASE Create
  <2>1. status.state = "START_PENDING"
    BY <1>1 DEF Create, EarlyInv, Untouched
  <2> QED
    BY <1>1, <2>1, SilentStep DEF Create, Constructed
<1>2. CASE Execute \/ DispatcherReturns \/ Close \/ TakeCode \/ CodeHandled
  BY <1>2, SilentStep DEF Execute, DispatcherReturns, Close, TakeCode, CodeHandled
<1>3. CASE \/ \E c \in Controls : SendControl(c)
           \/ \E event \in {"STARTING", "STOPPING"} : RegisterEventHandler(event)
           \/ \E a \in Act : HandlerDone(a)
  BY <1>3, SilentStep DEF SendControl, RegisterEventHandler, HandlerDone
<1>4. CASE \/ \E code \in NativeCodes : RegisterNativeHandler(code)
           \/ \E c \in Callers, code \in ExitCodes : SetExitCode(c, code)
           \/ \E c \in Callers : SetExitCodeEnd(c)
  <2>1. /\ UNCHANGED <<prep, scm, main>> /\ status'.state = status.state
    BY <1>4 DEF RegisterNativeHandler, SetExitCode, SetExitCodeEnd, TypeOK, OwnStatuses,
       StatusesWith
  <2> QED
    BY <2>1, SilentStep
<1> QED
  BY <1>1, <1>2, <1>3, <1>4 DEF Silent

LEMMA EarlyStep ==
  ASSUME OverlapInv, EarlyInv, [HistoryNext]_historyVars
  PROVE  EarlyInv'
<1> USE DEF OverlapInv
<1>1. CASE UNCHANGED historyVars
  BY <1>1, Activations DEF historyVars, EarlyInv, Untouched, EarlyAtWork, AloneStart,
     StartIsOver, LateStops, Unfinished, InProgress
<1>2. CASE TakeStop /\ Remember
  BY <1>2, BeginStep, Activations DEF TakeStop, ControlThread
<1>3. ASSUME NEW e \in ExitThreads, Exit(e), Remember PROVE EarlyInv'
  BY <1>3, BeginStep, Activations DEF Exit
<1>4. CASE HistoryNext
  BY <1>2, <1>3, <1>4, StepKinds, ProcessStep, SilentKeeps, StopReturns, StartReports,
     StopReports, PrepareKeepsEarly, Activations DEF HistoryNext
<1> QED
  BY <1>1, <1>4

LEMMA EarlyInit == HistoryInit => EarlyInv
BY Activations DEF HistoryInit, Init, Constructed, Stopped, EarlyInv, Untouched, EarlyAtWork,
   AloneStart, StartIsOver, LateStops, Unfinished, InProgress, Announced

\* With its history variable the process does what it does without.
LEMMA HistoryIsHistory == HistorySafety => Safety
<1>1. HistoryInit => Init
  BY DEF HistoryInit
<1>2. [HistoryNext]_historyVars => [Next]_vars
  BY DEF HistoryNext, historyVars, vars
<1> QED
  BY <1>1, <1>2, PTL DEF HistorySafety, Safety

LEMMA EarlyInvariant == HistorySafety => [](OverlapInv /\ EarlyInv)
<1>1. HistorySafety => []OverlapInv
  BY HistoryIsHistory, OverlapInvariant, PTL
<1> QED
  BY <1>1, EarlyInit, EarlyStep, PTL DEF HistorySafety

\* What a report of the process shows is one of the lifecycle's states and an
\* exit code a live service can have.
LEMMA ShownTypes ==
  ASSUME TypeOK
  PROVE  /\ scm.state \in Shown!States /\ status.state \in Shown!States
         /\ Seen(status) \in Shown!LiveCodes
BY DEF TypeOK, OwnStatuses, Statuses, StatusesWith, States, Shown!States, Seen, Decoded,
   LiveCodes, Shown!LiveCodes, NO_ERROR, Shown!NO_ERROR, ERROR_SERVICE_SPECIFIC_ERROR,
   ERROR_SERVICE_NEVER_STARTED

\* A process is launched.
LEMMA ShowsLaunch ==
  ASSUME TypeOK, EarlyInv, Remember, Launch PROVE Shown!Start
<1>1. early' = {} /\ scm.state = "STOPPED" /\ Handling' = "none"
  BY ProcessStep DEF Launch, EarlyInv, EarlyAtWork, Handling
<1>2. scm'.state = "START_PENDING" /\ Seen(scm)' = Shown!NO_ERROR
  BY DEF Launch, Constructed, Seen, Decoded, NO_ERROR, Shown!NO_ERROR,
     ERROR_SERVICE_SPECIFIC_ERROR, ERROR_SERVICE_NEVER_STARTED
<1> QED
  BY <1>1, <1>2 DEF Shown!Start, Shown!Launch, Shown!Gone

\* A process ends.
LEMMA ShowsEnd ==
  ASSUME TypeOK, EarlyInv, Remember, ProcessEnds PROVE Shown!Die
<1>1. early' = {} /\ Handling' = "none"
  BY ProcessStep DEF ProcessEnds, Handling
<1>2. \/ scm.state = "STOPPED" /\ scm' = scm
      \/ scm.state # "STOPPED" /\ scm' = Stopped(ERROR_PROCESS_ABORTED)
  BY DEF ProcessEnds
<1>3. /\ Stopped(ERROR_PROCESS_ABORTED).state = "STOPPED"
      /\ Seen(Stopped(ERROR_PROCESS_ABORTED)) = Shown!ERROR_PROCESS_ABORTED
  BY DEF Stopped, Seen, Decoded, ERROR_PROCESS_ABORTED, Shown!ERROR_PROCESS_ABORTED,
     ERROR_SERVICE_SPECIFIC_ERROR, ERROR_SERVICE_NEVER_STARTED
<1> QED
  BY <1>1, <1>2, <1>3 DEF Shown!Die, Shown!Abort, Shown!Gone, Shown!vars

\* A stop or an Exit begins: an overlap if the start is not over, and then the
\* SCM shows START_PENDING unless something else overlaps it already.
LEMMA ShowsStop ==
  ASSUME TypeOK, ControlThread, EarlyInv, Remember, TakeStop PROVE Shown!Take("STOP")
<1>1. /\ scm' = scm /\ Handling = "none" /\ Handling' = "STOP"
      /\ prep["start"] = "ret" => early' = early
      /\ prep["start"] # "ret" => early' # {}
  BY BeginStep, Activations DEF TakeStop, ControlThread, Handling
<1>2. /\ prep["start"] = "ret" => scm.state # "START_PENDING"
      /\ prep["start"] # "ret" /\ early = {} => scm.state = "START_PENDING"
  BY DEF EarlyInv, StartIsOver, AloneStart, TakeStop
<1> QED
  BY <1>1, <1>2 DEF Shown!Take, Shown!vars

LEMMA ShowsExit ==
  ASSUME TypeOK, EarlyInv, Remember, NEW e \in ExitThreads, Exit(e)
  PROVE  Shown!EarlyExit \/ UNCHANGED Shown!shown
<1>1. /\ scm' = scm /\ Handling' = Handling
      /\ prep["start"] = "ret" => early' = early
      /\ prep["start"] # "ret" => early' # {}
  BY BeginStep, Activations DEF Exit, Handling
<1>2. prep["start"] # "ret" /\ early = {} => scm.state = "START_PENDING"
  BY DEF EarlyInv, AloneStart, Exit
<1> QED
  BY <1>1, <1>2 DEF Shown!EarlyExit, Shown!shown, Shown!vars

\* The control handler is called for a user code, or returns.
LEMMA ShowsHandler ==
  ASSUME TypeOK, EarlyInv, Remember, Silent
  PROVE  Shown!Take("CODE") \/ Shown!HandlerReturns \/ UNCHANGED Shown!shown
<1>1. early' = early /\ scm' = scm
  BY SilentKeeps
<1>2. CASE TakeCode
  BY <1>1, <1>2 DEF TakeCode, Handling, Shown!Take, Shown!shown, Shown!vars
<1>3. CASE CodeHandled
  BY <1>1, <1>3 DEF CodeHandled, Handling, Shown!HandlerReturns, Shown!vars
<1>4. CASE ~TakeCode /\ ~CodeHandled
  <2>1. Handling' = Handling
    BY <1>4 DEF Silent, Create, Execute, DispatcherReturns, Close, SendControl,
       RegisterEventHandler, RegisterNativeHandler, SetExitCode, SetExitCodeEnd, HandlerDone,
       Handling
  <2> QED
    BY <1>1, <2>1 DEF Shown!shown, Shown!vars
<1> QED
  BY <1>2, <1>3, <1>4

LEMMA ShowsStopHandled ==
  ASSUME TypeOK, EarlyInv, Remember, StopHandled PROVE Shown!HandlerReturns
<1>1. /\ scm' = scm /\ Handling = "STOP" /\ Handling' = "none"
      /\ early' = early \ {"control"}
      /\ prep["start"] # "ret" => early' # {}
  BY StopReturns DEF StopHandled, Handling
<1>2. early = {} => scm.state \in {"STOP_PENDING", "STOPPED"}
  BY <1>1 DEF EarlyInv, LateStops, StopHandled
<1>3. prep["start"] = "ret" => scm.state # "START_PENDING"
  BY DEF EarlyInv, StartIsOver
<1> QED
  BY <1>1, <1>2, <1>3 DEF Shown!HandlerReturns, Shown!vars

\* A report is in order as long as nothing overlaps; the last of those that do
\* settles the service, the others may show anything but a start begun anew.
LEMMA ShowsReport ==
  ASSUME OverlapInv, EarlyInv, Remember, NEW a \in Act, Notify(a) \/ ReportFinal(a)
  PROVE  Shown!Orderly \/ Shown!Scramble \/ Shown!Settle \/ UNCHANGED Shown!shown
<1> USE DEF OverlapInv
<1>1. /\ Handling' = Handling /\ main' = main
      /\ prep' = [prep EXCEPT ![a] = IF prep[a] = "report" THEN "ret" ELSE "bump"]
      /\ prep[a] \in {"notify", "renotify", "report"}
      /\ \/ scm' = scm /\ (prep["start"] = "idle" \/ scm.state = "STOPPED")
         \/ scm' = status /\ scm.state # "STOPPED"
  BY DEF Notify, ReportFinal, Report, Handling
<1>2. /\ EarlyInv' /\ early' \subseteq early
      /\ early # {} /\ early' = {} => prep'["start"] = "ret" /\ prep["start"] # "idle"
  <2>1. CASE Notify(a)
    BY <2>1, PrepareKeepsEarly
  <2>2. CASE ReportFinal(a) /\ a = "start"
    BY <2>2, StartReports DEF ReportFinal
  <2>3. CASE ReportFinal(a) /\ a \in Stoppers
    BY <2>3, StopReports
  <2> QED
    BY <2>1, <2>2, <2>3, Activations
<1>3. CASE early = {}
  <2>1. early' = {}
    BY <1>2, <1>3
  <2>2. CASE scm' = scm
    BY <1>1, <1>3, <2>1, <2>2 DEF Shown!shown, Shown!vars
  <2>3. CASE scm' = status /\ scm.state # "STOPPED"
    <3> DEFINE Moves(from, to) == scm.state = from /\ status.state = to
    <3>1. \/ Moves("START_PENDING", "START_PENDING") \/ Moves("START_PENDING", "RUNNING")
          \/ Moves("RUNNING", "STOP_PENDING") \/ Moves("STOP_PENDING", "STOP_PENDING")
          \/ Moves("STOP_PENDING", "STOPPED") \/ Moves("RUNNING", "STOPPED")
      <4>1. CASE a = "start"
        <5>1. main # "none" /\ prep["start"] \in {"notify", "renotify", "report"}
          BY <1>1, <4>1, InMain
        <5> QED
          BY <1>3, <5>1 DEF EarlyInv, AloneStart, Announced
      <4>2. CASE a \in Stoppers
        <5>1. Unfinished(a)
          BY <1>1, <4>2, Activations DEF Unfinished, InProgress
        <5>2. prep["start"] = "ret"
          BY <1>3, <4>2, <5>1 DEF EarlyInv, EarlyAtWork
        <5>3. status.state \in {"STOP_PENDING", "STOPPED"}
          BY <1>1, <1>3, <4>2, <5>1, <5>2 DEF EarlyInv, LateStops, InLoop
        <5>4. scm.state \in {"RUNNING", "STOP_PENDING"}
          BY <2>3, <5>2, ShownTypes DEF EarlyInv, StartIsOver, Shown!States
        <5> QED
          BY <5>3, <5>4
      <4> QED
        BY <4>1, <4>2, Activations
    <3>2. scm'.state = status.state /\ Seen(scm)' \in Shown!LiveCodes
      BY <2>3, ShownTypes DEF Seen
    <3>3. Shown!Starting \/ Shown!Run \/ Shown!BeginStop \/ Shown!Stopping \/ Shown!Finish
      BY <3>1, <3>2 DEF Shown!Starting, Shown!Run, Shown!BeginStop, Shown!Stopping,
         Shown!Finish, Shown!Report
    <3> QED
      BY <1>1, <1>3, <2>1, <3>3 DEF Shown!Orderly
  <2> QED
    BY <1>1, <2>2, <2>3
<1>4. CASE /\ early # {} /\ scm' = scm
           /\ prep["start"] = "idle" \/ scm.state = "STOPPED"
  <2>1. CASE early' = {}
    BY <1>1, <1>2, <1>4, <2>1 DEF Shown!Settle, Shown!vars
  <2>2. CASE early' # {}
    BY <1>1, <1>4, <2>2 DEF Shown!shown, Shown!vars
  <2> QED
    BY <2>1, <2>2
<1>5. CASE early # {} /\ scm' = status /\ scm.state # "STOPPED"
  <2>1. /\ scm'.state = status.state /\ scm'.state \in Shown!States
        /\ Seen(scm)' \in Shown!LiveCodes
    BY <1>5, ShownTypes DEF Seen
  <2>2. CASE early' = {}
    <3>1. scm'.state # "START_PENDING"
      BY <1>2, <1>5, <2>2 DEF EarlyInv, StartIsOver
    <3> QED
      BY <1>1, <1>5, <2>1, <2>2, <3>1 DEF Shown!Settle
  <2>3. CASE early' # {}
    <3>1. scm.state = "RUNNING" => status.state # "START_PENDING"
      BY DEF EarlyInv, StartIsOver, RunningIsLate
    <3> QED
      BY <1>1, <1>5, <2>1, <2>3, <3>1 DEF Shown!Scramble
  <2> QED
    BY <2>2, <2>3
<1> QED
  BY <1>1, <1>3, <1>4, <1>5

\* The steps of ServicePrepare between its reports are nobody's to see.
LEMMA ShowsNothing ==
  ASSUME OverlapInv, EarlyInv, Remember, NEW a \in Act,
         \/ Enter(a) \/ Pend(a) \/ Bump(a) \/ WaitTimeout(a) \/ WaitDone(a)
         \/ Reset(a) \/ Final(a) \/ (a = "start" /\ ServiceMain)
  PROVE  UNCHANGED Shown!shown
<1>1. early' = early
  BY PrepareKeepsEarly DEF OverlapInv
<1>2. scm' = scm /\ Handling' = Handling
  BY DEF Enter, Pend, Bump, WaitTimeout, WaitDone, Reset, Final, ServiceMain, Handling
<1> QED
  BY <1>1, <1>2 DEF Shown!shown, Shown!vars

LEMMA OverlapStepShown ==
  ASSUME OverlapInv, EarlyInv, [HistoryNext]_historyVars
  PROVE  [Shown!OverlapNext]_(Shown!shown)
<1> USE DEF OverlapInv, Shown!OverlapNext
<1>1. CASE UNCHANGED historyVars
  BY <1>1 DEF historyVars, Shown!shown, Shown!vars, Handling
<1>2. CASE Remember /\ (Launch \/ ProcessEnds)
  BY <1>2, ShowsLaunch, ShowsEnd
<1>3. CASE Remember /\ (Silent \/ TakeStop \/ StopHandled)
  BY <1>3, ShowsHandler, ShowsStop, ShowsStopHandled
<1>4. CASE Remember /\ \E e \in ExitThreads : Exit(e)
  BY <1>4, ShowsExit
<1>5. CASE Remember /\ \E a \in Act : Notify(a) \/ ReportFinal(a)
  BY <1>5, ShowsReport
<1>6. CASE Remember /\ \E a \in Act :
             \/ Enter(a) \/ Pend(a) \/ Bump(a) \/ WaitTimeout(a) \/ WaitDone(a)
             \/ Reset(a) \/ Final(a) \/ (a = "start" /\ ServiceMain)
  BY <1>6, ShowsNothing
<1> QED
  BY <1>1, <1>2, <1>3, <1>4, <1>5, <1>6, StepKinds DEF HistoryNext

\* The safety part of ImplementsOverlapped: what clients see of a service is
\* OverlappedLifecycle, however its stops and exits overlap its start and each
\* other (Pending.hpp 18-61, ServiceEntryWin.cpp 33-64 and 116-119).
THEOREM ShowsOverlappedLifecycle == HistorySafety => Shown!OverlapSafety
<1>1. HistoryInit => Shown!OverlapInit
  BY DEF HistoryInit, Init, Stopped, Handling, Shown!OverlapInit, Shown!Init, Seen, Decoded,
     NO_ERROR, Shown!NO_ERROR, ERROR_SERVICE_SPECIFIC_ERROR, ERROR_SERVICE_NEVER_STARTED
<1> QED
  BY <1>1, OverlapStepShown, EarlyInvariant, PTL DEF HistorySafety, Shown!OverlapSafety
=============================================================================
