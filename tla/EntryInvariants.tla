------------------------- MODULE EntryInvariants --------------------------
(***************************************************************************)
(* The inductive invariants behind the properties of ServiceEntry: first   *)
(* what holds however the calls of ServicePrepare overlap, then what holds *)
(* when they do not.                                                       *)
(***************************************************************************)
EXTENDS ServiceEntry

InLoop == {"notify", "renotify", "bump", "wait"}
Announced == {"report", "ret"}

\* Nothing of ServiceMain has happened before main() dispatches.
BeforeDispatch ==
  main \in {"none", "launched", "created"} => prep["start"] = "idle"

\* The dispatcher thread is in ServicePrepare only while it handles a stop.
ControlThread == main # "stopping" => prep["control"] = "idle"

\* A handler runs only inside the loop of the ServicePrepare that started it.
HandlerInLoop == \A a \in Act : hand[a] = "running" => prep[a] \in InLoop

\* Only ServiceMain's last report can make the service RUNNING.
RunningIsLate ==
  /\ status.state = "RUNNING" => prep["start"] \in Announced
  /\ scm.state = "RUNNING" => prep["start"] \in Announced

\* After ServiceMain's ServicePrepare, a stop the SCM knows of is one the
\* status block still holds.
StopIsKept ==
  prep["start"] = "ret" /\ scm.state = "STOP_PENDING"
    => status.state \in {"STOP_PENDING", "STOPPED"}

\* Nothing but a stop reaches the dispatcher before ServiceMain's last report.
CodesAreLate ==
  main = "handling" \/ (\E i \in DOMAIN pipe : pipe[i] # "STOP")
    => prep["start"] \in Announced

\* A session-change handler is in the process's own accept mask, and in the
\* SCM's once that shows RUNNING.
Deliverable ==
  /\ main \in {"none", "launched"} => handlers = {}
  /\ SessionChange \in handlers => SessionChange \in status.accepts
  /\ RegisteredIsDeliverable

OverlapInv ==
  /\ TypeOK /\ BeforeDispatch /\ ControlThread /\ HandlerInLoop /\ RunningIsLate
  /\ StopIsKept /\ CodesAreLate
---------------------------------------------------------------------------
Serial == "Overlap" \notin Env

Stoppers == Act \ {"start"}

\* One ServicePrepare at a time, and the stopping ones after the starting one.
OneAtATime ==
  /\ \A a, b \in Act : InProgress(a) /\ InProgress(b) => a = b
  /\ \A a \in Stoppers : prep[a] # "idle" => prep["start"] = "ret"

\* The dispatcher's own activity excludes any other.
DispatcherInv ==
  /\ main = "handling" => scm.state = "RUNNING" /\ \A a \in Act : ~InProgress(a)
  /\ pipe # <<>> => /\ scm.state = "RUNNING" /\ main = "dispatching"
                    /\ Tail(pipe) = <<>>
                    /\ \A a \in Act : ~InProgress(a)
  /\ main \in {"none", "launched", "created"} => \A a \in Act : prep[a] = "idle"
  /\ main \in {"returned", "closed"} => \A a \in Act : ~InProgress(a)
  /\ main \in {"none", "launched", "created", "returned", "closed"}
       => pipe = <<>>

\* How far the start has come, in the process and in the SCM.
Progress ==
  /\ main = "none" => scm.state = "STOPPED"
  /\ main # "none" /\ prep["start"] # "ret" => scm.state = "START_PENDING"
  /\ prep["start"] \notin Announced => status.state = "START_PENDING"
  /\ prep["start"] = "report" => status.state = "RUNNING"

\* How far a stop has come, in the process and in the SCM.
StopProgress ==
  /\ prep["start"] = "ret" /\ (\A a \in Act : ~InProgress(a))
       => scm.state = status.state /\ scm.state \in {"RUNNING", "STOPPED"}
  /\ \A a \in Stoppers : InProgress(a) =>
       /\ scm.state \in {"RUNNING", "STOP_PENDING"}
       /\ prep[a] = "report" => status.state = "STOPPED"
       /\ prep[a] \in InLoop => status.state = "STOP_PENDING"
       /\ prep[a] # "report" => status.state # "STOPPED"

\* The counter in the status block is ahead of the one last reported.
Counter ==
  \A a \in Act :
    /\ prep[a] = "bump" => scm.checkPoint <= status.checkPoint
    /\ prep[a] \in {"wait", "renotify"} => scm.checkPoint < status.checkPoint

\* One SetExitCode at a time, by the handler that runs; the status block holds
\* the last code set, and so does a STOPPED service.
ExitCodeInv ==
  /\ \A c \in Callers :
       half[c] # {} => HandlerRuns(c) /\ half[c] = {status.specific}
  /\ main \notin {"none", "launched"} /\ (\A c \in Callers : half[c] = {})
       => status.specific = lastExit /\ status.win32 = EncodedWin32(lastExit)
  /\ main = "launched" => lastExit = NO_ERROR
  /\ LastExitReported

\* The part of the state that is about who is doing what.
Flow == OneAtATime /\ DispatcherInv /\ Progress /\ StopProgress /\ Counter

SerialInv == OverlapInv /\ Flow /\ ExitCodeInv
=============================================================================
