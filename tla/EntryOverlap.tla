--------------------------- MODULE EntryOverlap ---------------------------
(***************************************************************************)
(* ServiceEntry with a history variable: which activations of              *)
(* ServicePrepare are at work that began, or met one that began, before    *)
(* the start was over.  With it, what clients see of the process is        *)
(* OverlappedLifecycle, whatever overlaps.                                 *)
(***************************************************************************)
EXTENDS EntryInvariants

VARIABLE early

historyVars == <<main, handlers, status, prep, hand, half, pipe, scm, lastExit, early>>

\* An activation that began and is not over, or a start that is not.
Unfinished(a) ==
  IF a = "start" THEN prep[a] # "ret"
  ELSE IF a = "control" THEN prep[a] # "idle" ELSE InProgress(a)

Begins == {a \in Stoppers : ~Unfinished(a) /\ Unfinished(a)'}

Remember ==
  LET met == IF prep["start"] = "ret" \/ Begins = {} THEN {} ELSE {"start"} \cup Begins
  IN  early' = {a \in early \cup met : main' # "none" /\ Unfinished(a)'}

HistoryInit == Init /\ early = {}
HistoryNext == Next /\ Remember
HistorySafety == HistoryInit /\ [][HistoryNext]_historyVars
HistorySpec == HistorySafety /\ Fairness
---------------------------------------------------------------------------
Handling ==
  CASE main = "stopping" -> "STOP" [] main = "handling" -> "CODE" [] OTHER -> "none"

\* What clients see is OverlappedLifecycle, the service of ServiceControl: the
\* lifecycle unless a stop or an Exit begins while the service starts, and
\* then only until all that met it are over.
Shown == INSTANCE OverlappedLifecycle
           WITH state <- scm.state, exitCode <- Seen(scm),
                overlap <- early # {}, handling <- Handling
ImplementsOverlapped == Shown!OverlapSpec
---------------------------------------------------------------------------
(* The invariants behind it.                                               *)

\* A process that has not come to main() has done nothing.
Untouched ==
  main \in {"none", "launched"} =>
    status.state = "START_PENDING" /\ \A a \in Act : prep[a] = "idle"

\* What is remembered is at work, the start included as long as it is; and
\* until the start is over, every stop and Exit at work is remembered.
EarlyAtWork ==
  /\ \A a \in early : a \in Act /\ Unfinished(a)
  /\ main = "none" => early = {} /\ scm.state = "STOPPED"
  /\ prep["start"] # "ret" =>
       /\ early # {} => "start" \in early
       /\ \A a \in Stoppers : Unfinished(a) => a \in early

\* How far the start has come, as long as it is alone...
AloneStart ==
  early = {} /\ main # "none" /\ prep["start"] # "ret" =>
    /\ scm.state = "START_PENDING"
    /\ prep["start"] \notin Announced => status.state = "START_PENDING"
    /\ prep["start"] = "report" => status.state = "RUNNING"

\* ... and that nobody takes back its end.
StartIsOver ==
  /\ prep["start"] \in Announced => status.state # "START_PENDING"
  /\ prep["start"] = "ret" => scm.state # "START_PENDING"

\* A stop that began after the start has announced itself in the status block
\* once it is in its loop, and to the SCM once it has returned.
LateStops ==
  prep["start"] = "ret" =>
    /\ \A a \in Stoppers \ early :
         Unfinished(a) /\ prep[a] \in InLoop \cup {"reset", "report", "ret"}
           => status.state \in {"STOP_PENDING", "STOPPED"}
    /\ prep["control"] = "ret" /\ "control" \notin early
         => scm.state \in {"STOP_PENDING", "STOPPED"}

EarlyInv == Untouched /\ EarlyAtWork /\ AloneStart /\ StartIsOver /\ LateStops
=============================================================================
