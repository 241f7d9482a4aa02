------------------------- MODULE ServiceLifecycle -------------------------
(***************************************************************************)
(* What a service built on servicelib promises to whoever watches it       *)
(* through Service::GetStatus: a state that only moves forward through one *)
(* life (launched, running, stopping, stopped) and an exit code that       *)
(* stays put once the service has stopped.  ServiceEntry implements this   *)
(* as long as its calls to ServicePrepare do not overlap.                  *)
(***************************************************************************)
EXTENDS ScmStatus

VARIABLES state, exitCode
vars == <<state, exitCode>>

Init == state = "STOPPED" /\ exitCode = NO_ERROR

\* StartService: a new process, with a clean exit code.
Launch == state = "STOPPED" /\ state' = "START_PENDING" /\ exitCode' = NO_ERROR

\* The process may announce a new exit code with any status it reports.
Report(from, to) == state = from /\ state' = to /\ exitCode' \in LiveCodes

Abort ==
  /\ state # "STOPPED"
  /\ state' = "STOPPED"
  /\ exitCode' = ERROR_PROCESS_ABORTED

Starting  == Report("START_PENDING", "START_PENDING")
Run       == Report("START_PENDING", "RUNNING")
BeginStop == Report("RUNNING", "STOP_PENDING")
Stopping  == Report("STOP_PENDING", "STOP_PENDING")
Finish    == Report("STOP_PENDING", "STOPPED") \/ Report("RUNNING", "STOPPED")

Next ==
  \/ Launch \/ Starting \/ Run \/ BeginStop \/ Stopping \/ Finish \/ Abort

\* A start leads to a running (or dead) service, a stop that has begun ends.
Fairness ==
  /\ WF_vars(state = "START_PENDING" /\ (Run \/ Abort))
  /\ WF_vars(state = "STOP_PENDING" /\ (Finish \/ Abort))

Safety == Init /\ [][Next]_vars
Spec == Safety /\ Fairness
=============================================================================
