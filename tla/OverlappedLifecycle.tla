----------------------- MODULE OverlappedLifecycle -----------------------
(***************************************************************************)
(* What a service built on servicelib shows its clients when stops and     *)
(* exits may overlap its start.  It keeps ServiceLifecycle as long as none *)
(* has begun before ServiceMain's ServicePrepare is over; otherwise the    *)
(* activations report over each other until the last of them is done.      *)
(* ServiceEntry implements this whatever overlaps (EntryOverlap), and the  *)
(* clients of ServiceControl and ServiceManager send it stops.             *)
(***************************************************************************)
EXTENDS ServiceLifecycle

VARIABLES
  overlap,   \* a stop or an Exit began while the service started
  handling   \* what the control handler is called for, or "none"

shown == <<state, exitCode, overlap, handling>>

OverlapInit == Init /\ overlap = FALSE /\ handling = "none"

Gone == overlap' = FALSE /\ handling' = "none"

\* A new process; and the end of one, which has reported STOPPED or not.
Start == Launch /\ Gone
Die == (Abort \/ (state = "STOPPED" /\ UNCHANGED vars)) /\ Gone

Orderly ==
  /\ ~overlap
  /\ Starting \/ Run \/ BeginStop \/ Stopping \/ Finish
  /\ UNCHANGED <<overlap, handling>>

\* The dispatcher calls the control handler.
Take(code) ==
  /\ handling = "none" /\ handling' = code
  /\ overlap' = (overlap \/ (code = "STOP" /\ state = "START_PENDING"))
  /\ UNCHANGED vars

\* The application calls Exit before the service runs.
EarlyExit ==
  /\ state = "START_PENDING" /\ overlap' = TRUE
  /\ UNCHANGED <<state, exitCode, handling>>

\* Each activation reports what another has written.
Scramble ==
  /\ overlap /\ state # "STOPPED"
  /\ state' \in States /\ exitCode' \in LiveCodes
  /\ state = "RUNNING" => state' # "START_PENDING"
  /\ UNCHANGED <<overlap, handling>>

\* The last of them reports: it may have been the start, or a stop may have
\* begun since that is not over.
Settle ==
  /\ overlap /\ overlap' = FALSE
  /\ IF state = "STOPPED" THEN UNCHANGED vars
     ELSE state' \in States \ {"START_PENDING"} /\ exitCode' \in LiveCodes
  /\ UNCHANGED handling

\* The control handler returns.  That of a stop has begun to stop the service,
\* unless it overlapped with the start, which then may be what it waited for.
HandlerReturns ==
  /\ handling # "none" /\ handling' = "none"
  /\ handling = "STOP" => overlap \/ state \in {"STOP_PENDING", "STOPPED"}
  /\ \/ UNCHANGED overlap
     \/ handling = "STOP" /\ state # "START_PENDING" /\ overlap' = FALSE
  /\ UNCHANGED vars

OverlapNext ==
  \/ Start \/ Die \/ Orderly \/ EarlyExit \/ Scramble \/ Settle
  \/ HandlerReturns \/ \E code \in {"STOP", "CODE"} : Take(code)

\* A start and a stop that have begun come to their end, and so does every
\* overlap; the handler of a stop stops the service; every handler returns.
OverlapFairness ==
  /\ WF_shown(state = "START_PENDING" /\ ((Orderly /\ state' = "RUNNING") \/ Die))
  /\ WF_shown(state = "STOP_PENDING" /\ ((Orderly /\ state' = "STOPPED") \/ Die))
  /\ WF_shown(state = "RUNNING" /\ handling = "STOP" /\ (Orderly \/ Die))
  /\ WF_shown(overlap /\ (Settle \/ (HandlerReturns /\ ~overlap') \/ Die))
  /\ WF_shown(HandlerReturns \/ (handling # "none" /\ Die))

OverlapSafety == OverlapInit /\ [][OverlapNext]_shown
OverlapSpec == OverlapSafety /\ OverlapFairness
=============================================================================
