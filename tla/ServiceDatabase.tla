------------------------- MODULE ServiceDatabase -------------------------
(***************************************************************************)
(* The SCM's database entry of one service, as ServiceWin.cpp and          *)
(* Service.hpp rely on it: an entry that is deleted is only marked until   *)
(* the service has stopped and the last handle to it is closed.  While it  *)
(* is marked it can be opened but not created, reconfigured, started or    *)
(* deleted again.  What the service itself does is left to the modules     *)
(* that extend this one.                                                   *)
(***************************************************************************)
EXTENDS ScmStatus

CONSTANT Clients     \* processes that use class Service

VARIABLES
  record,            \* the entry: absent, present, or marked for deletion
  state, exitCode,   \* the service as the SCM shows it
  handles            \* how many handles to it each client has open

Records == {"absent", "present", "marked"}

DatabaseInit ==
  /\ record = "absent" /\ state = "STOPPED" /\ exitCode = NO_ERROR
  /\ handles = [c \in Clients |-> 0]

\* What is left of a marked entry with this state and these handles.
Remaining(entry, st, open) ==
  IF entry = "marked" /\ st = "STOPPED" /\ \A c \in Clients : open[c] = 0
  THEN "absent" ELSE entry

\* OpenServiceW finds a marked entry as well.
OpenHandle(c) ==
  /\ record # "absent"
  /\ handles' = [handles EXCEPT ![c] = @ + 1]
  /\ UNCHANGED <<record, state, exitCode>>

CloseHandles(c, n) ==
  /\ handles' = [handles EXCEPT ![c] = @ - n]
  /\ record' = Remaining(record, state, handles')
  /\ UNCHANGED <<state, exitCode>>

\* CreateServiceW makes a new entry and opens it.
Insert(c) ==
  /\ record = "absent" /\ record' = "present"
  /\ handles' = [handles EXCEPT ![c] = @ + 1]
  /\ exitCode' = NO_ERROR
  /\ UNCHANGED state

\* DeleteService, through a handle that is open.
Mark ==
  /\ record' = "marked"
  /\ UNCHANGED <<state, exitCode, handles>>

\* StartServiceW, by a client or by the SCM itself, if launch is allowed.
LaunchStep(launch) ==
  /\ record = "present" /\ launch
  /\ UNCHANGED <<record, handles>>

\* The service, or its end.
ProcessStep(step) ==
  /\ step
  /\ record' = Remaining(record, state', handles)
  /\ UNCHANGED handles
=============================================================================
