--------------------------- MODULE ExecuteOnce ---------------------------
(***************************************************************************)
(* Service::ExecuteOnce: run a program once as a service, wait for it, read *)
(* its exit code and delete the service (ServiceWin.cpp 184-204 and        *)
(* Service.hpp).  Every step opens the service anew by its name, so that   *)
(* callers of the same name, and whoever else starts or disables the       *)
(* service, get in between any two.  Nobody among them sends it a control, *)
(* so it keeps the plain lifecycle.                                        *)
(***************************************************************************)
EXTENDS ServiceDatabase

CONSTANTS
  Outsider,    \* who installed a service of that name before
  MaxRuns      \* bound on the times the service is started

ASSUME OnceAssumption == Outsider \notin Clients /\ MaxRuns \in Nat \ {0}

VARIABLES
  config,      \* the caller whose program the entry names
  disabled,    \* is its start type SERVICE_DISABLED?
  run, image,  \* the last process of the service, and whose program it runs
  pc,          \* where each caller is
  pid,         \* the process ServiceDelete is about to end
  mine,        \* history: the run a caller started
  alone        \* history: nobody has interfered since its ServiceSetup

Service == INSTANCE ServiceLifecycle

database == <<record, state, exitCode, handles>>
caller == <<pc, pid, mine, alone>>
vars == <<record, state, exitCode, handles, config, disabled, run, image,
          pc, pid, mine, alone>>

None == 0

\* Perhaps a service of that name is installed and at work.
Init ==
  /\ record \in {"absent", "present"}
  /\ state \in States /\ (record = "absent" => state = "STOPPED")
  /\ exitCode = NO_ERROR /\ handles = [c \in Clients |-> 0]
  /\ config = Outsider /\ image = Outsider /\ disabled \in BOOLEAN
  /\ run = IF state = "STOPPED" THEN None ELSE 1
  /\ pc = [c \in Clients |-> "idle"]
  /\ pid = [c \in Clients |-> None] /\ mine = [c \in Clients |-> None]
  /\ alone = [c \in Clients |-> FALSE]

Goto(c, label) == pc' = [pc EXCEPT ![c] = label]
Disturb(c) == alone' = [d \in Clients |-> d = c /\ alone[d]]
---------------------------------------------------------------------------
(* The service, and others who start or disable it.                        *)

Runs == ProcessStep(Service!Starting \/ Service!Run)
Stops == ProcessStep(Service!BeginStop \/ Service!Stopping \/ Service!Finish)
Dies == ProcessStep(Service!Abort)

Process ==
  /\ Runs \/ Stops \/ Dies
  /\ UNCHANGED <<config, disabled, run, image, caller>>

Launch ==
  /\ run < MaxRuns /\ ~disabled
  /\ LaunchStep(Service!Launch)
  /\ run' = run + 1 /\ image' = config

OutsiderStarts ==
  /\ Launch /\ Disturb(Outsider)
  /\ UNCHANGED <<config, disabled, pc, pid, mine>>

OutsiderDisables ==
  /\ record = "present" /\ ~disabled /\ disabled' = TRUE
  /\ UNCHANGED <<database, config, run, image, caller>>
---------------------------------------------------------------------------
(* The functions of Service.hpp.                                           *)

\* OpenServiceW by name, by caller c on its way from one label to the next, or
\* elsewhere when there is no such service.
Open(c, from, to, missing) ==
  /\ pc[c] = from
  /\ \/ OpenHandle(c) /\ Goto(c, to)
     \/ record = "absent" /\ Goto(c, missing) /\ UNCHANGED database
  /\ UNCHANGED <<config, disabled, run, image, pid, mine, alone>>

\* The service is looked at and closed.
Close(c, from, to) ==
  /\ pc[c] = from
  /\ CloseHandles(c, 1) /\ Goto(c, to)
  /\ UNCHANGED <<config, disabled, run, image, pid, mine, alone>>

\* ServiceSetup, whose entry is this caller's from now on.
Own(c) ==
  /\ config' = c /\ disabled' = FALSE
  /\ alone' = [d \in Clients |-> d = c]
  /\ mine' = [mine EXCEPT ![c] = None]
  /\ UNCHANGED <<run, image, pid>>

SetupCreate(c) ==
  /\ pc[c] = "setup"
  /\ \/ /\ record = "absent" /\ record' = "present"
        /\ exitCode' = NO_ERROR /\ UNCHANGED <<state, handles>>
        /\ Own(c) /\ Goto(c, "type")
     \/ /\ record # "absent"
        /\ Goto(c, IF record = "present" THEN "existing" ELSE "idle")
        /\ UNCHANGED <<database, config, disabled, run, image, pid, mine, alone>>

\* Variant: an existing service is taken as it is (for ExactWhenAlone).
MutSetupChange(c) ==
  /\ pc[c] = "change" /\ CloseHandles(c, 1)
  /\ alone' = [d \in Clients |-> d = c] /\ mine' = [mine EXCEPT ![c] = None]
  /\ Goto(c, IF record = "present" THEN "type" ELSE "idle")
  /\ UNCHANGED <<config, disabled, run, image, pid>>

\* ChangeServiceConfig, and whatever its outcome CloseServiceHandle.
SetupChange(c) ==
  /\ pc[c] = "change" /\ CloseHandles(c, 1)
  /\ \/ record = "present" /\ Own(c) /\ Goto(c, "type")
     \/ /\ record = "marked" /\ Goto(c, "idle")
        /\ UNCHANGED <<config, disabled, run, image, pid, mine, alone>>

\* ServiceStart enables a disabled service first (a failure to read the start
\* type is no error).
Enable(c) ==
  /\ pc[c] = "enable" /\ CloseHandles(c, 1)
  /\ IF record = "present" THEN disabled' = FALSE /\ Goto(c, "start")
                           ELSE UNCHANGED disabled /\ Goto(c, "delete")
  /\ UNCHANGED <<config, run, image, pid, mine, alone>>

\* StartServiceW starts the service, finds it at work, or fails.
StartService(c) ==
  /\ pc[c] = "launch"
  /\ \/ /\ Launch /\ Goto(c, "poll")
        /\ mine' = [mine EXCEPT ![c] = run'] /\ Disturb(c)
     \/ /\ CloseHandles(c, 1)
        /\ Goto(c, "delete") \/ (record = "present" /\ state # "STOPPED" /\ Goto(c, "wait"))
        /\ UNCHANGED <<run, image, mine, alone>>
  /\ UNCHANGED <<config, disabled, pid>>

\* Variant: polls until the service runs (for CallsReturn).
MutPoll(c) == state = "RUNNING" /\ Close(c, "poll", "wait")

Poll(c) == state # "START_PENDING" /\ Close(c, "poll", "wait")

\* Variant: returns once it has the exit code (for TemporaryOnly).
MutAfter(c) ==
  \/ Open(c, "wait", "watch", "code")
  \/ Close(c, "watch", IF state = "RUNNING" THEN "wait" ELSE "code")
  \/ Open(c, "code", "read", "idle") \/ Close(c, "read", "idle")

\* ServiceRunning until it does not, and ServiceGetExitCode, which may find no
\* service any more.
After(c) ==
  \/ Open(c, "wait", "watch", "code")
  \/ Close(c, "watch", IF state = "RUNNING" THEN "wait" ELSE "code")
  \/ Open(c, "code", "read", "delete") \/ Close(c, "read", "delete")

\* ServiceDelete ends the process it sees, whoever started it...
QueryPid(c) ==
  /\ pc[c] = "query"
  /\ pid' = [pid EXCEPT ![c] = IF state = "STOPPED" THEN None ELSE run]
  /\ Goto(c, "kill")
  /\ UNCHANGED <<database, config, disabled, run, image, mine, alone>>

\* (An id whose process is gone may by now be some other program's.)
Terminate(c) ==
  /\ pc[c] = "kill"
  /\ IF pid[c] = run /\ state # "STOPPED" THEN Dies /\ Disturb(c)
                                          ELSE UNCHANGED <<database, alone>>
  /\ pid' = [pid EXCEPT ![c] = None]
  /\ Goto(c, "mark")
  /\ UNCHANGED <<config, disabled, run, image, mine>>

\* ... and marks the entry, its own or another caller's.
Delete(c) ==
  /\ pc[c] = "mark"
  /\ IF record = "present" THEN Mark /\ Disturb(c) ELSE UNCHANGED <<database, alone>>
  /\ Goto(c, "close")
  /\ UNCHANGED <<config, disabled, run, image, pid, mine>>

\* Variant: the handle is not closed (for TypeOK).
MutServiceDelete(c) ==
  \/ Open(c, "delete", "query", "idle") \/ QueryPid(c) \/ Terminate(c) \/ Delete(c)
  \/ /\ pc[c] = "close" /\ Goto(c, "idle")
     /\ UNCHANGED <<database, config, disabled, run, image, pid, mine, alone>>

ServiceDelete(c) ==
  \/ Open(c, "delete", "query", "idle") \/ QueryPid(c) \/ Terminate(c) \/ Delete(c)
  \/ Close(c, "close", "idle")

\* ServiceExecuteOnce, step by step.
Step(c) ==
  \/ Close(c, "check", IF state = "RUNNING" THEN "idle" ELSE "setup")
  \/ SetupCreate(c) \/ Open(c, "existing", "change", "idle") \/ SetupChange(c)
  \/ Open(c, "type", "typed", "start")
  \/ Close(c, "typed", IF disabled THEN "disabled" ELSE "start")
  \/ Open(c, "disabled", "enable", "delete") \/ Enable(c)
  \/ Open(c, "start", "launch", "delete") \/ StartService(c) \/ Poll(c)
  \/ After(c) \/ ServiceDelete(c)

\* A call begins with ServiceRunning.
Call(c) == Open(c, "idle", "check", "setup")

Next ==
  \/ Process \/ OutsiderStarts \/ OutsiderDisables
  \/ \E c \in Clients : Call(c) \/ Step(c)

\* The program starts, ends by itself, and stops once it has begun to; callers
\* run.
Fairness ==
  /\ WF_vars(Process /\ state = "START_PENDING" /\ state' # "START_PENDING")
  /\ WF_vars(Process /\ state \in {"RUNNING", "STOP_PENDING"} /\ state' = "STOPPED")
  /\ \A c \in Clients : WF_vars(Step(c))

Safety == Init /\ [][Next]_vars
Spec == Safety /\ Fairness
---------------------------------------------------------------------------
Holding == {"check", "change", "typed", "enable", "launch", "poll", "watch", "read",
            "query", "kill", "mark", "close"}
Owning == {"type", "typed", "disabled", "enable", "start", "launch", "poll", "wait",
           "watch", "code", "read", "delete", "query", "kill", "mark"}
Labels == Holding \cup Owning \cup {"idle", "setup", "existing"}

\* Type correctness; a caller has a handle open exactly in the steps that use it.
TypeOK ==
  /\ record \in Records /\ state \in States /\ exitCode \in SeenCodes
  /\ config \in Clients \cup {Outsider} /\ image \in Clients \cup {Outsider}
  /\ disabled \in BOOLEAN /\ run \in 0..MaxRuns
  /\ pc \in [Clients -> Labels]
  /\ handles = [c \in Clients |-> IF pc[c] \in Holding THEN 1 ELSE 0]
  /\ pid \in [Clients -> 0..MaxRuns] /\ mine \in [Clients -> 0..MaxRuns]
  /\ alone \in [Clients -> BOOLEAN]

\* The service exists only as long as one of the calls that made it: whichever
\* step fails and whoever interferes, the last one to leave has deleted it
\* (Service.hpp 208-227).
TemporaryOnly ==
  record = "present" /\ config # Outsider => \E c \in Clients : pc[c] \in Owning

\* A caller that nobody interferes with, and whose StartService started the
\* service, reads the exit code of its own program, in the process it started;
\* the service that was there before does not matter (Service.hpp 208-227).
ExactWhenAlone ==
  [][\A c \in Clients :
       alone[c] /\ mine[c] # None /\ pc[c] \in {"code", "read"} /\ pc'[c] \notin {"code", "read"}
         => pc[c] = "read" /\ run = mine[c] /\ image = c]_vars

\* Service.hpp:219: "wait until the remote service has finished its work".
WaitsForEnd ==
  [][\A c \in Clients :
       pc[c] = "watch" /\ pc'[c] = "code" /\ run = mine[c] => state = "STOPPED"]_vars

\* Every call comes back when the programs end and others stop starting them,
\* however callers delete each other's service (135-227).
CallsReturn == \A c \in Clients : pc[c] # "idle" ~> pc[c] = "idle"
=============================================================================
