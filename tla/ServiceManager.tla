-------------------------- MODULE ServiceManager --------------------------
(***************************************************************************)
(* Clients that create, open, remove and look for one service, and set     *)
(* what the SCM does when it crashes (ServiceWin.cpp 49-101, 163-235 and   *)
(* 274-347).  The service is OverlappedLifecycle: the stop that Create and *)
(* Remove send, and whose outcome they ignore, may meet its start.         *)
(***************************************************************************)
EXTENDS ServiceDatabase, Sequences

CONSTANTS
  Calls,       \* the calls each client makes, over and over
  Admins,      \* the clients that may open the SCM and the service for all
  Commands,    \* commands to run when the service failed for good
  MaxFails     \* bound on the failures the SCM counts

NoCommand == "none"

ASSUME ManagerAssumption ==
  /\ Calls \in [Clients -> SUBSET {"CREATE", "OPEN", "EXISTS", "REMOVE", "RESTART"}]
  /\ Admins \subseteq Clients /\ NoCommand \notin Commands
  /\ MaxFails \in Nat
  /\ {"none", "other"} \cap Clients = {}

VARIABLES
  overlap,    \* a stop or an Exit has met the start
  taken,      \* whose stop the control handler handles: a client's, another
              \* program's (or nobody's any more), or none
  actions,    \* failure actions, one per failure, the last one repeated
  command,    \* lpCommand, the command of the last action
  fails,      \* failures counted
  due,        \* a restart is due
  pc, op,     \* where each client is in which call
  kept,       \* does it keep a Service object?
  weak,       \* history: its Stop timed out or met a start
  stale,      \* history: the process is older than its Create's configuration
  wanted,     \* history: the command of the last SetAutoRestart with restart
  restarts    \* history: restarts since then or since the last quiet hour

database == <<record, state, exitCode, handles>>
failure == <<actions, command, fails, due, wanted, restarts>>
call == <<pc, op, weak, stale>>
process == <<overlap, taken>>
vars == <<record, state, exitCode, handles, overlap, taken, actions, command, fails, due,
          pc, op, kept, weak, stale, wanted, restarts>>

Service == INSTANCE OverlappedLifecycle
             WITH handling <- IF taken = "none" THEN "none" ELSE "STOP"

Nobody == [c \in Clients |-> FALSE]

Init ==
  /\ DatabaseInit
  /\ overlap = FALSE /\ taken = "none"
  /\ actions = <<>> /\ command = NoCommand /\ fails = 0 /\ due = FALSE
  /\ pc = [c \in Clients |-> "idle"] /\ op = [c \in Clients |-> "none"]
  /\ kept = Nobody /\ weak = Nobody /\ stale = Nobody
  /\ wanted = NoCommand /\ restarts = 0
---------------------------------------------------------------------------
(* The service and the SCM.                                                *)

Ended == stale' = IF state' = "STOPPED" THEN Nobody ELSE stale

\* What it does by itself: start, stop, exit, and what becomes of these when
\* they overlap.
Process ==
  /\ UNCHANGED taken
  /\ ProcessStep(Service!Orderly \/ Service!EarlyExit \/ Service!Scramble \/ Service!Settle)
  /\ Ended
  /\ UNCHANGED <<failure, pc, op, kept, weak>>

\* The dispatcher takes another program's stop, or one that timed out here.
TakeOther ==
  /\ state # "STOPPED" /\ taken' = "other"
  /\ ProcessStep(Service!Take("STOP"))
  /\ UNCHANGED <<failure, call, kept>>

\* The control handler returns, and ControlService to the client that waits.
Answer ==
  /\ taken' = "none"
  /\ ProcessStep(Service!HandlerReturns)
  /\ pc' = [c \in Clients |-> IF c = taken THEN "wait" ELSE pc[c]]
  /\ UNCHANGED <<failure, op, weak, stale, kept>>

\* A process that has reported STOPPED ends.
Exit ==
  /\ state = "STOPPED" /\ taken' = "none"
  /\ ProcessStep(Service!Die)
  /\ UNCHANGED <<failure, call, kept>>

Launch == taken' = "none" /\ LaunchStep(Service!Start)

\* At boot (SERVICE_AUTO_START), or by a client's Start.
Start ==
  /\ Launch
  /\ UNCHANGED <<failure, call, kept>>

\* The service dies: the SCM counts it and takes the action for this failure.
Failure ==
  /\ fails < MaxFails /\ state # "STOPPED"
  /\ taken' = "none" /\ ProcessStep(Service!Die) /\ Ended
  /\ fails' = fails + 1
  /\ LET n == IF fails' < Len(actions) THEN fails' ELSE Len(actions)
     IN  IF n > 0 /\ actions[n] = "RESTART" /\ record = "present"
         THEN due' = TRUE /\ restarts' = restarts + 1
         ELSE UNCHANGED <<due, restarts>>
  /\ UNCHANGED <<actions, command, wanted, pc, op, kept, weak>>

\* After 1 or 3 minutes, unless somebody else has started or deleted it.
Restart ==
  /\ due /\ due' = FALSE
  /\ \/ Launch
     \/ (state # "STOPPED" \/ record # "present") /\ UNCHANGED <<database, process>>
  /\ UNCHANGED <<actions, command, fails, wanted, restarts, call, kept>>

\* An hour without a failure.
QuietHour ==
  /\ fails > 0 /\ state = "RUNNING" /\ ~due
  /\ fails' = 0 /\ restarts' = 0
  /\ UNCHANGED <<database, process, actions, command, due, wanted, call, kept>>
---------------------------------------------------------------------------
(* The clients.                                                            *)

Idle(c, what) == pc[c] = "idle" /\ what \in Calls[c]

Goto(c, label) ==
  /\ pc' = [pc EXCEPT ![c] = label]
  /\ UNCHANGED <<op, weak, stale>>

Enter(c, what, label) ==
  /\ pc' = [pc EXCEPT ![c] = label]
  /\ op' = [op EXCEPT ![c] = what]
  /\ UNCHANGED <<weak, stale>>

Return(c) ==
  /\ pc' = [pc EXCEPT ![c] = "idle"] /\ op' = [op EXCEPT ![c] = "none"]
  /\ weak' = [weak EXCEPT ![c] = FALSE] /\ stale' = [stale EXCEPT ![c] = FALSE]

\* OpenSCManager or OpenServiceW refuses: an error of the other calls, and a
\* null pointer Remove goes on to use.
Refused(c) ==
  /\ c \notin Admins /\ Idle(c, "REMOVE")
  /\ Goto(c, "dead")
  /\ UNCHANGED <<database, failure, process, kept>>

Configured(c) ==
  /\ stale' = [stale EXCEPT ![c] = state # "STOPPED"]
  /\ pc' = [pc EXCEPT ![c] = "stop"]
  /\ UNCHANGED weak

\* CreateServiceW: a new entry, ERROR_SERVICE_EXISTS, or another error.
Create(c) ==
  /\ Idle(c, "CREATE") /\ ~kept[c] /\ c \in Admins
  /\ \/ /\ Insert(c) /\ Configured(c)
        /\ op' = [op EXCEPT ![c] = "CREATE"]
        /\ actions' = <<>> /\ command' = NoCommand /\ fails' = 0 /\ due' = FALSE
        /\ wanted' = NoCommand /\ restarts' = 0
     \/ /\ record = "present" /\ Enter(c, "CREATE", "open")
        /\ UNCHANGED <<database, failure>>
  /\ UNCHANGED <<process, kept>>

\* OpenServiceW of the entry that existed; it may be gone.
OpenExisting(c) ==
  /\ pc[c] = "open"
  /\ \/ OpenHandle(c) /\ Goto(c, "config")
     \/ record = "absent" /\ Return(c) /\ UNCHANGED database
  /\ UNCHANGED <<failure, process, kept>>

\* Variant: no CloseServiceHandle on the way out (for MarkedIsHeld).
MutConfigure(c) ==
  /\ pc[c] = "config"
  /\ \/ record = "present" /\ Configured(c) /\ UNCHANGED <<database, op>>
     \/ record = "marked" /\ Return(c) /\ UNCHANGED database
  /\ UNCHANGED <<failure, process, kept>>

\* ChangeServiceConfigW; the failure actions stay.
Configure(c) ==
  /\ pc[c] = "config"
  /\ \/ record = "present" /\ Configured(c) /\ UNCHANGED <<database, op>>
     \/ record = "marked" /\ CloseHandles(c, 1) /\ Return(c)
  /\ UNCHANGED <<failure, process, kept>>

AfterStop(c) ==
  IF op[c] = "CREATE" THEN Return(c) /\ kept' = [kept EXCEPT ![c] = TRUE]
                      ELSE Goto(c, "delete") /\ UNCHANGED kept

TimedOut(c) ==
  /\ pc' = [pc EXCEPT ![c] = "wait"] /\ weak' = [weak EXCEPT ![c] = TRUE]
  /\ UNCHANGED <<database, op, kept, stale>>

\* Stop: nothing to do or refused, which is no error here; taken by the
\* dispatcher of a running or a starting service, which may stop by the time
\* that it does; or timed out in its queue.
Stop(c) ==
  /\ pc[c] = "stop"
  /\ \/ AfterStop(c) /\ UNCHANGED <<database, process>>
     \/ /\ state # "STOPPED" /\ taken' = c
        /\ ProcessStep(Service!Take("STOP"))
        /\ pc' = [pc EXCEPT ![c] = "sent"] /\ weak' = [weak EXCEPT ![c] = overlap']
        /\ UNCHANGED <<op, kept, stale>>
     \/ state # "STOPPED" /\ TimedOut(c) /\ UNCHANGED process
  /\ UNCHANGED failure

\* The handler takes longer than 30s, or its process is gone and
\* ControlService fails.
Sent(c) ==
  /\ pc[c] = "sent"
  /\ \/ taken = c /\ taken' = "other" /\ TimedOut(c)
     \/ taken # c /\ AfterStop(c) /\ UNCHANGED <<database, taken>>
  /\ UNCHANGED <<overlap, failure>>

\* Variant: does not wait (for FreshProcess).
MutWait(c) ==
  /\ pc[c] = "wait"
  /\ AfterStop(c)
  /\ UNCHANGED <<database, failure, process>>

\* Its loop: any state but STOP_PENDING ends it.
Wait(c) ==
  /\ pc[c] = "wait" /\ state # "STOP_PENDING"
  /\ AfterStop(c)
  /\ UNCHANGED <<database, failure, process>>

Open(c) ==
  /\ Idle(c, "OPEN") /\ ~kept[c]
  /\ OpenHandle(c) /\ kept' = [kept EXCEPT ![c] = TRUE]
  /\ UNCHANGED <<failure, process, call>>

\* Exists and Remove open the service; when there is none they are done.
Exists(c) ==
  /\ Idle(c, "EXISTS")
  /\ OpenHandle(c) /\ Enter(c, "EXISTS", "close")
  /\ UNCHANGED <<failure, process, kept>>

Remove(c) ==
  /\ c \in Admins /\ Idle(c, "REMOVE")
  /\ OpenHandle(c) /\ Enter(c, "REMOVE", "stop")
  /\ UNCHANGED <<failure, process, kept>>

\* DeleteService, an error if the entry is marked already.
Delete(c) ==
  /\ pc[c] = "delete"
  /\ IF record = "present" THEN Mark ELSE UNCHANGED database
  /\ Goto(c, "close")
  /\ UNCHANGED <<failure, process, kept>>

\* The unique_ptr<Service> of Exists or Remove goes.
Finish(c) ==
  /\ pc[c] = "close"
  /\ CloseHandles(c, 1) /\ Return(c)
  /\ UNCHANGED <<failure, process, kept>>

\* Variant: close can be called again (for TypeOK).
MutClose(c) ==
  /\ pc[c] = "idle" /\ kept[c]
  /\ CloseHandles(c, 1)
  /\ UNCHANGED <<kept, failure, process, call>>

\* Service.close, once.
Close(c) ==
  /\ pc[c] = "idle" /\ kept[c]
  /\ CloseHandles(c, 1)
  /\ kept' = [kept EXCEPT ![c] = FALSE]
  /\ UNCHANGED <<failure, process, call>>

\* The client's process ends, in the middle of a call or with objects open, and
\* all its handles with it.
Ends(c) ==
  /\ handles[c] > 0 \/ pc[c] = "dead"
  /\ CloseHandles(c, handles[c]) /\ Return(c)
  /\ kept' = [kept EXCEPT ![c] = FALSE]
  /\ taken' = IF taken = c THEN "other" ELSE taken
  /\ UNCHANGED <<overlap, failure>>
---------------------------------------------------------------------------
(* SetAutoRestart.                                                         *)

\* Variant: only the two restarts, no last action (for RestartsBounded).
MutActions(restart, cmd) ==
  IF ~restart THEN <<>> ELSE <<"RESTART", "RESTART">>

FailureActions(restart, cmd) ==
  IF ~restart THEN <<>>
  ELSE <<"RESTART", "RESTART", IF cmd = NoCommand THEN "NONE" ELSE "RUN_COMMAND">>

\* Variant: lpCommand is left NULL when there is a command (for CommandAsAsked).
MutCommand(restart, cmd) ==
  IF cmd = NoCommand THEN NoCommand ELSE command

\* lpCommand: "" erases, NULL (no restart, but a command) keeps what was set.
CommandSet(restart, cmd) ==
  IF cmd = NoCommand THEN NoCommand ELSE IF restart THEN cmd ELSE command

SetAutoRestart(c, restart, cmd) ==
  /\ Idle(c, "RESTART") /\ kept[c] /\ record = "present"
  /\ actions' = FailureActions(restart, cmd)
  /\ command' = CommandSet(restart, cmd)
  /\ wanted' = IF restart THEN cmd ELSE NoCommand
  /\ restarts' = 0
  /\ UNCHANGED <<database, process, fails, due, call, kept>>
---------------------------------------------------------------------------
Next ==
  \/ Process \/ TakeOther \/ Answer \/ Exit \/ Start \/ Failure \/ Restart \/ QuietHour
  \/ \E c \in Clients :
       \/ Create(c) \/ OpenExisting(c) \/ Configure(c) \/ Stop(c) \/ Sent(c) \/ Wait(c)
       \/ Open(c) \/ Exists(c) \/ Remove(c) \/ Delete(c) \/ Finish(c)
       \/ Refused(c) \/ Close(c) \/ Ends(c)
       \/ \E restart \in BOOLEAN, cmd \in Commands \cup {NoCommand} :
            SetAutoRestart(c, restart, cmd)

Spec == Init /\ [][Next]_vars
---------------------------------------------------------------------------
Labels == {"idle", "open", "config", "stop", "sent", "wait", "delete", "close", "dead"}

\* Type correctness; an entry that is gone is stopped and nobody has a handle.
TypeOK ==
  /\ record \in Records /\ state \in States /\ exitCode \in SeenCodes
  /\ handles \in [Clients -> 0..2]
  /\ record = "absent" => state = "STOPPED" /\ \A c \in Clients : handles[c] = 0
  /\ overlap \in BOOLEAN /\ taken \in Clients \cup {"none", "other"}
  /\ Len(actions) <= 3 /\ command \in Commands \cup {NoCommand}
  /\ fails \in 0..MaxFails /\ due \in BOOLEAN
  /\ pc \in [Clients -> Labels] /\ op \in [Clients -> {"none", "CREATE", "EXISTS", "REMOVE"}]
  /\ \A f \in {kept, weak, stale} : f \in [Clients -> BOOLEAN]

\* A removed service disappears with the end of the last call that uses it, the
\* last Service object closed and its process: no call leaves a handle behind,
\* whichever error it ends with, so a client that closes its objects can
\* create the service again (49-101, 206-235).
MarkedIsHeld ==
  record = "marked" =>
    \/ state # "STOPPED"
    \/ \E c \in Clients : kept[c] \/ pc[c] \in {"config", "stop", "sent", "wait", "delete", "close"}

\* When Create returns from a Stop that reached a service that had started and
\* was answered in time, no process runs that was launched from an older
\* configuration, though others start and stop the service meanwhile: it is
\* reconfigured first and stopped then (88-97).  (A stop that meets a start may
\* leave that process running, as one that times out may.)
FreshProcess ==
  [][\A c \in Clients :
       /\ op[c] = "CREATE" /\ pc[c] \in {"sent", "wait"} /\ ~weak[c]
       /\ pc'[c] = "idle" /\ kept'[c]
       => ~stale[c]]_vars

\* A service that keeps crashing is restarted twice, then left alone, until it
\* has run for an hour or is configured anew (316-320).
RestartsBounded == restarts <= 2

\* A command runs only if the last SetAutoRestart asked for it, and it is that
\* one, although a call without restart may leave an older lpCommand (323-335).
CommandAsAsked ==
  \A n \in DOMAIN actions :
    actions[n] = "RUN_COMMAND" => wanted # NoCommand /\ command = wanted
=============================================================================
