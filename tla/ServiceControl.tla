-------------------------- MODULE ServiceControl --------------------------
(***************************************************************************)
(* Clients that start, stop and poll one service through class Service     *)
(* (ServiceWin.cpp), the SCM in between, and the service itself as         *)
(* OverlappedLifecycle, which ServiceEntry implements whatever overlaps.   *)
(* The SCM sends one control at a time; a client whose control is not      *)
(* answered within 30s gets ERROR_SERVICE_REQUEST_TIMEOUT while the        *)
(* control stays queued to the dispatcher, which may be busy with the      *)
(* handler of a user code.                                                 *)
(***************************************************************************)
EXTENDS ScmStatus, Sequences

CONSTANTS
  Clients,     \* processes that hold a handle to the service
  Rights,      \* the OpenAccessRights each of them opened it with
  Calls,       \* the calls each of them makes, over and over
  MaxLives,    \* bound on the number of times the service is started
  MaxQueued    \* bound on the controls queued to the dispatcher

AccessRights == {"AllAccess", "ReadWrite", "ExecuteOnly", "ReadOnly"}

Nobody == "nobody"

ASSUME ControlAssumption ==
  /\ Rights \in [Clients -> AccessRights]
  /\ Calls \in [Clients -> SUBSET {"START", "ASYNC", "STOP", "CODE"}]
  /\ MaxLives \in Nat /\ MaxQueued \in Nat
  /\ Nobody \notin Clients

VARIABLES
  state, exitCode,  \* the service as the SCM shows it
  life,       \* how many times it has been started
  overlap,    \* a stop or an Exit has met the start
  disp,       \* what the dispatcher thread handles: at most one control
  pipe,       \* the controls queued to it
  pc,         \* where each client is in its call
  op,         \* which call that is
  late,       \* did ControlService time out in it?
  target      \* history: the life a client's stop was sent to (0: a starting one)

service == <<state, exitCode, life, overlap, disp, pipe>>
client == <<pc, op, late, target>>
vars == <<state, exitCode, life, overlap, disp, pipe, pc, op, late, target>>

Service == INSTANCE OverlappedLifecycle
             WITH handling <- IF disp = <<>> THEN "none" ELSE disp[1].code

\* ToServiceAccessFlags, for the operations that matter here.
Allowed(c) ==
  IF op[c] = "STOP" THEN Rights[c] = "AllAccess"
                    ELSE Rights[c] \in {"AllAccess", "ExecuteOnly"}

isRunning == state = "RUNNING"

Init ==
  /\ life = 0 /\ overlap = FALSE /\ disp = <<>> /\ pipe = <<>>
  /\ Service!OverlapInit
  /\ pc = [c \in Clients |-> "idle"]
  /\ op = [c \in Clients |-> "none"]
  /\ late = [c \in Clients |-> FALSE]
  /\ target = [c \in Clients |-> 0]
---------------------------------------------------------------------------
(* The service process and its dispatcher.                                 *)

\* A process that is gone answers nobody: ControlService fails.
ProcessReplaced(pcs) ==
  /\ disp' = <<>> /\ pipe' = <<>>
  /\ pc' = [c \in Clients |-> IF pcs[c] = "sent" THEN "idle" ELSE pcs[c]]

Crash ==
  /\ ProcessReplaced(pc)
  /\ Service!Die
  /\ UNCHANGED <<life, op, late, target>>

\* A start, a stop by the control handler or by the service's own Exit(), and
\* what becomes of them when they overlap.
Serves ==
  /\ UNCHANGED <<life, disp, pipe, client>>
  /\ Service!Orderly \/ Service!EarlyExit \/ Service!Scramble \/ Service!Settle

\* Variant: a second control handled beside the first (for TypeOK).
MutTake ==
  /\ pipe # <<>>
  /\ disp' = Append(disp, Head(pipe)) /\ pipe' = Tail(pipe)
  /\ UNCHANGED <<state, exitCode, life, overlap, client>>

Take ==
  /\ pipe # <<>>
  /\ disp' = <<Head(pipe)>> /\ pipe' = Tail(pipe)
  /\ Service!Take(Head(pipe).code)
  /\ UNCHANGED <<life, client>>

\* Variant: the handler of a stop returns at once (for StopEndsLife).
MutHandlerReturns ==
  /\ disp # <<>>
  /\ disp' = <<>>
  /\ pc' = [c \in Clients |-> IF c = disp[1].who
                              THEN IF op[c] = "STOP" THEN "poll" ELSE "idle"
                              ELSE pc[c]]
  /\ UNCHANGED <<state, exitCode, life, overlap, pipe, op, late, target>>

\* The control handler returns, and ControlService to the client if it still
\* waits.
HandlerReturns ==
  /\ disp' = <<>>
  /\ Service!HandlerReturns
  /\ pc' = [c \in Clients |-> IF c = disp[1].who
                              THEN IF op[c] = "STOP" THEN "poll" ELSE "idle"
                              ELSE pc[c]]
  /\ UNCHANGED <<life, pipe, op, late, target>>
---------------------------------------------------------------------------
(* The clients.                                                            *)

\* Start returns at once when the service runs (240-243); SendCode and Stop
\* go straight to ControlService.
Call(c, what) ==
  /\ pc[c] = "idle"
  /\ what = "START" => ~isRunning
  /\ pc' = [pc EXCEPT ![c] = "begin"]
  /\ op' = [op EXCEPT ![c] = what]
  /\ late' = [late EXCEPT ![c] = FALSE]
  /\ target' = [target EXCEPT ![c] = 0]
  /\ UNCHANGED service

Return(c) == pc' = [pc EXCEPT ![c] = "idle"]

Denied(c) ==
  /\ pc[c] = "begin" /\ ~Allowed(c)
  /\ Return(c)
  /\ UNCHANGED <<service, op, late, target>>

\* StartServiceW starts a stopped service, from Start or from StartAsync alone.
Launch(c) ==
  /\ pc[c] = "begin" /\ op[c] \in {"START", "ASYNC"} /\ Allowed(c)
  /\ life < MaxLives
  /\ ProcessReplaced([pc EXCEPT ![c] = IF op[c] = "START" THEN "poll" ELSE "idle"])
  /\ Service!Start
  /\ life' = life + 1
  /\ UNCHANGED <<op, late, target>>

\* ERROR_SERVICE_ALREADY_RUNNING, from every state but STOPPED, is a success.
AlreadyRunning(c) ==
  /\ pc[c] = "begin" /\ op[c] \in {"START", "ASYNC"} /\ Allowed(c)
  /\ state # "STOPPED"
  /\ pc' = [pc EXCEPT ![c] = IF op[c] = "START" THEN "poll" ELSE "idle"]
  /\ UNCHANGED <<service, op, late, target>>

\* Any other error of StartServiceW is returned.
StartFails(c) ==
  /\ pc[c] = "begin" /\ op[c] \in {"START", "ASYNC"}
  /\ Return(c)
  /\ UNCHANGED <<service, op, late, target>>

\* Variant: Start waits for a running service only (for StartReturns).
MutStartPoll(c) ==
  /\ pc[c] = "poll" /\ op[c] = "START"
  /\ isRunning
  /\ Return(c)
  /\ UNCHANGED <<service, op, late, target>>

\* Lines 247-258: the loop ends on a running service or a non-zero exit code.
StartPoll(c) ==
  /\ pc[c] = "poll" /\ op[c] = "START"
  /\ isRunning \/ exitCode # NO_ERROR
  /\ Return(c)
  /\ UNCHANGED <<service, op, late, target>>

\* ControlService, once no other control is in flight: a stop goes to a
\* running service, and to a starting one that has reported; a user code to a
\* running one.  Anything else returns at once, NOT_ACTIVE being a success for
\* Stop.
Send(c) ==
  /\ pc[c] = "begin" /\ op[c] \in {"STOP", "CODE"} /\ Allowed(c)
  /\ \A d \in Clients : pc[d] # "sent"
  /\ \/ /\ state = "RUNNING" \/ (op[c] = "STOP" /\ state = "START_PENDING")
        /\ Len(pipe) < MaxQueued
        /\ pipe' = Append(pipe, [who |-> c, code |-> op[c]])
        /\ pc' = [pc EXCEPT ![c] = "sent"]
        /\ target' = [target EXCEPT ![c] =
                         IF state = "RUNNING" /\ ~overlap THEN life ELSE 0]
     \/ state # "RUNNING" /\ Return(c) /\ UNCHANGED <<pipe, target>>
  /\ UNCHANGED <<state, exitCode, life, overlap, disp, op, late>>

\* ERROR_SERVICE_REQUEST_TIMEOUT: Stop goes on to poll, SendCode fails; the
\* control stays where it is, with nobody waiting for it.
Orphan(controls, c) ==
  [i \in DOMAIN controls |->
     IF controls[i].who = c THEN [controls[i] EXCEPT !.who = Nobody] ELSE controls[i]]

\* Variant: a control is withdrawn when its sender gives up (for
\* StopNotLost and LateStopCounts).
MutRequestTimeout(c) ==
  /\ pc[c] = "sent"
  /\ pipe' = SelectSeq(pipe, LAMBDA control : control.who # c)
  /\ disp' = Orphan(disp, c)
  /\ pc' = [pc EXCEPT ![c] = IF op[c] = "STOP" THEN "poll" ELSE "idle"]
  /\ late' = [late EXCEPT ![c] = TRUE]
  /\ UNCHANGED <<state, exitCode, life, overlap, op, target>>

RequestTimeout(c) ==
  /\ pc[c] = "sent"
  /\ pipe' = Orphan(pipe, c) /\ disp' = Orphan(disp, c)
  /\ pc' = [pc EXCEPT ![c] = IF op[c] = "STOP" THEN "poll" ELSE "idle"]
  /\ late' = [late EXCEPT ![c] = TRUE]
  /\ UNCHANGED <<state, exitCode, life, overlap, op, target>>

\* Variant: Stop waits for a stopped service only (for StopReturns).
MutStopPoll(c) ==
  /\ pc[c] = "poll" /\ op[c] = "STOP"
  /\ state = "STOPPED"
  /\ Return(c)
  /\ UNCHANGED <<service, op, late, target>>

\* Lines 296-307: any state but STOP_PENDING ends the loop with success.
StopPoll(c) ==
  /\ pc[c] = "poll" /\ op[c] = "STOP"
  /\ state # "STOP_PENDING"
  /\ Return(c)
  /\ UNCHANGED <<service, op, late, target>>
---------------------------------------------------------------------------
Step(c) ==
  \/ Denied(c) \/ Launch(c) \/ AlreadyRunning(c) \/ StartFails(c)
  \/ StartPoll(c) \/ Send(c) \/ StopPoll(c)

Next ==
  \/ Crash \/ Serves \/ Take \/ HandlerReturns
  \/ \E c \in Clients :
       \/ \E what \in Calls[c] : Call(c, what)
       \/ Step(c) \/ RequestTimeout(c)

\* The service does what ServiceEntry was shown to do, its dispatcher takes what
\* is queued, clients run.  A client may queue for ControlService behind others
\* again and again, hence the strong fairness.
Fairness ==
  /\ Service!OverlapFairness /\ WF_vars(Take)
  /\ \A c \in Clients : SF_vars(Step(c))

Safety == Init /\ [][Next]_vars
Spec == Safety /\ Fairness
---------------------------------------------------------------------------
Control == [who : Clients \cup {Nobody}, code : {"STOP", "CODE"}]

\* Type correctness; at most one client waits in ControlService.
TypeOK ==
  /\ state \in States /\ exitCode \in SeenCodes
  /\ life \in 0..MaxLives /\ overlap \in BOOLEAN
  /\ disp \in Seq(Control) /\ Len(disp) <= 1
  /\ pipe \in Seq(Control) /\ Len(pipe) <= MaxQueued
  /\ pc \in [Clients -> {"idle", "begin", "sent", "poll"}]
  /\ op \in [Clients -> {"none", "START", "ASYNC", "STOP", "CODE"}]
  /\ late \in [Clients -> BOOLEAN] /\ target \in [Clients -> 0..MaxLives]

\* Stop of a service that had started, answered in time, returns success only
\* when the life it was sent to is over (ServiceWin.cpp 274-309).
StopEndsLife ==
  [][\A c \in Clients :
       op[c] = "STOP" /\ pc[c] = "poll" /\ pc'[c] = "idle" /\ ~late[c] /\ target[c] # 0
         => state = "STOPPED" \/ life > target[c]]_vars

\* A stop sent to a service that had started is not lost when its sender gives
\* up: as long as that life runs, the control is queued or being handled
\* (ServiceWin.cpp 287-302).
StopNotLost ==
  \A c \in Clients :
    late[c] /\ op[c] = "STOP" /\ target[c] # 0 /\ target[c] = life /\ isRunning
      => \/ \E i \in DOMAIN disp : disp[i].code = "STOP"
         \/ \E i \in DOMAIN pipe : pipe[i].code = "STOP"

\* ServiceTest.java 107-109: stop() returns, the service is not running.
StopMeansNotRunning ==
  [][\A c \in Clients :
       op[c] = "STOP" /\ pc[c] = "poll" /\ pc'[c] = "idle" /\ target[c] = life
         => ~isRunning]_vars

\* ServiceTestWin.cpp 109-113: Start succeeds, the service is running; at the
\* least it is no longer starting.
StartMeansStarted ==
  [][\A c \in Clients :
       op[c] = "START" /\ pc[c] = "poll" /\ pc'[c] = "idle"
         => state # "START_PENDING"]_vars

\* Every Stop comes back, whatever the other clients do and however late the
\* service answers.
StopReturns ==
  \A c \in Clients : (op[c] = "STOP" /\ pc[c] # "idle") ~> pc[c] = "idle"

\* Start comes back unless the service stops cleanly under it: then it polls on
\* (258), for ever if nobody starts the service again.
StartReturns ==
  \A c \in Clients : (op[c] = "START" /\ pc[c] = "poll")
                       ~> (pc[c] = "idle" \/ (state = "STOPPED" /\ exitCode = NO_ERROR))

\* A stop that timed out is not lost: the control stays queued and, unless it
\* reaches a starting service, ends the life it was sent to.
LateStopCounts ==
  \A c \in Clients, n \in 1..MaxLives :
    (late[c] /\ op[c] = "STOP" /\ target[c] = n /\ life = n)
      ~> (state = "STOPPED" \/ life > n)
=============================================================================
