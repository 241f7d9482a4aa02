----------------------- MODULE ServiceControlProofs -----------------------
(***************************************************************************)
(* A Stop that is answered in time has ended the life it was sent to, and  *)
(* one that is not is not lost, for any number of clients, lives and       *)
(* queued controls.                                                        *)
(***************************************************************************)
EXTENDS ServiceControl, TLAPS

Kinds == {"none", "START", "ASYNC", "STOP", "CODE"}
Places == {"idle", "begin", "sent", "poll"}

ServiceTypes ==
  /\ state \in States /\ exitCode \in SeenCodes
  /\ life \in 0..MaxLives /\ overlap \in BOOLEAN

ClientTypes ==
  /\ pc \in [Clients -> Places] /\ op \in [Clients -> Kinds]
  /\ late \in [Clients -> BOOLEAN] /\ target \in [Clients -> 0..MaxLives]

QueueTypes ==
  /\ disp \in Seq(Control) /\ Len(disp) <= 1
  /\ pipe \in Seq(Control) /\ Len(pipe) <= MaxQueued

\* A control that has a sender is the one that sender waits for...
Awaited(controls) ==
  \A i \in DOMAIN controls :
    controls[i].who # Nobody =>
      pc[controls[i].who] = "sent" /\ controls[i].code = op[controls[i].who]

\* ... and there is one of them at most.
OneAwaited ==
  /\ \A i, j \in DOMAIN pipe : pipe[i].who # Nobody /\ pipe[j].who # Nobody => i = j
  /\ \A i \in DOMAIN pipe, j \in DOMAIN disp : pipe[i].who = Nobody \/ disp[j].who = Nobody

\* Who waits for a stop of a life that had started is answered in that life...
InTheSameLife ==
  \A c \in Clients : pc[c] = "sent" /\ op[c] = "STOP" /\ target[c] # 0 => life = target[c]

\* ... and only when it is over or about to be.
LifeOver ==
  \A c \in Clients :
    pc[c] = "poll" /\ op[c] = "STOP" /\ ~late[c] /\ target[c] # 0
      => state = "STOPPED" \/ (state = "STOP_PENDING" /\ ~overlap) \/ life > target[c]

\* As long as the life lasts that a stop was sent to, nothing overlaps it and
\* the stop is somewhere until it has begun.
Held ==
  \/ \E i \in DOMAIN disp : disp[i].code = "STOP"
  \/ \E i \in DOMAIN pipe : pipe[i].code = "STOP"

StopHeld ==
  \A c \in Clients :
    op[c] = "STOP" /\ target[c] # 0 /\ target[c] = life /\ state # "STOPPED"
      => /\ ~overlap /\ state # "START_PENDING"
         /\ state = "RUNNING" => Held

NotAhead == \A c \in Clients : target[c] <= life

Queue == QueueTypes /\ Awaited(disp) /\ Awaited(pipe) /\ OneAwaited
Stops == InTheSameLife /\ LifeOver /\ NotAhead /\ StopHeld
ControlInv == ServiceTypes /\ ClientTypes /\ Queue /\ Stops

LEMMA ControlInit == Init => ControlInv
<1> SUFFICES ASSUME Init PROVE ControlInv
  OBVIOUS
<1>1. ServiceTypes /\ ClientTypes
  <2>1. ServiceTypes
    <3>1. life \in 0..MaxLives
      <4>1. life = 0 /\ MaxLives \in Nat
        BY ControlAssumption DEF Init
      <4> QED
        BY <4>1
    <3>2. state = "STOPPED" /\ exitCode = NO_ERROR /\ overlap \in BOOLEAN
      BY DEF Init, Service!OverlapInit, Service!Init, Service!NO_ERROR, NO_ERROR
    <3> QED
      BY <3>1, <3>2 DEF ServiceTypes, States, SeenCodes, LiveCodes
  <2>2. ClientTypes
    BY ControlAssumption DEF Init, ClientTypes, Kinds, Places
  <2> QED
    BY <2>1, <2>2
<1>2. Queue
  BY ControlAssumption DEF Init, Queue, QueueTypes, Awaited, OneAwaited
<1>3. Stops
  BY ControlAssumption DEF Init, Stops, InTheSameLife, LifeOver, NotAhead, StopHeld
<1> QED
  BY <1>1, <1>2, <1>3 DEF ControlInv

\* What the service does by itself.
LEMMA ServesEffect ==
  ASSUME ServiceTypes, Serves
  PROVE  /\ UNCHANGED <<life, disp, pipe, pc, op, late, target>>
         /\ state' \in States /\ exitCode' \in SeenCodes /\ overlap' \in BOOLEAN
         /\ state = "STOPPED" => state' = "STOPPED"
         /\ ~overlap /\ state # "START_PENDING" => ~overlap' /\ state' # "START_PENDING"
         /\ ~overlap /\ state = "STOP_PENDING" => state' \in {"STOP_PENDING", "STOPPED"}
<1>1. UNCHANGED <<life, disp, pipe, pc, op, late, target>>
  BY DEF Serves, client
<1> USE DEF ServiceTypes, States, SeenCodes, LiveCodes, NO_ERROR, Service!States,
        Service!LiveCodes, Service!NO_ERROR, Service!vars
<1>2. CASE Service!Orderly
  BY <1>1, <1>2 DEF Service!Orderly, Service!Starting, Service!Run, Service!BeginStop,
     Service!Stopping, Service!Finish, Service!Report
<1>3. CASE Service!EarlyExit
  BY <1>1, <1>3 DEF Service!EarlyExit
<1>4. CASE Service!Scramble
  BY <1>1, <1>4 DEF Service!Scramble
<1>5. CASE Service!Settle
  BY <1>1, <1>5 DEF Service!Settle
<1> QED
  BY <1>2, <1>3, <1>4, <1>5 DEF Serves

\* The end of a process.
LEMMA CrashEffect ==
  ASSUME ServiceTypes, Crash
  PROVE  /\ disp' = <<>> /\ pipe' = <<>> /\ UNCHANGED <<life, op, late, target>>
         /\ pc' = [c \in Clients |-> IF pc[c] = "sent" THEN "idle" ELSE pc[c]]
         /\ overlap' = FALSE /\ state' = "STOPPED" /\ exitCode' \in SeenCodes
BY DEF Crash, ProcessReplaced, Service!Die, Service!Abort, Service!Gone, Service!vars,
   ServiceTypes, SeenCodes, Service!ERROR_PROCESS_ABORTED, ERROR_PROCESS_ABORTED

\* The dispatcher calls the control handler with one control at a time.
LEMMA TakeEffect ==
  ASSUME ServiceTypes, QueueTypes, Take
  PROVE  /\ disp = <<>> /\ pipe # <<>> /\ disp' = <<Head(pipe)>> /\ pipe' = Tail(pipe)
         /\ UNCHANGED <<state, exitCode, life, pc, op, late, target>>
         /\ overlap' \in BOOLEAN /\ (state # "START_PENDING" => overlap' = overlap)
<1>1. disp # <<>> => disp[1].code \in {"STOP", "CODE"}
  <2>1. disp # <<>> => disp[1] \in Control
    BY DEF QueueTypes
  <2> QED
    BY <2>1 DEF Control
<1> QED
  BY <1>1 DEF Take, Service!Take, Service!vars, client, ServiceTypes

\* The control handler returns.
LEMMA ReturnEffect ==
  ASSUME ServiceTypes, QueueTypes, HandlerReturns
  PROVE  /\ disp # <<>> /\ disp' = <<>> /\ UNCHANGED <<state, exitCode, life, pipe, op, late, target>>
         /\ overlap' \in BOOLEAN /\ (overlap' => overlap)
         /\ disp[1].code = "STOP" => overlap \/ state \in {"STOP_PENDING", "STOPPED"}
         /\ pc' = [c \in Clients |-> IF c = disp[1].who
                                     THEN IF op[c] = "STOP" THEN "poll" ELSE "idle"
                                     ELSE pc[c]]
<1>1. /\ disp # <<>> /\ disp' = <<>> /\ UNCHANGED <<state, exitCode, life, pipe, op, late, target>>
      /\ disp[1].code = "STOP" => overlap \/ state \in {"STOP_PENDING", "STOPPED"}
      /\ pc' = [c \in Clients |-> IF c = disp[1].who
                                  THEN IF op[c] = "STOP" THEN "poll" ELSE "idle"
                                  ELSE pc[c]]
  BY DEF HandlerReturns, Service!HandlerReturns, Service!vars
<1>2. overlap' = overlap \/ overlap' = FALSE
  BY DEF HandlerReturns, Service!HandlerReturns
<1>3. overlap' \in BOOLEAN /\ (overlap' => overlap)
  <2>1. overlap \in BOOLEAN
    BY DEF ServiceTypes
  <2>2. CASE overlap' = overlap
    BY <2>1, <2>2
  <2>3. CASE overlap' = FALSE
    BY <2>3
  <2> QED
    BY <1>2, <2>2, <2>3
<1> QED
  BY <1>1, <1>3

\* The types of the service and of the clients.
LEMMA TypesStep ==
  ASSUME ControlInv, [Next]_vars
  PROVE  ServiceTypes' /\ ClientTypes'
<1> USE ControlAssumption DEF ControlInv, ServiceTypes, ClientTypes, Kinds, Places, service, client
<1>1. CASE Crash
  BY <1>1, CrashEffect DEF States
<1>2. CASE Serves
  BY <1>2, ServesEffect
<1>3. CASE Take
  BY <1>3, TakeEffect DEF Queue
<1>5. CASE HandlerReturns
  BY <1>5, ReturnEffect DEF Queue
<1>6. ASSUME NEW c \in Clients, NEW what \in Calls[c], Call(c, what)
      PROVE  ServiceTypes' /\ ClientTypes'
  <2>1. what \in Kinds
    BY <1>6
  <2> QED
    BY <1>6, <2>1 DEF Call
<1>7. ASSUME NEW c \in Clients, Launch(c)
      PROVE  ServiceTypes' /\ ClientTypes'
  <2> DEFINE pcs == [pc EXCEPT ![c] = IF op[c] = "START" THEN "poll" ELSE "idle"]
  <2>1. /\ pc' = [d \in Clients |-> IF pcs[d] = "sent" THEN "idle" ELSE pcs[d]]
        /\ overlap' = FALSE /\ UNCHANGED <<op, late, target>>
        /\ life < MaxLives /\ life' = life + 1
        /\ state' = "START_PENDING" /\ exitCode' = NO_ERROR
    BY <1>7 DEF Launch, ProcessReplaced, Service!Start, Service!Launch, Service!Gone,
       Service!NO_ERROR, NO_ERROR
  <2>2. pcs \in [Clients -> Places]
    OBVIOUS
  <2>3. pc' \in [Clients -> Places]
    BY <2>1, <2>2
  <2>4. life' \in 0..MaxLives
    BY <2>1
  <2> QED
    BY <2>1, <2>3, <2>4 DEF States, SeenCodes, LiveCodes
<1>8. ASSUME NEW c \in Clients, \/ Denied(c) \/ AlreadyRunning(c) \/ StartFails(c)
                                \/ StartPoll(c) \/ StopPoll(c)
      PROVE  ServiceTypes' /\ ClientTypes'
  BY <1>8 DEF Denied, AlreadyRunning, StartFails, StartPoll, StopPoll, Return
<1>9. ASSUME NEW c \in Clients, Send(c)
      PROVE  ServiceTypes' /\ ClientTypes'
  <2>1. \E label \in {"sent", "idle"} : pc' = [pc EXCEPT ![c] = label]
    BY <1>9 DEF Send, Return
  <2>2. target' \in [Clients -> 0..MaxLives]
    <3>1. IF state = "RUNNING" /\ ~overlap THEN life \in 0..MaxLives ELSE 0 \in 0..MaxLives
      BY ControlAssumption
    <3> QED
      BY <1>9, <3>1 DEF Send
  <2> QED
    BY <1>9, <2>1, <2>2 DEF Send
<1>10. ASSUME NEW c \in Clients, RequestTimeout(c)
       PROVE  ServiceTypes' /\ ClientTypes'
  BY <1>10 DEF RequestTimeout
<1>11. CASE UNCHANGED vars
  BY <1>11 DEF vars
<1> QED
  BY <1>1, <1>2, <1>3, <1>5, <1>6, <1>7, <1>8, <1>9, <1>10, <1>11 DEF Next, Step

\* A control loses its sender when that gives up.
LEMMA OrphanKeeps ==
  ASSUME NEW controls \in Seq(Control), NEW c \in Clients
  PROVE  /\ Orphan(controls, c) \in Seq(Control) /\ Len(Orphan(controls, c)) = Len(controls)
         /\ DOMAIN Orphan(controls, c) = DOMAIN controls
         /\ \A i \in DOMAIN controls :
              /\ Orphan(controls, c)[i].code = controls[i].code
              /\ Orphan(controls, c)[i].who =
                   (IF controls[i].who = c THEN Nobody ELSE controls[i].who)
<1>1. \A i \in DOMAIN controls : controls[i] \in Control
  OBVIOUS
<1>2. \A i \in DOMAIN controls :
        /\ Orphan(controls, c)[i] \in Control
        /\ Orphan(controls, c)[i].code = controls[i].code
        /\ Orphan(controls, c)[i].who = (IF controls[i].who = c THEN Nobody ELSE controls[i].who)
  BY <1>1 DEF Orphan, Control
<1>3. DOMAIN Orphan(controls, c) = 1..Len(controls) /\ DOMAIN controls = 1..Len(controls)
  BY DEF Orphan
<1>4. Orphan(controls, c) = [i \in 1..Len(controls) |-> Orphan(controls, c)[i]]
  BY <1>3 DEF Orphan
<1>5. Orphan(controls, c) \in Seq(Control) /\ Len(Orphan(controls, c)) = Len(controls)
  BY <1>2, <1>3, <1>4
<1> QED
  BY <1>2, <1>3, <1>5

\* A sender is a client.
LEMMA Senders ==
  ASSUME Queue
  PROVE  /\ \A i \in DOMAIN pipe : pipe[i].who # Nobody => pipe[i].who \in Clients
         /\ \A i \in DOMAIN disp : disp[i].who # Nobody => disp[i].who \in Clients
<1>1. pipe \in Seq(Control) /\ disp \in Seq(Control)
  BY DEF Queue, QueueTypes
<1>2. /\ \A i \in DOMAIN pipe : pipe[i] \in Control
      /\ \A i \in DOMAIN disp : disp[i] \in Control
  BY <1>1
<1> QED
  BY <1>2 DEF Control

\* Every step keeps the controls with their senders.
LEMMA QueueStep ==
  ASSUME ControlInv, [Next]_vars
  PROVE  Queue'
<1> USE DEF ControlInv, service, client
<1>1. ASSUME disp' = <<>>, pipe' = <<>> PROVE Queue'
  BY <1>1, ControlAssumption DEF Queue, QueueTypes, Awaited, OneAwaited
<1>2. CASE Crash
  BY <1>1, <1>2, CrashEffect
<1>3. ASSUME UNCHANGED <<disp, pipe>>, UNCHANGED op,
             \A c \in Clients : pc[c] = "sent" => pc'[c] = "sent"
      PROVE  Queue'
  <2>1. QueueTypes' /\ OneAwaited'
    BY <1>3 DEF Queue, QueueTypes, OneAwaited
  <2>2. Awaited(disp)' /\ Awaited(pipe)'
    BY <1>3, Senders DEF Queue, Awaited
  <2> QED
    BY <2>1, <2>2 DEF Queue
<1>4. CASE Serves \/ UNCHANGED vars
  BY <1>3, <1>4, ServesEffect DEF vars
<1>5. CASE Take
  <2>1. /\ pipe # <<>> /\ pipe \in Seq(Control) /\ disp' = <<Head(pipe)>> /\ pipe' = Tail(pipe)
        /\ UNCHANGED <<pc, op>>
    BY <1>5, TakeEffect DEF Queue, QueueTypes
  <2>2. /\ Head(pipe) = pipe[1] /\ pipe[1] \in Control /\ Len(pipe) \in Nat \ {0}
        /\ Tail(pipe) \in Seq(Control) /\ Len(Tail(pipe)) = Len(pipe) - 1
        /\ DOMAIN pipe = 1..Len(pipe) /\ DOMAIN Tail(pipe) = 1..(Len(pipe) - 1)
        /\ \A i \in DOMAIN Tail(pipe) : Tail(pipe)[i] = pipe[i + 1]
    BY <2>1
  <2>3. disp' \in Seq(Control) /\ Len(disp') = 1 /\ DOMAIN disp' = {1} /\ disp'[1] = pipe[1]
    BY <2>1, <2>2
  <2>4. QueueTypes'
    BY <2>1, <2>2, <2>3, ControlAssumption DEF Queue, QueueTypes
  <2>5. Awaited(disp)' /\ Awaited(pipe)'
    BY <2>1, <2>2, <2>3 DEF Queue, Awaited
  <2>6. OneAwaited'
    BY <2>1, <2>2, <2>3 DEF Queue, OneAwaited
  <2> QED
    BY <2>4, <2>5, <2>6 DEF Queue
<1>6. CASE HandlerReturns
  <2>1. /\ disp # <<>> /\ disp \in Seq(Control) /\ Len(disp) <= 1 /\ disp' = <<>>
        /\ pipe \in Seq(Control) /\ UNCHANGED <<pipe, op>>
        /\ \A c \in Clients : c # disp[1].who => pc'[c] = pc[c]
    BY <1>6, ReturnEffect DEF Queue, QueueTypes
  <2>2. 1 \in DOMAIN disp /\ disp[1] \in Control
    BY <2>1
  <2>3. \A i \in DOMAIN pipe : pipe[i] \in Control
    BY <2>1
  <2>4. \A i \in DOMAIN pipe : pipe[i].who # Nobody => pipe[i].who \in Clients /\ pipe[i].who # disp[1].who
    BY <2>2, <2>3, ControlAssumption DEF Queue, OneAwaited, Awaited, Control
  <2> QED
    BY <2>1, <2>4 DEF Queue, QueueTypes, Awaited, OneAwaited
<1>7. ASSUME NEW c \in Clients, pc[c] # "sent", UNCHANGED <<disp, pipe>>,
             \A d \in Clients \ {c} : pc'[d] = pc[d] /\ op'[d] = op[d]
      PROVE  Queue'
  <2>1. QueueTypes' /\ OneAwaited'
    BY <1>7 DEF Queue, QueueTypes, OneAwaited
  <2>2. Awaited(disp)' /\ Awaited(pipe)'
    BY <1>7, Senders DEF Queue, Awaited
  <2> QED
    BY <2>1, <2>2 DEF Queue
<1>8. ASSUME NEW c \in Clients, NEW what \in Calls[c], Call(c, what)
      PROVE  Queue'
  BY <1>7, <1>8 DEF Call, ClientTypes
<1>9. ASSUME NEW c \in Clients, Launch(c) PROVE Queue'
  BY <1>1, <1>9 DEF Launch, ProcessReplaced
<1>10. ASSUME NEW c \in Clients, \/ Denied(c) \/ AlreadyRunning(c) \/ StartFails(c)
                                 \/ StartPoll(c) \/ StopPoll(c)
       PROVE  Queue'
  BY <1>7, <1>10 DEF Denied, AlreadyRunning, StartFails, StartPoll, StopPoll, Return, ClientTypes
<1>11. ASSUME NEW c \in Clients, Send(c) PROVE Queue'
  <2>1. CASE UNCHANGED pipe /\ Return(c)
    BY <1>7, <1>11, <2>1 DEF Send, Return, ClientTypes
  <2>2. CASE /\ Len(pipe) < MaxQueued /\ pipe' = Append(pipe, [who |-> c, code |-> op[c]])
             /\ pc' = [pc EXCEPT ![c] = "sent"]
    <3> DEFINE last == [who |-> c, code |-> op[c]]
    <3>1. /\ op[c] \in {"STOP", "CODE"} /\ (\A d \in Clients : pc[d] # "sent")
          /\ UNCHANGED <<disp, op>>
      BY <1>11 DEF Send
    <3>2. last \in Control /\ last.who = c /\ last.code = op[c]
      BY <3>1 DEF Control
    <3>3. /\ pipe \in Seq(Control) /\ disp \in Seq(Control)
          /\ \A i \in DOMAIN pipe : pipe[i].who = Nobody
          /\ \A i \in DOMAIN disp : disp[i].who = Nobody
      BY <3>1, Senders DEF Queue, QueueTypes, Awaited
    <3>4. /\ pipe' \in Seq(Control) /\ Len(pipe') = Len(pipe) + 1 /\ Len(pipe) \in Nat
          /\ DOMAIN pipe' = 1..(Len(pipe) + 1) /\ DOMAIN pipe = 1..Len(pipe)
          /\ pipe'[Len(pipe) + 1] = last
          /\ \A i \in DOMAIN pipe : pipe'[i] = pipe[i]
      BY <2>2, <3>2, <3>3
    <3>5. QueueTypes'
      BY <2>2, <3>1, <3>4, ControlAssumption DEF Queue, QueueTypes
    <3>6. Awaited(disp)' /\ Awaited(pipe)'
      BY <2>2, <3>1, <3>2, <3>3, <3>4 DEF Awaited, ClientTypes
    <3>7. OneAwaited'
      BY <2>2, <3>1, <3>2, <3>3, <3>4 DEF OneAwaited
    <3> QED
      BY <3>5, <3>6, <3>7 DEF Queue
  <2> QED
    BY <1>11, <2>1, <2>2 DEF Send
<1>12. ASSUME NEW c \in Clients, RequestTimeout(c) PROVE Queue'
  <2>1. /\ disp \in Seq(Control) /\ pipe \in Seq(Control)
        /\ disp' = Orphan(disp, c) /\ pipe' = Orphan(pipe, c) /\ UNCHANGED op
        /\ \A d \in Clients \ {c} : pc'[d] = pc[d]
    BY <1>12 DEF RequestTimeout, Queue, QueueTypes, ClientTypes
  <2>2. QueueTypes'
    BY <2>1, OrphanKeeps DEF Queue, QueueTypes
  <2>3. Awaited(disp)' /\ Awaited(pipe)'
    <3>1. ASSUME NEW controls \in Seq(Control), Awaited(controls),
                 \A i \in DOMAIN controls :
                   controls[i].who # Nobody => controls[i].who \in Clients
          PROVE  \A i \in DOMAIN Orphan(controls, c) :
                   Orphan(controls, c)[i].who # Nobody =>
                     /\ pc'[Orphan(controls, c)[i].who] = "sent"
                     /\ Orphan(controls, c)[i].code = op[Orphan(controls, c)[i].who]
      <4>1. SUFFICES ASSUME NEW i \in DOMAIN controls, Orphan(controls, c)[i].who # Nobody
                     PROVE  /\ pc'[Orphan(controls, c)[i].who] = "sent"
                            /\ Orphan(controls, c)[i].code = op[Orphan(controls, c)[i].who]
        BY <3>1, OrphanKeeps
      <4>2. /\ Orphan(controls, c)[i].who = controls[i].who /\ controls[i].who # c
            /\ Orphan(controls, c)[i].code = controls[i].code
        BY <3>1, <4>1, OrphanKeeps
      <4>3. controls[i].who \in Clients \ {c} /\ pc[controls[i].who] = "sent"
            /\ controls[i].code = op[controls[i].who]
        BY <3>1, <4>1, <4>2 DEF Awaited
      <4> QED
        BY <2>1, <4>2, <4>3
    <3> QED
      BY <2>1, <3>1, Senders DEF Queue, Awaited
  <2>4. OneAwaited'
    BY <2>1, OrphanKeeps DEF Queue, OneAwaited
  <2> QED
    BY <2>2, <2>3, <2>4 DEF Queue
<1> QED
  BY <1>2, <1>4, <1>5, <1>6, <1>8, <1>9, <1>10, <1>11, <1>12 DEF Next, Step

\* A queued stop is handled next, and one that is handled is done with only
\* when the control handler returns; who waits for it does not matter.
LEMMA HeldMoves ==
  ASSUME QueueTypes
  PROVE  /\ \A c \in Clients : RequestTimeout(c) /\ Held => Held'
         /\ ServiceTypes /\ Take /\ Held => Held'
         /\ ServiceTypes /\ HandlerReturns /\ Held => Held' \/ disp[1].code = "STOP"
         /\ \A c \in Clients : Send(c) /\ pipe' # pipe =>
              pc' = [pc EXCEPT ![c] = "sent"] /\ (Held \/ op[c] = "STOP" => Held')
<1>1. ASSUME NEW c \in Clients, RequestTimeout(c), Held PROVE Held'
  BY <1>1, OrphanKeeps DEF RequestTimeout, QueueTypes, Held
<1>2. ASSUME ServiceTypes, Take, Held PROVE Held'
  <2>1. /\ disp = <<>> /\ pipe # <<>> /\ pipe \in Seq(Control)
        /\ disp' = <<Head(pipe)>> /\ pipe' = Tail(pipe)
    BY <1>2, TakeEffect DEF QueueTypes
  <2>2. PICK i \in DOMAIN pipe : pipe[i].code = "STOP"
    BY <1>2, <2>1 DEF Held
  <2>3. CASE i = 1
    <3>1. 1 \in DOMAIN disp' /\ disp'[1] = pipe[1]
      BY <2>1
    <3> QED
      BY <2>2, <2>3, <3>1 DEF Held
  <2>4. CASE i # 1
    <3>1. i - 1 \in DOMAIN pipe' /\ pipe'[i - 1] = pipe[i]
      BY <2>1, <2>2, <2>4
    <3> QED
      BY <2>2, <3>1 DEF Held
  <2> QED
    BY <2>3, <2>4
<1>3. ASSUME ServiceTypes, HandlerReturns, Held PROVE Held' \/ disp[1].code = "STOP"
  BY <1>3, ReturnEffect DEF QueueTypes, Held
<1>4. ASSUME NEW c \in Clients, Send(c), pipe' # pipe
      PROVE  pc' = [pc EXCEPT ![c] = "sent"] /\ (Held \/ op[c] = "STOP" => Held')
  <2>1. /\ pipe' = Append(pipe, [who |-> c, code |-> op[c]]) /\ pipe \in Seq(Control)
        /\ disp' = disp /\ pc' = [pc EXCEPT ![c] = "sent"] /\ op[c] \in {"STOP", "CODE"}
    BY <1>4 DEF Send, QueueTypes
  <2>2. [who |-> c, code |-> op[c]] \in Control
    BY <2>1 DEF Control
  <2>3. /\ Len(pipe) + 1 \in DOMAIN pipe' /\ pipe'[Len(pipe) + 1].code = op[c]
        /\ \A i \in DOMAIN pipe : i \in DOMAIN pipe' /\ pipe'[i] = pipe[i]
    BY <2>1, <2>2
  <2> QED
    BY <2>1, <2>3 DEF Held
<1> QED
  BY <1>1, <1>2, <1>3, <1>4

\* Every step keeps a client's stop with the life it was sent to.
LEMMA StopsStep ==
  ASSUME ControlInv, [Next]_vars
  PROVE  Stops'
<1> USE DEF ControlInv, service, client, Stops
<1> DEFINE Same(c) == pc'[c] = pc[c] /\ op'[c] = op[c] /\ late'[c] = late[c] /\ target'[c] = target[c]
<1>1. CASE Crash
  BY <1>1, CrashEffect DEF ServiceTypes, ClientTypes, InTheSameLife, LifeOver, NotAhead, StopHeld
<1>2. CASE Serves
  <2>1. Held' = Held
    BY <1>2, ServesEffect DEF Held
  <2>2. StopHeld'
    BY <1>2, <2>1, ServesEffect DEF ServiceTypes, StopHeld, States
  <2> QED
    BY <1>2, <2>2, ServesEffect DEF ServiceTypes, InTheSameLife, LifeOver, NotAhead
<1>3. CASE Take
  BY <1>3, TakeEffect, HeldMoves DEF Queue, ServiceTypes, InTheSameLife, LifeOver, NotAhead, StopHeld
<1>5. CASE HandlerReturns
  <2>1. /\ disp # <<>> /\ disp \in Seq(Control)
        /\ disp[1].code = "STOP" => state \in {"STOP_PENDING", "STOPPED"} \/ overlap
        /\ UNCHANGED <<state, life, op, late, target>>
        /\ overlap' \in BOOLEAN /\ (overlap' => overlap)
        /\ \A c \in Clients : c # disp[1].who => pc'[c] = pc[c]
        /\ \A c \in Clients : pc'[c] = "sent" => pc[c] = "sent"
    BY <1>5, ReturnEffect DEF Queue, QueueTypes
  <2>2. 1 \in DOMAIN disp
    BY <2>1
  <2>3. \A c \in Clients : c = disp[1].who => pc[c] = "sent" /\ disp[1].code = op[c]
    BY <2>2, ControlAssumption DEF Queue, Awaited
  <2>4. StopHeld'
    BY <1>5, <2>1, HeldMoves DEF Queue, ServiceTypes, StopHeld
  <2>5. LifeOver'
    <3>1. SUFFICES ASSUME NEW c \in Clients, pc'[c] = "poll", op[c] = "STOP", ~late[c],
                          target[c] # 0
                   PROVE  \/ state = "STOPPED" \/ (state = "STOP_PENDING" /\ ~overlap')
                          \/ life > target[c]
      BY <2>1 DEF LifeOver
    <3>2. CASE c = disp[1].who
      BY <2>1, <2>3, <3>1, <3>2 DEF InTheSameLife, StopHeld
    <3>3. CASE c # disp[1].who
      BY <2>1, <3>1, <3>3 DEF LifeOver
    <3> QED
      BY <3>2, <3>3
  <2> QED
    BY <2>1, <2>4, <2>5 DEF InTheSameLife, NotAhead
<1>6. ASSUME NEW c \in Clients, NEW what \in Calls[c], Call(c, what)
      PROVE  Stops'
  <2>1. Held' = Held
    BY <1>6 DEF Call, Held
  <2> QED
    BY <1>6, <2>1 DEF Call, ServiceTypes, ClientTypes, InTheSameLife, LifeOver, NotAhead, StopHeld
<1>7. ASSUME NEW c \in Clients, Launch(c)
      PROVE  Stops'
  <2>1. /\ op[c] \in {"START", "ASYNC"} /\ life' = life + 1 /\ life \in Nat
        /\ UNCHANGED <<op, late, target>> /\ state = "STOPPED"
        /\ \A d \in Clients : pc'[d] # "sent"
        /\ \A d \in Clients \ {c} : pc'[d] = "poll" => pc[d] = "poll"
    BY <1>7 DEF Launch, ProcessReplaced, Service!Start, Service!Launch, ServiceTypes, ClientTypes
  <2>2. \A d \in Clients : target[d] \in Nat
    BY DEF ClientTypes
  <2> QED
    BY <2>1, <2>2 DEF InTheSameLife, LifeOver, NotAhead, StopHeld
<1>8. ASSUME NEW c \in Clients, \/ Denied(c) \/ AlreadyRunning(c) \/ StartFails(c)
                                \/ StartPoll(c) \/ StopPoll(c)
      PROVE  Stops'
  <2>1. /\ UNCHANGED <<service, op, late, target>>
        /\ \A d \in Clients \ {c} : pc'[d] = pc[d]
        /\ pc'[c] = "idle" \/ (pc'[c] = "poll" /\ op[c] # "STOP")
    BY <1>8 DEF Denied, AlreadyRunning, StartFails, StartPoll, StopPoll, Return, ClientTypes
  <2>2. Held' = Held
    BY <2>1 DEF Held
  <2> QED
    BY <2>1, <2>2 DEF InTheSameLife, LifeOver, NotAhead, StopHeld
<1>9. ASSUME NEW c \in Clients, Send(c)
      PROVE  Stops'
  <2>1. CASE pipe' = pipe
    <3>1. /\ pc' = [pc EXCEPT ![c] = "idle"] /\ UNCHANGED <<service, op, late, target>>
      BY <1>9, <2>1 DEF Send, Return, Queue, QueueTypes
    <3>2. Held' = Held
      BY <3>1 DEF Held
    <3> QED
      BY <3>1, <3>2 DEF ClientTypes, InTheSameLife, LifeOver, NotAhead, StopHeld
  <2>2. CASE pipe' # pipe
    <3>1. /\ state \in {"RUNNING", "START_PENDING"} /\ pc' = [pc EXCEPT ![c] = "sent"]
          /\ target' = [target EXCEPT ![c] = IF state = "RUNNING" /\ ~overlap THEN life ELSE 0]
          /\ UNCHANGED <<state, life, overlap, op, late>>
          /\ Held \/ op[c] = "STOP" => Held'
      BY <1>9, <2>2, HeldMoves DEF Send, Return, Queue
    <3>2. InTheSameLife' /\ LifeOver'
      BY <3>1 DEF ServiceTypes, ClientTypes, InTheSameLife, LifeOver
    <3>3. NotAhead' /\ StopHeld'
      BY <3>1 DEF ServiceTypes, ClientTypes, NotAhead, StopHeld
    <3> QED
      BY <3>2, <3>3
  <2> QED
    BY <2>1, <2>2
<1>10. ASSUME NEW c \in Clients, RequestTimeout(c)
       PROVE  Stops'
  <2>1. Held => Held'
    BY <1>10, HeldMoves DEF Queue
  <2> QED
    BY <1>10, <2>1 DEF RequestTimeout, ClientTypes, InTheSameLife, LifeOver, NotAhead, StopHeld
<1>11. CASE UNCHANGED vars
  BY <1>11 DEF vars, InTheSameLife, LifeOver, NotAhead, StopHeld, Held
<1> QED
  BY <1>1, <1>2, <1>3, <1>5, <1>6, <1>7, <1>8, <1>9, <1>10, <1>11 DEF Next, Step

LEMMA ControlInvariant == Safety => []ControlInv
<1>1. ControlInv /\ [Next]_vars => ControlInv'
  BY TypesStep, QueueStep, StopsStep DEF ControlInv
<1> QED
  BY <1>1, ControlInit, PTL DEF Safety

\* Types; one client at most waits in ControlService.
THEOREM ControlTypes == Safety => []TypeOK
<1>1. ControlInv => TypeOK
  BY DEF ControlInv, ServiceTypes, ClientTypes, Queue, QueueTypes, Kinds, Places, TypeOK
<1> QED
  BY <1>1, ControlInvariant, PTL

\* A stop sent to a service that had started is not lost when its sender gives
\* up: as long as that life runs, it is queued or being handled.
THEOREM TimedOutStopStays == Safety => []StopNotLost
<1>1. ControlInv => StopNotLost
  BY DEF ControlInv, Stops, StopHeld, Held, StopNotLost, isRunning
<1> QED
  BY <1>1, ControlInvariant, PTL

\* Only the end of its poll loop takes a client out of it (ServiceWin.cpp 296-307).
LEMMA StopPollEnds ==
  ASSUME ControlInv, [Next]_vars, NEW c \in Clients,
         op[c] = "STOP", pc[c] = "poll", pc'[c] = "idle"
  PROVE  state # "STOP_PENDING"
<1> USE DEF ControlInv, ClientTypes
<1>1. CASE Crash \/ Serves \/ Take
  BY <1>1, CrashEffect, ServesEffect, TakeEffect DEF Queue
<1>2. CASE HandlerReturns
  BY <1>2, ReturnEffect DEF Queue
<1>3. ASSUME NEW d \in Clients, NEW what \in Calls[d], Call(d, what) PROVE FALSE
  BY <1>3 DEF Call
<1>4. ASSUME NEW d \in Clients, Launch(d) PROVE FALSE
  BY <1>4 DEF Launch, ProcessReplaced
<1>5. ASSUME NEW d \in Clients, \/ Denied(d) \/ AlreadyRunning(d) \/ StartFails(d)
                                \/ StartPoll(d) \/ Send(d) \/ RequestTimeout(d)
      PROVE  FALSE
  BY <1>5 DEF Denied, AlreadyRunning, StartFails, StartPoll, Send, RequestTimeout, Return
<1>6. ASSUME NEW d \in Clients, StopPoll(d) PROVE state # "STOP_PENDING"
  BY <1>6 DEF StopPoll
<1>7. CASE UNCHANGED vars
  BY <1>7 DEF vars
<1> QED
  BY <1>1, <1>2, <1>3, <1>4, <1>5, <1>6, <1>7 DEF Next, Step

\* A Stop answered in time has ended the life it was sent to.
THEOREM StopIsHonest == Safety => StopEndsLife
<1> DEFINE Ended ==
      \A c \in Clients :
        op[c] = "STOP" /\ pc[c] = "poll" /\ pc'[c] = "idle" /\ ~late[c] /\ target[c] # 0
          => state = "STOPPED" \/ life > target[c]
<1>1. ControlInv /\ [Next]_vars => Ended
  BY StopPollEnds DEF ControlInv, Stops, LifeOver
<1> QED
  BY <1>1, ControlInvariant, PTL DEF StopEndsLife, Safety
=============================================================================
