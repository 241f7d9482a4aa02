----------------------- MODULE ServiceManagerProofs -----------------------
(***************************************************************************)
(* Handles and failure actions of ServiceManager, for any set of clients,  *)
(* whatever calls each of them makes, and any number of failures.          *)
(***************************************************************************)
EXTENDS ServiceManager, TLAPS

\* What SetAutoRestart can have set, and how far the restarts have come.
FailureInv ==
  /\ fails \in Nat /\ restarts \in Nat /\ restarts <= fails /\ restarts <= 2
  /\ \/ actions = <<>>
     \/ \E last \in {"NONE", "RUN_COMMAND"} : actions = <<"RESTART", "RESTART", last>>
  /\ CommandAsAsked

\* The labels at which a call has the service open.
Inside == {"config", "stop", "sent", "wait", "delete", "close"}

Held(c) == (IF kept[c] THEN 1 ELSE 0) + (IF pc[c] \in Inside THEN 1 ELSE 0)

\* Every open handle belongs to a call or to a Service object.
HandleInv ==
  /\ \A c \in Clients : handles[c] = Held(c)
  /\ \A c \in Clients :
       op[c] = "CREATE" /\ pc[c] \in {"open", "config", "stop", "sent", "wait"} => ~kept[c]

\* Deleted entries that nothing keeps are gone.
EntryInv ==
  /\ record = "absent" => state = "STOPPED" /\ \A c \in Clients : handles[c] = 0
  /\ record = "marked" => state # "STOPPED" \/ \E c \in Clients : handles[c] # 0

EntryTypes ==
  /\ record \in Records /\ state \in States
  /\ handles \in [Clients -> Nat]
  /\ pc \in [Clients -> Labels]
  /\ op \in [Clients -> {"none", "CREATE", "EXISTS", "REMOVE"}]
  /\ kept \in [Clients -> BOOLEAN]

\* Failure actions are what they should be initially and after every step.
LEMMA FailureInit == Init => FailureInv
BY DEF Init, FailureInv, CommandAsAsked

LEMMA FailureStep == FailureInv /\ [Next]_vars => FailureInv'
<1> SUFFICES ASSUME FailureInv, [Next]_vars PROVE FailureInv'
  OBVIOUS
<1>1. CASE UNCHANGED failure
  BY <1>1 DEF failure, FailureInv, CommandAsAsked
<1>2. CASE Failure
  <2> DEFINE n == IF fails' < Len(actions) THEN fails' ELSE Len(actions)
  <2>1. /\ fails' = fails + 1 /\ UNCHANGED <<actions, command, wanted>>
        /\ IF n > 0 /\ actions[n] = "RESTART" /\ record = "present"
           THEN restarts' = restarts + 1 ELSE restarts' = restarts
    BY <1>2 DEF Failure
  <2>2. CASE actions = <<>>
    <3>1. restarts' = restarts
      BY <2>1, <2>2
    <3> QED
      BY <2>1, <2>2, <3>1 DEF FailureInv, CommandAsAsked
  <2>3. ASSUME NEW last \in {"NONE", "RUN_COMMAND"}, actions = <<"RESTART", "RESTART", last>>
        PROVE  FailureInv'
    <3>1. Len(actions) = 3 /\ actions[3] # "RESTART"
      BY <2>3
    <3>2. restarts' = restarts \/ (restarts' = restarts + 1 /\ fails' < 3)
      BY <2>1, <3>1 DEF FailureInv
    <3>3. restarts' \in Nat /\ fails' \in Nat /\ restarts' <= fails' /\ restarts' <= 2
      BY <2>1, <3>2 DEF FailureInv
    <3> QED
      BY <2>1, <3>3 DEF FailureInv, CommandAsAsked
  <2> QED
    BY <2>2, <2>3 DEF FailureInv
<1>3. CASE Restart \/ QuietHour
  <2>1. /\ UNCHANGED <<actions, command, wanted>>
        /\ UNCHANGED <<fails, restarts>> \/ (fails' = 0 /\ restarts' = 0)
    BY <1>3 DEF Restart, QuietHour
  <2> QED
    BY <2>1 DEF FailureInv, CommandAsAsked
<1>4. ASSUME actions' = <<>>, restarts' = 0, fails' = 0 PROVE FailureInv'
  BY <1>4 DEF FailureInv, CommandAsAsked
<1>5. ASSUME NEW c \in Clients, NEW restart \in BOOLEAN, NEW cmd \in Commands \cup {NoCommand},
             SetAutoRestart(c, restart, cmd)
      PROVE  FailureInv'
  <2>1. /\ restarts' = 0 /\ fails' = fails
        /\ actions' = FailureActions(restart, cmd)
        /\ command' = CommandSet(restart, cmd)
        /\ wanted' = IF restart THEN cmd ELSE NoCommand
    BY <1>5 DEF SetAutoRestart
  <2>2. CASE ~restart
    <3>1. actions' = <<>>
      BY <2>1, <2>2 DEF FailureActions
    <3> QED
      BY <2>1, <3>1 DEF FailureInv, CommandAsAsked
  <2>3. CASE restart /\ cmd = NoCommand
    <3>1. actions' = <<"RESTART", "RESTART", "NONE">>
      BY <2>1, <2>3 DEF FailureActions
    <3> QED
      BY <2>1, <3>1 DEF FailureInv, CommandAsAsked
  <2>4. CASE restart /\ cmd # NoCommand
    <3>1. actions' = <<"RESTART", "RESTART", "RUN_COMMAND">> /\ command' = cmd /\ wanted' = cmd
      BY <2>1, <2>4 DEF FailureActions, CommandSet
    <3>2. CommandAsAsked'
      BY <2>4, <3>1 DEF CommandAsAsked
    <3> QED
      BY <2>1, <3>1, <3>2 DEF FailureInv
  <2> QED
    BY <2>2, <2>3, <2>4
<1>6. \/ UNCHANGED failure \/ Failure \/ Restart \/ QuietHour
      \/ actions' = <<>> /\ restarts' = 0 /\ fails' = 0
      \/ \E c \in Clients, restart \in BOOLEAN, cmd \in Commands \cup {NoCommand} :
           SetAutoRestart(c, restart, cmd)
  BY DEF Next, vars, failure, Process, TakeOther, Answer, Exit, Start, Sent, Create,
     OpenExisting, Configure, Stop, Wait, Open, Exists, Remove, Delete, Finish, Refused,
     Close, Ends
<1> QED
  BY <1>1, <1>2, <1>3, <1>4, <1>5, <1>6

\* A service that keeps crashing is restarted at most twice in a row, for any
\* number of failures, clients and changes of the settings.
THEOREM RestartsEnd == Spec => []RestartsBounded
<1>1. FailureInv => RestartsBounded
  BY DEF FailureInv, RestartsBounded
<1> QED
  BY <1>1, FailureInit, FailureStep, PTL DEF Spec

\* The command that runs is the one asked for last.
THEOREM CommandCurrent == Spec => []CommandAsAsked
<1>1. FailureInv => CommandAsAsked
  BY DEF FailureInv
<1> QED
  BY <1>1, FailureInit, FailureStep, PTL DEF Spec

\* The control handler works for a client that waits for it, if for any.
TakenInv == \A c \in Clients : taken = c => pc[c] = "sent"

HoldInv == EntryTypes /\ HandleInv /\ EntryInv

ManagerInv == HoldInv /\ TakenInv

\* One client's step: only its own handles, label and object change.
Ops == {"none", "CREATE", "EXISTS", "REMOVE"}

LEMMA OneClient ==
  ASSUME HandleInv, EntryTypes, NEW c \in Clients,
         \A d \in Clients \ {c} : /\ handles'[d] = handles[d] /\ pc'[d] = pc[d]
                                  /\ op'[d] = op[d] /\ kept'[d] = kept[d],
         handles'[c] = (IF kept'[c] THEN 1 ELSE 0) + (IF pc'[c] \in Inside THEN 1 ELSE 0),
         op'[c] = "CREATE" /\ pc'[c] \in {"open", "config", "stop", "sent", "wait"} => ~kept'[c]
  PROVE  HandleInv'
<1>1. \A d \in Clients : handles'[d] = Held(d)'
  BY DEF HandleInv, Held
<1> QED
  BY <1>1 DEF HandleInv

\* What an entry is after a handle was closed or the service moved on.
LEMMA RemainingEntry ==
  ASSUME NEW entry \in Records, NEW st \in States, NEW open \in [Clients -> Nat],
         entry = "absent" => st = "STOPPED" /\ \A c \in Clients : open[c] = 0
  PROVE  LET r == Remaining(entry, st, open)
         IN  /\ r \in Records
             /\ r = "absent" => st = "STOPPED" /\ \A c \in Clients : open[c] = 0
             /\ r = "marked" => st # "STOPPED" \/ \E c \in Clients : open[c] # 0
BY DEF Remaining, Records

\* The database operations keep the entry right.
LEMMA DatabaseStep ==
  ASSUME EntryTypes, EntryInv, NEW c \in Clients, NEW n \in Nat, n <= handles[c],
         OpenHandle(c) \/ Insert(c) \/ CloseHandles(c, n)
  PROVE  /\ record' \in Records /\ state' = state /\ EntryInv'
         /\ handles' \in [Clients -> Nat]
<1>0. handles[c] \in Nat /\ handles[c] - n \in Nat /\ handles[c] + 1 \in Nat /\ handles[c] + 1 # 0
  BY DEF EntryTypes
<1>1. CASE OpenHandle(c)
  <2>1. record' = record /\ record # "absent" /\ state' = state
    BY <1>1 DEF OpenHandle
  <2>2. handles' \in [Clients -> Nat] /\ handles'[c] # 0
    BY <1>0, <1>1 DEF OpenHandle, EntryTypes
  <2> QED
    BY <2>1, <2>2 DEF EntryInv, EntryTypes
<1>2. CASE Insert(c)
  <2>1. record' = "present" /\ state' = state
    BY <1>2 DEF Insert
  <2>2. handles' \in [Clients -> Nat]
    BY <1>0, <1>2 DEF Insert, EntryTypes
  <2> QED
    BY <2>1, <2>2 DEF EntryInv, Records
<1>3. CASE CloseHandles(c, n)
  <2>1. handles' \in [Clients -> Nat] /\ state' = state /\ state' \in States
    BY <1>0, <1>3 DEF CloseHandles, EntryTypes
  <2>2. record = "absent" => state' = "STOPPED" /\ \A d \in Clients : handles'[d] = 0
    BY <1>0, <1>3, <2>1 DEF CloseHandles, EntryInv, EntryTypes
  <2>3. record' = Remaining(record, state', handles')
    BY <1>3 DEF CloseHandles
  <2> QED
    BY <2>1, <2>2, <2>3, RemainingEntry DEF EntryInv, EntryTypes
<1> QED
  BY <1>1, <1>2, <1>3

LEMMA OpenStep ==
  ASSUME EntryTypes, EntryInv, NEW c \in Clients, OpenHandle(c) \/ Insert(c)
  PROVE  /\ record' \in Records /\ state' = state /\ EntryInv'
         /\ handles' \in [Clients -> Nat]
<1>1. 0 \in Nat /\ 0 <= handles[c]
  BY DEF EntryTypes
<1> QED
  BY <1>1, DatabaseStep

\* What the service does by itself: it never comes back from STOPPED, and
\* without overlap it goes on from RUNNING and from STOP_PENDING in one way only.
LEMMA ServeEffect ==
  ASSUME Process, state \in States
  PROVE  /\ record' = Remaining(record, state', handles) /\ handles' = handles
         /\ UNCHANGED <<taken, pc, op, kept, weak>>
         /\ state' \in States /\ (state = "STOPPED" => state' = "STOPPED")
         /\ exitCode \in SeenCodes => exitCode' \in SeenCodes
         /\ overlap \in BOOLEAN => overlap' \in BOOLEAN
         /\ ~overlap /\ state \in {"RUNNING", "STOP_PENDING"} =>
              /\ ~overlap' /\ state' \in {"RUNNING", "STOP_PENDING", "STOPPED"}
              /\ state = "STOP_PENDING" => state' # "RUNNING"
<1> USE DEF States, Service!States, SeenCodes, LiveCodes, Service!LiveCodes, Service!NO_ERROR, NO_ERROR
<1>1. /\ record' = Remaining(record, state', handles) /\ handles' = handles
      /\ UNCHANGED <<taken, pc, op, kept, weak>>
      /\ Service!Orderly \/ Service!EarlyExit \/ Service!Scramble \/ Service!Settle
  BY DEF Process, ProcessStep
<1>2. CASE Service!Orderly
  BY <1>1, <1>2 DEF Service!Orderly, Service!Starting, Service!Run, Service!BeginStop,
     Service!Stopping, Service!Finish, Service!Report
<1>3. CASE Service!EarlyExit
  BY <1>1, <1>3 DEF Service!EarlyExit
<1>4. CASE Service!Scramble
  BY <1>1, <1>4 DEF Service!Scramble
<1>5. CASE Service!Settle
  BY <1>1, <1>5 DEF Service!Settle, Service!vars
<1> QED
  BY <1>1, <1>2, <1>3, <1>4, <1>5

\* The dispatcher takes a stop.
LEMMA TakeEffect ==
  ASSUME ProcessStep(Service!Take("STOP")), taken' # "none"
  PROVE  /\ record' = Remaining(record, state', handles) /\ UNCHANGED <<state, exitCode, handles>>
         /\ taken = "none" /\ overlap' \in BOOLEAN
         /\ state # "START_PENDING" /\ ~overlap => ~overlap'
BY DEF ProcessStep, Service!Take, Service!vars

\* The control handler returns.
LEMMA AnswerEffect ==
  ASSUME Answer
  PROVE  /\ record' = Remaining(record, state', handles)
         /\ UNCHANGED <<state, exitCode, handles, op, weak, stale, kept>>
         /\ pc' = [c \in Clients |-> IF c = taken THEN "wait" ELSE pc[c]]
         /\ taken' = "none" /\ (overlap' = overlap \/ overlap' = FALSE)
         /\ overlap \/ state \in {"STOP_PENDING", "STOPPED"}
<1>1. /\ record' = Remaining(record, state', handles) /\ UNCHANGED <<handles, op, weak, stale, kept>>
      /\ pc' = [c \in Clients |-> IF c = taken THEN "wait" ELSE pc[c]]
      /\ taken' = "none" /\ Service!HandlerReturns
  BY DEF Answer, ProcessStep
<1>2. /\ UNCHANGED <<state, exitCode>>
      /\ overlap \/ state \in {"STOP_PENDING", "STOPPED"}
      /\ overlap' = overlap \/ overlap' = FALSE
  BY <1>1 DEF Service!HandlerReturns, Service!vars
<1> QED
  BY <1>1, <1>2

\* The end of a process.
LEMMA DieEffect ==
  ASSUME ProcessStep(Service!Die), taken' = "none"
  PROVE  /\ record' = Remaining(record, state', handles) /\ handles' = handles
         /\ state' = "STOPPED" /\ overlap' = FALSE
         /\ exitCode \in SeenCodes => exitCode' \in SeenCodes
BY DEF ProcessStep, Service!Die, Service!Abort, Service!Gone, Service!vars, SeenCodes,
   Service!ERROR_PROCESS_ABORTED, ERROR_PROCESS_ABORTED

\* A new process.
LEMMA LaunchEffect ==
  ASSUME Launch
  PROVE  /\ record = "present" /\ UNCHANGED <<record, handles>>
         /\ state = "STOPPED" /\ state' = "START_PENDING" /\ exitCode' \in SeenCodes
         /\ overlap' = FALSE /\ taken' = "none"
BY DEF Launch, LaunchStep, Service!Start, Service!Launch, Service!Gone, SeenCodes, LiveCodes,
   Service!NO_ERROR, NO_ERROR

\* The entry stays right whatever the service does.
LEMMA ProcessMoves ==
  ASSUME EntryTypes, EntryInv,
         \/ /\ record' = Remaining(record, state', handles) /\ handles' = handles
            /\ state' \in States /\ (state = "STOPPED" => state' = "STOPPED")
         \/ Launch
  PROVE  /\ record' \in Records /\ state' \in States /\ EntryInv'
         /\ handles' = handles
<1>1. CASE Launch
  BY <1>1, LaunchEffect DEF EntryInv, EntryTypes, States
<1>2. CASE /\ record' = Remaining(record, state', handles) /\ handles' = handles
           /\ state' \in States /\ (state = "STOPPED" => state' = "STOPPED")
  <2>1. record = "absent" => state' = "STOPPED" /\ \A c \in Clients : handles[c] = 0
    BY <1>2 DEF EntryInv
  <2> QED
    BY <1>2, <2>1, RemainingEntry DEF EntryInv, EntryTypes
<1> QED
  BY <1>1, <1>2

LEMMA ManagerInit == Init => ManagerInv
<1> SUFFICES ASSUME Init PROVE ManagerInv
  OBVIOUS
<1>1. EntryTypes
  BY DEF Init, DatabaseInit, EntryTypes, Records, States, Labels, Nobody
<1>2. HandleInv
  BY DEF Init, DatabaseInit, HandleInv, Held, Inside, Nobody
<1>3. EntryInv
  BY DEF Init, DatabaseInit, EntryInv
<1>4. TakenInv
  BY ManagerAssumption DEF Init, TakenInv
<1> QED
  BY <1>1, <1>2, <1>3, <1>4 DEF ManagerInv, HoldInv

\* Every step keeps handles and calls in line.
LEMMA HoldStep == ManagerInv /\ [Next]_vars => HoldInv'
<1> SUFFICES ASSUME ManagerInv, [Next]_vars PROVE HoldInv'
  OBVIOUS
<1> USE DEF ManagerInv, HoldInv
<1> DEFINE Types == /\ pc' \in [Clients -> Labels] /\ op' \in [Clients -> Ops]
                    /\ kept' \in [Clients -> BOOLEAN]
           Entry == /\ record' \in Records /\ state' \in States /\ EntryInv'
                    /\ handles' \in [Clients -> Nat]
<1>1. ASSUME UNCHANGED database PROVE Entry
  BY <1>1 DEF database, EntryTypes, EntryInv
<1>2. ASSUME Entry, UNCHANGED <<pc, op, kept, handles>> PROVE HoldInv'
  BY <1>2 DEF EntryTypes, HandleInv, Held
<1>3. CASE Process \/ TakeOther \/ Exit \/ Start \/ Failure \/ Restart \/ QuietHour
  <2>1. UNCHANGED <<pc, op, kept>>
    BY <1>3 DEF Process, TakeOther, Exit, Start, Failure, Restart, QuietHour, call
  <2>2. \/ /\ record' = Remaining(record, state', handles) /\ handles' = handles
           /\ state' \in States /\ (state = "STOPPED" => state' = "STOPPED")
        \/ Launch \/ UNCHANGED database
    <3>1. ASSUME Process \/ QuietHour PROVE <2>2!1 \/ UNCHANGED database
      BY <3>1, ServeEffect DEF QuietHour, EntryTypes
    <3>2. ASSUME TakeOther PROVE <2>2!1
      BY <3>2, TakeEffect DEF TakeOther, EntryTypes
    <3>3. ASSUME Exit \/ Failure PROVE <2>2!1
      BY <3>3, DieEffect DEF Exit, Failure, States
    <3>4. ASSUME Start \/ Restart PROVE Launch \/ UNCHANGED database
      BY <3>4 DEF Start, Restart
    <3> QED
      BY <1>3, <3>1, <3>2, <3>3, <3>4
  <2>3. Entry /\ handles' = handles
    BY <1>1, <2>2, ProcessMoves DEF database, EntryTypes
  <2> QED
    BY <1>2, <2>1, <2>3
<1>17. CASE Answer
  <2>1. /\ UNCHANGED <<state, handles, op, kept>>
        /\ pc' = [c \in Clients |-> IF c = taken THEN "wait" ELSE pc[c]]
        /\ record' = Remaining(record, state', handles)
    BY <1>17, AnswerEffect
  <2>2. Entry
    BY <2>1, ProcessMoves DEF EntryTypes
  <2>3. pc' \in [Clients -> Labels]
    BY <2>1 DEF EntryTypes, Labels
  <2>4. \A c \in Clients : pc'[c] = pc[c] \/ (pc[c] = "sent" /\ pc'[c] = "wait")
    BY <2>1 DEF TakenInv, EntryTypes
  <2>5. HandleInv'
    BY <2>1, <2>4 DEF HandleInv, Held, Inside
  <2> QED
    BY <2>1, <2>2, <2>3, <2>5 DEF EntryTypes
<1>4. ASSUME NEW c \in Clients, Create(c) PROVE HoldInv'
  <2>1. pc[c] = "idle" /\ ~kept[c] /\ kept' = kept
    BY <1>4 DEF Create, Idle
  <2>2. CASE Insert(c) /\ Configured(c) /\ op' = [op EXCEPT ![c] = "CREATE"]
    <3>1. /\ handles' = [handles EXCEPT ![c] = @ + 1] /\ pc' = [pc EXCEPT ![c] = "stop"]
      BY <2>2 DEF Insert, Configured
    <3>2. Entry /\ Types
      BY <2>1, <2>2, <3>1, OpenStep DEF EntryTypes, Labels, Ops
    <3>3. HandleInv'
      BY <2>1, <2>2, <3>1, OneClient DEF EntryTypes, HandleInv, Held, Inside
    <3> QED
      BY <3>2, <3>3 DEF EntryTypes, Ops
  <2>3. CASE Enter(c, "CREATE", "open") /\ UNCHANGED database
    <3>1. Entry /\ Types
      BY <1>1, <2>1, <2>3 DEF Enter, EntryTypes, Labels, Ops
    <3>2. HandleInv'
      BY <2>1, <2>3, OneClient DEF Enter, database, EntryTypes, HandleInv, Held, Inside
    <3> QED
      BY <3>1, <3>2 DEF EntryTypes, Ops
  <2> QED
    BY <1>4, <2>2, <2>3 DEF Create
<1>5. ASSUME NEW c \in Clients, OpenExisting(c) PROVE HoldInv'
  <2>1. pc[c] = "open" /\ kept' = kept
    BY <1>5 DEF OpenExisting
  <2>2. CASE OpenHandle(c) /\ Goto(c, "config")
    <3>1. Entry /\ Types
      BY <2>1, <2>2, OpenStep DEF Goto, EntryTypes, Labels, Ops
    <3>2. HandleInv'
      BY <2>1, <2>2, OneClient DEF OpenHandle, Goto, EntryTypes, HandleInv, Held, Inside
    <3> QED
      BY <3>1, <3>2 DEF EntryTypes, Ops
  <2>3. CASE Return(c) /\ UNCHANGED database
    <3>1. Entry /\ Types
      BY <1>1, <2>1, <2>3 DEF Return, EntryTypes, Labels, Ops
    <3>2. HandleInv'
      BY <2>1, <2>3, OneClient DEF Return, database, EntryTypes, HandleInv, Held, Inside
    <3> QED
      BY <3>1, <3>2 DEF EntryTypes, Ops
  <2> QED
    BY <1>5, <2>2, <2>3 DEF OpenExisting
<1>6. ASSUME NEW c \in Clients, Configure(c) PROVE HoldInv'
  <2>1. pc[c] = "config" /\ kept' = kept
    BY <1>6 DEF Configure
  <2>2. CASE Configured(c) /\ UNCHANGED <<database, op>>
    <3>1. pc' = [pc EXCEPT ![c] = "stop"] /\ UNCHANGED <<handles, op>>
      BY <2>2 DEF Configured, database
    <3>2. Entry /\ Types
      BY <1>1, <2>1, <2>2, <3>1 DEF EntryTypes, Labels, Ops
    <3>3. HandleInv'
      BY <2>1, <3>1, OneClient DEF EntryTypes, HandleInv, Held, Inside
    <3> QED
      BY <3>2, <3>3 DEF EntryTypes, Ops
  <2>3. CASE CloseHandles(c, 1) /\ Return(c)
    <3>1. handles[c] \in Nat /\ 1 <= handles[c]
      BY <2>1 DEF EntryTypes, HandleInv, Held, Inside
    <3>2. Entry /\ Types
      BY <2>1, <2>3, <3>1, DatabaseStep DEF Return, EntryTypes, Labels, Ops
    <3>3. HandleInv'
      BY <2>1, <2>3, OneClient DEF CloseHandles, Return, EntryTypes, HandleInv, Held, Inside
    <3> QED
      BY <3>2, <3>3 DEF EntryTypes, Ops
  <2> QED
    BY <1>6, <2>2, <2>3 DEF Configure
<1>7. ASSUME NEW c \in Clients, Entry, handles' = handles, pc[c] \in {"stop", "sent", "wait"},
             \/ AfterStop(c)
             \/ /\ \E label \in {"sent", "wait"} : pc' = [pc EXCEPT ![c] = label]
                /\ UNCHANGED <<op, kept>>
      PROVE  HoldInv'
  <2>1. /\ pc' \in [Clients -> Labels]
        /\ \A d \in Clients \ {c} : pc'[d] = pc[d] /\ op'[d] = op[d] /\ kept'[d] = kept[d]
    BY <1>7 DEF AfterStop, Return, Goto, EntryTypes, Labels
  <2>2. op' \in [Clients -> Ops] /\ kept' \in [Clients -> BOOLEAN]
    BY <1>7 DEF AfterStop, Return, Goto, EntryTypes, Ops
  <2>3. handles[c] = (IF kept[c] THEN 1 ELSE 0) + 1
    BY <1>7 DEF HandleInv, Held, Inside
  <2>4. \/ op[c] = "CREATE" /\ pc'[c] = "idle" /\ op'[c] = "none" /\ kept'[c] /\ ~kept[c]
        \/ pc'[c] = "delete" /\ op'[c] = op[c] /\ kept'[c] = kept[c]
        \/ pc'[c] \in {"sent", "wait"} /\ op'[c] = op[c] /\ kept'[c] = kept[c]
    BY <1>7 DEF AfterStop, Return, Goto, EntryTypes, HandleInv
  <2>5. HandleInv'
    BY <1>7, <2>1, <2>3, <2>4, OneClient DEF HandleInv, Inside
  <2> QED
    BY <1>7, <2>1, <2>2, <2>5 DEF EntryTypes, Ops
<1>8. ASSUME NEW c \in Clients, Stop(c) \/ Sent(c) \/ Wait(c) PROVE HoldInv'
  <2>1. /\ pc[c] \in {"stop", "sent", "wait"}
        /\ UNCHANGED database \/ (ProcessStep(Service!Take("STOP")) /\ taken' = c)
        /\ \/ AfterStop(c)
           \/ /\ \E label \in {"sent", "wait"} : pc' = [pc EXCEPT ![c] = label]
              /\ UNCHANGED <<op, kept>>
    BY <1>8 DEF Stop, Sent, Wait, TimedOut, Goto
  <2>2. ASSUME ProcessStep(Service!Take("STOP")), taken' = c PROVE Entry /\ handles' = handles
    <3>1. taken' # "none"
      BY <2>2, ManagerAssumption
    <3> QED
      BY <2>2, <3>1, TakeEffect, ProcessMoves DEF EntryTypes
  <2>3. Entry /\ handles' = handles
    BY <1>1, <2>1, <2>2 DEF database, EntryTypes
  <2> QED
    BY <1>7, <2>1, <2>3
<1>9. ASSUME NEW c \in Clients, Open(c) PROVE HoldInv'
  <2>1. /\ pc[c] = "idle" /\ ~kept[c] /\ UNCHANGED <<pc, op>> /\ OpenHandle(c)
        /\ kept' = [kept EXCEPT ![c] = TRUE]
    BY <1>9 DEF Open, Idle, call
  <2>2. Entry /\ Types
    BY <2>1, OpenStep DEF EntryTypes, Ops
  <2>3. HandleInv'
    BY <2>1, OneClient DEF OpenHandle, EntryTypes, HandleInv, Held, Inside
  <2> QED
    BY <2>2, <2>3 DEF EntryTypes, Ops
<1>10. ASSUME NEW c \in Clients, Exists(c) \/ Remove(c) PROVE HoldInv'
  <2>1. PICK what \in {"EXISTS", "REMOVE"}, label \in {"close", "stop"} : Enter(c, what, label)
    BY <1>10 DEF Exists, Remove
  <2>2. pc[c] = "idle" /\ kept' = kept /\ OpenHandle(c)
    BY <1>10 DEF Exists, Remove, Idle
  <2>3. Entry /\ Types
    BY <2>1, <2>2, OpenStep DEF Enter, EntryTypes, Labels, Ops
  <2>4. HandleInv'
    BY <2>1, <2>2, OneClient DEF OpenHandle, Enter, EntryTypes, HandleInv, Held, Inside
  <2> QED
    BY <2>3, <2>4 DEF EntryTypes, Ops
<1>11. ASSUME NEW c \in Clients, Delete(c) PROVE HoldInv'
  <2>1. /\ pc[c] = "delete" /\ pc' = [pc EXCEPT ![c] = "close"]
        /\ UNCHANGED <<op, kept, handles, state>>
        /\ record' = IF record = "present" THEN "marked" ELSE record
    BY <1>11 DEF Delete, Goto, Mark, database
  <2>2. handles[c] # 0
    BY <2>1 DEF HandleInv, Held, Inside
  <2>3. Entry /\ Types
    BY <2>1, <2>2 DEF EntryTypes, EntryInv, Records, Labels, Ops
  <2>4. HandleInv'
    BY <2>1, OneClient DEF EntryTypes, HandleInv, Held, Inside
  <2> QED
    BY <2>3, <2>4 DEF EntryTypes, Ops
<1>12. ASSUME NEW c \in Clients, Finish(c) PROVE HoldInv'
  <2>1. pc[c] = "close" /\ kept' = kept /\ CloseHandles(c, 1) /\ Return(c)
    BY <1>12 DEF Finish
  <2>2. handles[c] \in Nat /\ 1 <= handles[c]
    BY <2>1 DEF EntryTypes, HandleInv, Held, Inside
  <2>3. Entry /\ Types
    BY <2>1, <2>2, DatabaseStep DEF Return, EntryTypes, Labels, Ops
  <2>4. HandleInv'
    BY <2>1, OneClient DEF CloseHandles, Return, EntryTypes, HandleInv, Held, Inside
  <2> QED
    BY <2>3, <2>4 DEF EntryTypes, Ops
<1>13. ASSUME NEW c \in Clients, Close(c) PROVE HoldInv'
  <2>1. /\ pc[c] = "idle" /\ kept[c] /\ CloseHandles(c, 1) /\ UNCHANGED <<pc, op>>
        /\ kept' = [kept EXCEPT ![c] = FALSE]
    BY <1>13 DEF Close, call
  <2>2. handles[c] \in Nat /\ 1 <= handles[c]
    BY <2>1 DEF EntryTypes, HandleInv, Held, Inside
  <2>3. Entry /\ Types
    BY <2>1, <2>2, DatabaseStep DEF EntryTypes, Ops
  <2>4. HandleInv'
    BY <2>1, OneClient DEF CloseHandles, EntryTypes, HandleInv, Held, Inside
  <2> QED
    BY <2>3, <2>4 DEF EntryTypes, Ops
<1>14. ASSUME NEW c \in Clients, Ends(c) PROVE HoldInv'
  <2>1. CloseHandles(c, handles[c]) /\ Return(c) /\ kept' = [kept EXCEPT ![c] = FALSE]
    BY <1>14 DEF Ends
  <2>2. handles[c] \in Nat /\ handles[c] <= handles[c] /\ handles[c] - handles[c] = 0
    BY DEF EntryTypes
  <2>3. Entry /\ Types
    BY <2>1, <2>2, DatabaseStep DEF Return, EntryTypes, Labels, Ops
  <2>4. /\ handles'[c] = 0 /\ pc'[c] = "idle" /\ op'[c] = "none" /\ ~kept'[c]
        /\ \A d \in Clients \ {c} : /\ handles'[d] = handles[d] /\ pc'[d] = pc[d]
                                    /\ op'[d] = op[d] /\ kept'[d] = kept[d]
    BY <2>1, <2>2 DEF CloseHandles, Return, EntryTypes
  <2>5. HandleInv'
    BY <2>4, OneClient DEF Inside
  <2> QED
    BY <2>3, <2>5 DEF EntryTypes, Ops
<1>15. ASSUME NEW c \in Clients, Refused(c) PROVE HoldInv'
  <2>1. pc[c] = "idle" /\ pc' = [pc EXCEPT ![c] = "dead"] /\ UNCHANGED <<database, op, kept>>
    BY <1>15 DEF Refused, Idle, Goto
  <2>2. Entry /\ Types
    BY <1>1, <2>1 DEF EntryTypes, Labels, Ops
  <2>3. HandleInv'
    BY <2>1, OneClient DEF database, EntryTypes, HandleInv, Held, Inside
  <2> QED
    BY <2>2, <2>3 DEF EntryTypes, Ops
<1>16. ASSUME UNCHANGED <<database, pc, op, kept>> PROVE HoldInv'
  BY <1>1, <1>2, <1>16 DEF database
<1> QED
  BY <1>3, <1>4, <1>5, <1>6, <1>8, <1>9, <1>10, <1>11, <1>12, <1>13, <1>14, <1>15, <1>16, <1>17
     DEF Next, vars, SetAutoRestart, call, database

\* A client leaves "sent" only when the handler does not work for it any more.
LEMMA TakenStep == ManagerInv /\ [Next]_vars => TakenInv'
<1> SUFFICES ASSUME ManagerInv, [Next]_vars PROVE TakenInv'
  OBVIOUS
<1> USE DEF ManagerInv, HoldInv
<1>1. ASSUME taken' \in {"none", "other"} PROVE TakenInv'
  BY <1>1, ManagerAssumption DEF TakenInv
<1>2. CASE TakeOther \/ Answer \/ Exit \/ Start \/ Failure
  <2>1. taken' \in {"none", "other"}
    BY <1>2 DEF TakeOther, Answer, Exit, Start, Failure, Launch
  <2> QED
    BY <1>1, <2>1
<1>3. CASE Process \/ Restart \/ QuietHour
  <2>1. UNCHANGED pc /\ taken' \in {taken, "none"}
    BY <1>3 DEF Process, Restart, QuietHour, Launch, process, call
  <2> QED
    BY <1>1, <2>1 DEF TakenInv
<1>4. ASSUME NEW c \in Clients, pc[c] # "sent", taken' = taken,
             \A d \in Clients \ {c} : pc'[d] = pc[d]
      PROVE  TakenInv'
  BY <1>4 DEF TakenInv
<1>5. ASSUME NEW c \in Clients, Stop(c) PROVE TakenInv'
  <2>1. CASE UNCHANGED process
    <3>1. pc[c] = "stop" /\ \A d \in Clients \ {c} : pc'[d] = pc[d]
      BY <1>5 DEF Stop, AfterStop, TimedOut, Return, Goto, EntryTypes
    <3> QED
      BY <1>4, <2>1, <3>1 DEF process
  <2>2. CASE taken' = c /\ pc' = [pc EXCEPT ![c] = "sent"]
    BY <2>2 DEF TakenInv, EntryTypes
  <2> QED
    BY <1>5, <2>1, <2>2 DEF Stop
<1>6. ASSUME NEW c \in Clients, Sent(c) PROVE TakenInv'
  <2>1. CASE taken' = "other"
    BY <1>1, <2>1
  <2>2. CASE taken' = taken /\ taken # c /\ AfterStop(c)
    BY <2>2 DEF AfterStop, Return, Goto, TakenInv, EntryTypes
  <2> QED
    BY <1>6, <2>1, <2>2 DEF Sent
<1>7. ASSUME NEW c \in Clients, Ends(c) PROVE TakenInv'
  <2>1. /\ pc' = [pc EXCEPT ![c] = "idle"]
        /\ taken' = IF taken = c THEN "other" ELSE taken
    BY <1>7 DEF Ends, Return
  <2> QED
    BY <1>1, <2>1 DEF TakenInv, EntryTypes
<1>8. ASSUME NEW c \in Clients, \/ Create(c) \/ OpenExisting(c) \/ Configure(c) \/ Wait(c)
                                \/ Exists(c) \/ Remove(c) \/ Delete(c) \/ Finish(c) \/ Refused(c)
      PROVE  TakenInv'
  <2>1. pc[c] # "sent" /\ taken' = taken
    BY <1>8 DEF Create, OpenExisting, Configure, Wait, Exists, Remove, Delete, Finish, Refused,
       Idle, process
  <2>2. \E label : pc' = [pc EXCEPT ![c] = label]
    BY <1>8 DEF Create, OpenExisting, Configure, Wait, Exists, Remove, Delete, Finish, Refused,
       Configured, Enter, Goto, Return, AfterStop
  <2> QED
    BY <1>4, <2>1, <2>2 DEF EntryTypes
<1>9. CASE UNCHANGED <<pc, taken>>
  BY <1>9 DEF TakenInv
<1>10. ASSUME NEW c \in Clients, Open(c) \/ Close(c) PROVE UNCHANGED <<pc, taken>>
  BY <1>10 DEF Open, Close, call, process
<1> QED
  BY <1>2, <1>3, <1>5, <1>6, <1>7, <1>8, <1>9, <1>10 DEF Next, vars, SetAutoRestart, call, process

LEMMA ManagerStep == ManagerInv /\ [Next]_vars => ManagerInv'
BY HoldStep, TakenStep DEF ManagerInv

\* No call leaks a handle, for any number of clients and any mix of calls: a
\* removed service stays only while it runs, is in use or is kept open.
THEOREM RemovedGoes == Spec => []MarkedIsHeld
<1>1. ManagerInv => MarkedIsHeld
  BY DEF ManagerInv, HoldInv, HandleInv, Held, Inside, EntryInv, EntryTypes, MarkedIsHeld
<1> QED
  BY <1>1, ManagerInit, ManagerStep, PTL DEF Spec

\* The types of what no handle or entry depends on.
RestTypes ==
  /\ exitCode \in SeenCodes /\ overlap \in BOOLEAN /\ taken \in Clients \cup {"none", "other"}
  /\ command \in Commands \cup {NoCommand} /\ fails \in 0..MaxFails /\ due \in BOOLEAN
  /\ weak \in [Clients -> BOOLEAN] /\ stale \in [Clients -> BOOLEAN]

LEMMA RestInit == Init => RestTypes
<1> SUFFICES ASSUME Init PROVE RestTypes
  OBVIOUS
<1>1. exitCode \in SeenCodes
  BY DEF Init, DatabaseInit, NO_ERROR, SeenCodes, LiveCodes
<1>2. fails \in 0..MaxFails
  <2>1. fails = 0 /\ MaxFails \in Nat
    BY ManagerAssumption DEF Init
  <2> QED
    BY <2>1
<1> QED
  BY <1>1, <1>2 DEF Init, RestTypes, Nobody

LEMMA RestStep ==
  ASSUME RestTypes, EntryTypes, [Next]_vars
  PROVE  RestTypes'
<1> USE DEF RestTypes
<1>1. CASE Process \/ TakeOther \/ Answer \/ Exit \/ Start \/ Restart \/ QuietHour
  <2>1. exitCode' \in SeenCodes /\ overlap' \in BOOLEAN /\ taken' \in Clients \cup {"none", "other"}
    <3>1. CASE Process
      BY <3>1, ServeEffect DEF EntryTypes
    <3>2. CASE TakeOther
      BY <3>2, TakeEffect DEF TakeOther
    <3>3. CASE Answer
      BY <3>3, AnswerEffect
    <3>4. CASE Exit
      BY <3>4, DieEffect DEF Exit
    <3>5. ASSUME Launch PROVE <2>1
      BY <3>5, LaunchEffect
    <3>6. ASSUME UNCHANGED <<database, process>> PROVE <2>1
      BY <3>6 DEF database, process
    <3> QED
      BY <1>1, <3>1, <3>2, <3>3, <3>4, <3>5, <3>6 DEF Start, Restart, QuietHour
  <2>2. UNCHANGED <<command, weak>> /\ stale' \in {stale, Nobody}
        /\ due' \in BOOLEAN /\ fails' \in {0, fails}
    BY <1>1 DEF Process, Ended, TakeOther, Answer, Exit, Start, Restart, QuietHour, failure, call
  <2>3. 0 \in 0..MaxFails
    BY ManagerAssumption
  <2> QED
    BY <2>1, <2>2, <2>3 DEF Nobody
<1>2. CASE Failure
  <2>1. /\ UNCHANGED <<command, weak>> /\ stale' \in {stale, Nobody} /\ taken' = "none"
        /\ due' \in {TRUE, due} /\ fails < MaxFails /\ fails' = fails + 1
    BY <1>2 DEF Failure, Ended
  <2>2. exitCode' \in SeenCodes /\ overlap' \in BOOLEAN
    BY <1>2, DieEffect DEF Failure
  <2>3. fails' \in 0..MaxFails
    BY <2>1, ManagerAssumption
  <2> QED
    BY <2>1, <2>2, <2>3 DEF Nobody
<1>3. ASSUME NEW c \in Clients, Create(c) PROVE RestTypes'
  <2>1. 0 \in 0..MaxFails
    BY ManagerAssumption
  <2>2. CASE Insert(c) /\ Configured(c) /\ actions' = <<>> /\ command' = NoCommand
             /\ fails' = 0 /\ due' = FALSE
    BY <1>3, <2>1, <2>2 DEF Create, Insert, Configured, NO_ERROR, SeenCodes, LiveCodes, process
  <2>3. CASE UNCHANGED <<exitCode, process, command, fails, due, weak, stale>>
    BY <2>3 DEF process
  <2> QED
    BY <1>3, <2>2, <2>3 DEF Create, Enter, database, failure
<1>4. ASSUME NEW c \in Clients, Configure(c) PROVE RestTypes'
  <2>1. UNCHANGED <<exitCode, process, command, fails, due>>
    BY <1>4 DEF Configure, Configured, CloseHandles, database, failure
  <2>2. weak' \in [Clients -> BOOLEAN] /\ stale' \in [Clients -> BOOLEAN]
    BY <1>4 DEF Configure, Configured, Return
  <2> QED
    BY <2>1, <2>2 DEF process
<1>5. ASSUME NEW c \in Clients, Stop(c) \/ Sent(c) \/ Wait(c) PROVE RestTypes'
  <2>1. UNCHANGED <<command, fails, due>>
    BY <1>5 DEF Stop, Sent, Wait, failure
  <2>2. CASE taken' = c /\ ProcessStep(Service!Take("STOP"))
             /\ weak' = [weak EXCEPT ![c] = overlap'] /\ UNCHANGED stale
    <3>1. exitCode' = exitCode /\ overlap' \in BOOLEAN
      BY <2>2, ManagerAssumption, TakeEffect
    <3> QED
      BY <2>1, <2>2, <3>1
  <2>3. CASE UNCHANGED <<database, overlap>> /\ taken' \in {taken, "other"}
             /\ (AfterStop(c) \/ TimedOut(c))
    <3>1. weak' \in [Clients -> BOOLEAN] /\ stale' \in [Clients -> BOOLEAN]
      BY <2>3 DEF AfterStop, TimedOut, Return, Goto
    <3> QED
      BY <2>1, <2>3, <3>1 DEF database
  <2> QED
    BY <1>5, <2>2, <2>3 DEF Stop, Sent, Wait, TimedOut, process
<1>6. ASSUME NEW c \in Clients, \/ OpenExisting(c) \/ Open(c) \/ Exists(c) \/ Remove(c) \/ Delete(c)
                                \/ Finish(c) \/ Refused(c) \/ Close(c) \/ Ends(c)
      PROVE  RestTypes'
  <2>1. UNCHANGED <<exitCode, overlap, command, fails, due>> /\ taken' \in {taken, "other"}
    BY <1>6 DEF OpenExisting, Open, Exists, Remove, Delete, Finish, Refused, Close, Ends,
       OpenHandle, CloseHandles, Mark, database, failure, process
  <2>2. weak' \in [Clients -> BOOLEAN] /\ stale' \in [Clients -> BOOLEAN]
    BY <1>6 DEF OpenExisting, Open, Exists, Remove, Delete, Finish, Refused, Close, Ends,
       Enter, Goto, Return, call
  <2> QED
    BY <2>1, <2>2
<1>7. ASSUME NEW c \in Clients, NEW restart \in BOOLEAN, NEW cmd \in Commands \cup {NoCommand},
             SetAutoRestart(c, restart, cmd)
      PROVE  RestTypes'
  BY <1>7 DEF SetAutoRestart, CommandSet, call, database, process
<1>8. CASE UNCHANGED vars
  BY <1>8 DEF vars
<1> QED
  BY <1>1, <1>2, <1>3, <1>4, <1>5, <1>6, <1>7, <1>8 DEF Next

\* While an old process remains, an answered stop that met no start has begun
\* to end it, and one that is handled has found it running or stopping.
Under(c) ==
  /\ pc[c] = "wait" => ~overlap /\ state = "STOP_PENDING"
  /\ pc[c] = "sent" => taken = c /\ ~overlap /\ state \in {"RUNNING", "STOP_PENDING"}

StopUnderWay ==
  \A c \in Clients : stale[c] => state # "STOPPED" /\ (weak[c] \/ Under(c))

\* One client's step leaves the other clients' stops under way.
LEMMA OthersUnder ==
  ASSUME StopUnderWay, EntryTypes, NEW c \in Clients,
         UNCHANGED <<state, overlap>>,
         taken' = taken \/ taken \in {c, "none"},
         \A d \in Clients \ {c} : pc'[d] = pc[d] /\ weak'[d] = weak[d] /\ stale'[d] = stale[d],
         stale'[c] => state # "STOPPED" /\ (weak'[c] \/ Under(c)')
  PROVE  StopUnderWay'
<1>1. \A d \in Clients \ {c} : taken = d => taken' = d
  BY ManagerAssumption
<1> QED
  BY <1>1 DEF StopUnderWay, Under

LEMMA FreshStep ==
  ASSUME ManagerInv, RestTypes, StopUnderWay, [Next]_vars
  PROVE  StopUnderWay'
<1> USE DEF ManagerInv, HoldInv
<1>1. CASE Process
  <2>1. CASE state' = "STOPPED"
    BY <1>1, <2>1 DEF Process, Ended, Nobody, StopUnderWay
  <2>2. CASE state' # "STOPPED"
    <3>1. stale' = stale /\ UNCHANGED <<taken, pc, weak>>
      BY <1>1, <2>2 DEF Process, Ended
    <3>2. ~overlap /\ state \in {"RUNNING", "STOP_PENDING"} =>
            ~overlap' /\ state' \in {"RUNNING", "STOP_PENDING"}
            /\ (state = "STOP_PENDING" => state' = "STOP_PENDING")
      BY <1>1, <2>2, ServeEffect DEF EntryTypes
    <3> QED
      BY <2>2, <3>1, <3>2 DEF StopUnderWay, Under
  <2> QED
    BY <2>1, <2>2
<1>2. CASE Failure
  <2>1. state' = "STOPPED"
    BY <1>2, DieEffect DEF Failure
  <2> QED
    BY <1>2, <2>1 DEF Failure, Ended, Nobody, StopUnderWay
<1>3. CASE TakeOther
  <2>1. /\ UNCHANGED <<state, pc, weak, stale>> /\ taken = "none"
        /\ state # "START_PENDING" /\ ~overlap => ~overlap'
    BY <1>3, TakeEffect DEF TakeOther, call
  <2>2. \A c \in Clients : taken # c
    BY <2>1, ManagerAssumption
  <2> QED
    BY <2>1, <2>2 DEF StopUnderWay, Under
<1>4. CASE Answer
  <2>1. /\ UNCHANGED <<state, weak, stale>>
        /\ pc' = [c \in Clients |-> IF c = taken THEN "wait" ELSE pc[c]]
        /\ overlap' = overlap \/ overlap' = FALSE
        /\ overlap \/ state \in {"STOP_PENDING", "STOPPED"}
    BY <1>4, AnswerEffect
  <2>2. SUFFICES ASSUME NEW c \in Clients, stale[c], ~weak[c], state # "STOPPED" PROVE Under(c)'
    BY <2>1 DEF StopUnderWay
  <2>3. Under(c)
    BY <2>2 DEF StopUnderWay
  <2>4. CASE taken = c
    <3>1. pc[c] = "sent" /\ pc'[c] = "wait"
      BY <2>1, <2>4 DEF TakenInv
    <3> QED
      BY <2>1, <2>2, <2>3, <3>1 DEF Under
  <2>5. CASE taken # c
    <3>1. pc'[c] = pc[c] /\ pc[c] # "sent"
      BY <2>1, <2>3, <2>5 DEF Under
    <3> QED
      BY <2>1, <2>3, <3>1 DEF Under
  <2> QED
    BY <2>4, <2>5
<1>5. CASE Exit \/ Start \/ Restart
  <2>1. UNCHANGED stale
    BY <1>5 DEF Exit, Start, Restart, call
  <2>2. CASE state = "STOPPED"
    BY <2>1, <2>2 DEF StopUnderWay
  <2>3. CASE state # "STOPPED"
    <3>1. UNCHANGED <<database, process, pc, weak>>
      BY <1>5, <2>3, LaunchEffect DEF Exit, Start, Restart, call
    <3> QED
      BY <2>1, <3>1 DEF database, process, StopUnderWay, Under
  <2> QED
    BY <2>2, <2>3
<1>6. ASSUME NEW c \in Clients, Create(c) \/ Configure(c)
      PROVE  StopUnderWay'
  <2>1. /\ UNCHANGED <<state, overlap, taken>> /\ pc'[c] \notin {"sent", "wait"}
        /\ stale'[c] => state # "STOPPED"
    BY <1>6 DEF Create, Configure, Insert, CloseHandles, Configured, Enter, Return, database,
       process, EntryTypes, RestTypes, StopUnderWay
  <2>2. \A d \in Clients \ {c} : pc'[d] = pc[d] /\ weak'[d] = weak[d] /\ stale'[d] = stale[d]
    BY <1>6 DEF Create, Configure, Configured, Enter, Return, EntryTypes, RestTypes
  <2> QED
    BY <2>1, <2>2, OthersUnder DEF Under
<1>7. ASSUME NEW c \in Clients, \/ OpenExisting(c) \/ Exists(c) \/ Remove(c) \/ Delete(c)
                                \/ Finish(c) \/ Refused(c) \/ Ends(c)
      PROVE  StopUnderWay'
  <2>1. /\ UNCHANGED <<state, overlap>> /\ (taken' = taken \/ taken \in {c, "none"})
        /\ pc'[c] \notin {"sent", "wait"}
    BY <1>7 DEF OpenExisting, Exists, Remove, Delete, Finish, Refused, Ends, process,
       OpenHandle, CloseHandles, Mark, Enter, Goto, Return, database, EntryTypes
  <2>2. /\ \A d \in Clients \ {c} : pc'[d] = pc[d] /\ weak'[d] = weak[d] /\ stale'[d] = stale[d]
        /\ stale'[c] => stale[c]
    BY <1>7 DEF OpenExisting, Exists, Remove, Delete, Finish, Refused, Ends,
       Enter, Goto, Return, EntryTypes, RestTypes
  <2>3. stale'[c] => state # "STOPPED"
    BY <2>2 DEF StopUnderWay
  <2> QED
    BY <2>1, <2>2, <2>3, OthersUnder DEF Under
<1>8. ASSUME NEW c \in Clients, AfterStop(c) \/ TimedOut(c), UNCHANGED <<state, overlap>>,
             taken' = taken \/ taken = c
      PROVE  StopUnderWay'
  <2>1. /\ \A d \in Clients \ {c} : pc'[d] = pc[d] /\ weak'[d] = weak[d] /\ stale'[d] = stale[d]
        /\ stale'[c] => stale[c]
        /\ pc'[c] \notin {"sent", "wait"} \/ weak'[c]
    BY <1>8 DEF AfterStop, TimedOut, Return, Goto, EntryTypes, RestTypes
  <2>2. stale'[c] => state # "STOPPED" /\ (weak'[c] \/ Under(c)')
    BY <2>1 DEF StopUnderWay, Under
  <2> QED
    BY <1>8, <2>1, <2>2, OthersUnder
<1>9. ASSUME NEW c \in Clients, Stop(c)
      PROVE  StopUnderWay'
  <2>1. CASE /\ taken' = c /\ ProcessStep(Service!Take("STOP"))
             /\ pc' = [pc EXCEPT ![c] = "sent"] /\ weak' = [weak EXCEPT ![c] = overlap']
             /\ UNCHANGED stale /\ state # "STOPPED"
    <3>1. /\ state' = state /\ taken = "none" /\ overlap' \in BOOLEAN
          /\ state # "START_PENDING" /\ ~overlap => ~overlap'
      BY <2>1, ManagerAssumption, TakeEffect
    <3>2. overlap' = (overlap \/ state = "START_PENDING")
      BY <2>1 DEF ProcessStep, Service!Take
    <3>3. /\ pc'[c] = "sent" /\ weak'[c] = overlap'
          /\ \A d \in Clients \ {c} : pc'[d] = pc[d] /\ weak'[d] = weak[d]
      BY <2>1 DEF EntryTypes, RestTypes
    <3>4. \A d \in Clients : taken # d
      BY <3>1, ManagerAssumption
    <3>5. weak'[c] \/ Under(c)'
      BY <2>1, <3>1, <3>2, <3>3 DEF Under, RestTypes, EntryTypes, States
    <3>6. ASSUME NEW d \in Clients \ {c}, stale[d], ~weak[d] PROVE Under(d)'
      BY <2>1, <3>1, <3>3, <3>4, <3>6 DEF StopUnderWay, Under
    <3> QED
      BY <2>1, <3>1, <3>3, <3>5, <3>6 DEF StopUnderWay
  <2> QED
    BY <1>8, <1>9, <2>1 DEF Stop, TimedOut, database, process
<1>10. ASSUME NEW c \in Clients, Sent(c) \/ Wait(c) PROVE StopUnderWay'
  BY <1>8, <1>10 DEF Sent, Wait, TimedOut, database, process
<1>11. CASE UNCHANGED <<state, overlap, taken, pc, weak, stale>>
  BY <1>11 DEF StopUnderWay, Under
<1>12. ASSUME NEW c \in Clients, Open(c) \/ Close(c)
       PROVE  UNCHANGED <<state, overlap, taken, pc, weak, stale>>
  BY <1>12 DEF Open, Close, OpenHandle, CloseHandles, call, process
<1> QED
  BY <1>1, <1>2, <1>3, <1>4, <1>5, <1>6, <1>7, <1>9, <1>10, <1>11, <1>12
     DEF Next, vars, QuietHour, SetAutoRestart, call, database, process

LEMMA AllKept == Spec => [](ManagerInv /\ FailureInv /\ RestTypes /\ StopUnderWay)
<1>1. Init => StopUnderWay
  BY DEF Init, Nobody, StopUnderWay
<1>2. ManagerInv /\ RestTypes /\ StopUnderWay /\ [Next]_vars => RestTypes' /\ StopUnderWay'
  BY RestStep, FreshStep DEF ManagerInv, HoldInv
<1> QED
  BY <1>1, <1>2, ManagerInit, ManagerStep, FailureInit, FailureStep, RestInit, PTL DEF Spec

\* Types, and no more than two handles of one client at a time.
THEOREM ManagerTypes == Spec => []TypeOK
<1>1. ASSUME ManagerInv, FailureInv, RestTypes PROVE TypeOK
  <2>1. handles \in [Clients -> 0..2]
    BY <1>1 DEF ManagerInv, HoldInv, HandleInv, Held, EntryTypes
  <2>2. Len(actions) <= 3
    <3>1. ASSUME actions = <<>> PROVE Len(actions) = 0
      BY <3>1
    <3>2. ASSUME NEW last \in {"NONE", "RUN_COMMAND"}, actions = <<"RESTART", "RESTART", last>>
          PROVE  Len(actions) = 3
      BY <3>2
    <3>3. Len(actions) = 0 \/ Len(actions) = 3
      BY <1>1, <3>1, <3>2, Zenon DEF FailureInv
    <3>4. ASSUME NEW n \in {0, 3} PROVE n <= 3
      OBVIOUS
    <3> QED
      BY <3>3, <3>4, Zenon
  <2> QED
    BY <1>1, <2>1, <2>2 DEF ManagerInv, HoldInv, EntryTypes, EntryInv, RestTypes, TypeOK
<1> QED
  BY <1>1, AllKept, PTL

\* No process outlives the configuration it was started with, when Create
\* returns from a stop that reached a service which had started and was
\* answered in time: for any number of clients and restarts.
THEOREM CreateIsFresh == Spec => FreshProcess
<1> DEFINE Fresh ==
      \A c \in Clients :
        /\ op[c] = "CREATE" /\ pc[c] \in {"sent", "wait"} /\ ~weak[c]
        /\ pc'[c] = "idle" /\ kept'[c]
        => ~stale[c]
<1>1. ASSUME ManagerInv, StopUnderWay, [Next]_vars PROVE [Fresh]_vars
  <2> USE DEF ManagerInv, HoldInv
  <2>1. SUFFICES ASSUME NEW c \in Clients, op[c] = "CREATE", pc[c] \in {"sent", "wait"},
                        pc'[c] = "idle", kept'[c], ~weak[c], stale[c]
                 PROVE  FALSE
    OBVIOUS
  <2>2. /\ pc[c] = "wait" => state = "STOP_PENDING"
        /\ pc[c] = "sent" => taken = c
    BY <1>1, <2>1 DEF StopUnderWay, Under
  <2>3. pc' # pc /\ ~Answer
    BY <1>1, <2>1 DEF Answer
  <2>4. PICK d \in Clients :
          \/ Create(d) \/ OpenExisting(d) \/ Configure(d) \/ Stop(d) \/ Sent(d) \/ Wait(d)
          \/ Exists(d) \/ Remove(d) \/ Delete(d) \/ Finish(d) \/ Refused(d) \/ Ends(d)
    BY <1>1, <2>3 DEF Next, vars, Process, TakeOther, Exit, Start, Failure, Restart, QuietHour,
       Open, Close, SetAutoRestart, call
  <2>5. \E label : pc' = [pc EXCEPT ![d] = label]
    BY <2>4 DEF Create, OpenExisting, Configure, Stop, Sent, Wait, TimedOut, Exists, Remove,
       Delete, Finish, Refused, Ends, Configured, Enter, Goto, Return, AfterStop
  <2>6. d = c
    BY <1>1, <2>1, <2>5 DEF EntryTypes
  <2>7. Sent(c) \/ Wait(c) \/ Ends(c)
    BY <2>1, <2>4, <2>6 DEF Create, OpenExisting, Configure, Stop, Exists, Remove, Delete,
       Finish, Refused, Idle
  <2>8. CASE Ends(c)
    BY <1>1, <2>1, <2>8 DEF Ends, EntryTypes
  <2>9. CASE Wait(c)
    BY <2>2, <2>9 DEF Wait
  <2>10. CASE Sent(c)
    <3>1. TimedOut(c)
      BY <2>2, <2>10 DEF Sent
    <3> QED
      BY <1>1, <2>1, <3>1 DEF TimedOut, EntryTypes
  <2> QED
    BY <2>7, <2>8, <2>9, <2>10
<1> QED
  BY <1>1, AllKept, PTL DEF Spec, FreshProcess
=============================================================================
