------------------------ MODULE ExecuteOnceProofs ------------------------
(***************************************************************************)
(* What ExecuteOnce leaves behind and what a caller left alone reads, for  *)
(* any number of callers and of starts of the service.                     *)
(***************************************************************************)
EXTENDS ExecuteOnce, TLAPS

\* The caller whose program the entry names has still to delete it.
Owner ==
  record = "present" /\ config # Outsider => config \in Clients /\ pc[config] \in Owning

\* What a caller that was left alone finds where it left it.
Undisturbed ==
  \A c \in Clients : alone[c] =>
    /\ pc[c] \in Owning => record = "present" /\ config = c
    /\ mine[c] # None => run = mine[c] /\ image = c

OnceInv == TypeOK /\ Owner /\ Undisturbed

\* The labels, of two kinds each.
LEMMA LabelKinds ==
  /\ Holding \subseteq Labels /\ Owning \subseteq Labels
  /\ {"idle", "setup", "existing"} \subseteq Labels \ (Holding \cup Owning)
  /\ {"check", "change", "close"} \subseteq Holding \ Owning
  /\ {"typed", "enable", "launch", "poll", "watch", "read", "query", "kill", "mark"}
       \subseteq Holding \cap Owning
  /\ {"type", "disabled", "start", "wait", "code", "delete"} \subseteq Owning \ Holding
BY DEF Holding, Owning, Labels

\* The invariant holds initially.
LEMMA OnceInit == Init => OnceInv
<1> SUFFICES ASSUME Init PROVE OnceInv
  OBVIOUS
<1>1. TypeOK
  <2>1. handles = [c \in Clients |-> IF pc[c] \in Holding THEN 1 ELSE 0]
    BY LabelKinds DEF Init
  <2> QED
    BY <2>1, LabelKinds, OnceAssumption
       DEF Init, TypeOK, Records, States, SeenCodes, LiveCodes, None
<1>2. Owner /\ Undisturbed
  BY DEF Init, Owner, Undisturbed
<1> QED
  BY <1>1, <1>2 DEF OnceInv

\* An entry that is there stays; one that is not does not come back by itself.
LEMMA RemainingEntry ==
  ASSUME NEW entry \in Records, NEW st, NEW open
  PROVE  /\ Remaining(entry, st, open) \in Records
         /\ Remaining(entry, st, open) = "present" <=> entry = "present"
BY DEF Remaining, Records

\* Opening and closing the service on the way from one label to the next.
LEMMA OpenKeeps ==
  ASSUME OnceInv, NEW c \in Clients,
         NEW from \in Labels \ Holding, NEW to \in Holding, NEW missing \in Labels \ Holding,
         to \in Owning <=> from \in Owning, missing \in Owning => from \in Owning,
         Open(c, from, to, missing)
  PROVE  OnceInv'
<1>1. /\ pc[c] = from
      /\ \/ pc' = [pc EXCEPT ![c] = to] /\ record # "absent"
            /\ handles' = [handles EXCEPT ![c] = @ + 1]
         \/ pc' = [pc EXCEPT ![c] = missing] /\ record = "absent" /\ handles' = handles
      /\ UNCHANGED <<record, state, exitCode, config, disabled, run, image, pid, mine, alone>>
  BY DEF Open, Goto, OpenHandle, database
<1>2. TypeOK'
  <2>1. handles' = [d \in Clients |-> IF pc'[d] \in Holding THEN 1 ELSE 0]
    BY <1>1 DEF OnceInv, TypeOK
  <2>2. pc' \in [Clients -> Labels]
    BY <1>1, LabelKinds DEF OnceInv, TypeOK
  <2> QED
    BY <1>1, <2>1, <2>2 DEF OnceInv, TypeOK
<1>3. Owner' /\ Undisturbed'
  BY <1>1 DEF OnceInv, TypeOK, Owner, Undisturbed
<1> QED
  BY <1>2, <1>3 DEF OnceInv

LEMMA CloseKeeps ==
  ASSUME OnceInv, NEW c \in Clients,
         NEW from \in Holding, NEW to \in Labels \ Holding, to \in Owning <=> from \in Owning,
         Close(c, from, to)
  PROVE  OnceInv'
<1>1. /\ pc[c] = from /\ pc' = [pc EXCEPT ![c] = to]
      /\ handles' = [handles EXCEPT ![c] = @ - 1]
      /\ record' = Remaining(record, state, handles')
      /\ UNCHANGED <<state, exitCode, config, disabled, run, image, pid, mine, alone>>
  BY DEF Close, Goto, CloseHandles
<1>2. record' \in Records /\ (record' = "present" <=> record = "present")
  BY <1>1, RemainingEntry DEF OnceInv, TypeOK
<1>3. TypeOK'
  <2>1. handles' = [d \in Clients |-> IF pc'[d] \in Holding THEN 1 ELSE 0]
    BY <1>1 DEF OnceInv, TypeOK
  <2> QED
    BY <1>1, <1>2, <2>1 DEF OnceInv, TypeOK
<1>4. Owner' /\ Undisturbed'
  BY <1>1, <1>2 DEF OnceInv, TypeOK, Owner, Undisturbed
<1> QED
  BY <1>3, <1>4 DEF OnceInv

\* The service moves on, or is terminated.
LEMMA ProcessKeeps ==
  ASSUME OnceInv, Runs \/ Stops \/ Dies
  PROVE  /\ record' \in Records /\ (record' = "present" <=> record = "present")
         /\ state' \in States /\ exitCode' \in SeenCodes /\ handles' = handles
<1>1. state' \in States /\ exitCode' \in SeenCodes
  BY DEF Runs, Stops, Dies, ProcessStep, Service!Starting, Service!Run, Service!BeginStop,
     Service!Stopping, Service!Finish, Service!Abort, Service!Report, States, SeenCodes,
     Service!LiveCodes, LiveCodes, Service!NO_ERROR, NO_ERROR,
     Service!ERROR_PROCESS_ABORTED, ERROR_PROCESS_ABORTED
<1>2. record' = Remaining(record, state', handles) /\ handles' = handles
  BY DEF Runs, Stops, Dies, ProcessStep
<1> QED
  BY <1>1, <1>2, RemainingEntry DEF OnceInv, TypeOK

\* Every step of a caller keeps the invariant.
LEMMA CallerStep ==
  ASSUME OnceInv, NEW c \in Clients, Call(c) \/ Step(c)
  PROVE  OnceInv'
<1> USE LabelKinds
<1>1. CASE \/ Open(c, "idle", "check", "setup") \/ Open(c, "existing", "change", "idle")
           \/ Open(c, "type", "typed", "start") \/ Open(c, "disabled", "enable", "delete")
           \/ Open(c, "start", "launch", "delete") \/ Open(c, "wait", "watch", "code")
           \/ Open(c, "code", "read", "delete") \/ Open(c, "delete", "query", "idle")
  <2>1. CASE Open(c, "idle", "check", "setup")
    <3>1. /\ "idle" \in Labels \ Holding /\ "check" \in Holding /\ "setup" \in Labels \ Holding
          /\ ("check" \in Owning <=> "idle" \in Owning) /\ ("setup" \in Owning => "idle" \in Owning)
      OBVIOUS
    <3> QED
      BY <2>1, <3>1, OpenKeeps
  <2>2. CASE Open(c, "existing", "change", "idle")
    <3>1. /\ "existing" \in Labels \ Holding /\ "change" \in Holding /\ "idle" \in Labels \ Holding
          /\ ("change" \in Owning <=> "existing" \in Owning) /\ ("idle" \in Owning => "existing" \in Owning)
      OBVIOUS
    <3> QED
      BY <2>2, <3>1, OpenKeeps
  <2>3. CASE Open(c, "type", "typed", "start")
    <3>1. /\ "type" \in Labels \ Holding /\ "typed" \in Holding /\ "start" \in Labels \ Holding
          /\ ("typed" \in Owning <=> "type" \in Owning) /\ ("start" \in Owning => "type" \in Owning)
      OBVIOUS
    <3> QED
      BY <2>3, <3>1, OpenKeeps
  <2>4. CASE Open(c, "disabled", "enable", "delete")
    <3>1. /\ "disabled" \in Labels \ Holding /\ "enable" \in Holding /\ "delete" \in Labels \ Holding
          /\ ("enable" \in Owning <=> "disabled" \in Owning) /\ ("delete" \in Owning => "disabled" \in Owning)
      OBVIOUS
    <3> QED
      BY <2>4, <3>1, OpenKeeps
  <2>5. CASE Open(c, "start", "launch", "delete")
    <3>1. /\ "start" \in Labels \ Holding /\ "launch" \in Holding /\ "delete" \in Labels \ Holding
          /\ ("launch" \in Owning <=> "start" \in Owning) /\ ("delete" \in Owning => "start" \in Owning)
      OBVIOUS
    <3> QED
      BY <2>5, <3>1, OpenKeeps
  <2>6. CASE Open(c, "wait", "watch", "code")
    <3>1. /\ "wait" \in Labels \ Holding /\ "watch" \in Holding /\ "code" \in Labels \ Holding
          /\ ("watch" \in Owning <=> "wait" \in Owning) /\ ("code" \in Owning => "wait" \in Owning)
      OBVIOUS
    <3> QED
      BY <2>6, <3>1, OpenKeeps
  <2>7. CASE Open(c, "code", "read", "delete")
    <3>1. /\ "code" \in Labels \ Holding /\ "read" \in Holding /\ "delete" \in Labels \ Holding
          /\ ("read" \in Owning <=> "code" \in Owning) /\ ("delete" \in Owning => "code" \in Owning)
      OBVIOUS
    <3> QED
      BY <2>7, <3>1, OpenKeeps
  <2>8. CASE Open(c, "delete", "query", "idle")
    <3>1. /\ "delete" \in Labels \ Holding /\ "query" \in Holding /\ "idle" \in Labels \ Holding
          /\ ("query" \in Owning <=> "delete" \in Owning) /\ ("idle" \in Owning => "delete" \in Owning)
      OBVIOUS
    <3> QED
      BY <2>8, <3>1, OpenKeeps
  <2> QED
    BY <1>1, <2>1, <2>2, <2>3, <2>4, <2>5, <2>6, <2>7, <2>8
<1>2. CASE \/ Close(c, "check", IF state = "RUNNING" THEN "idle" ELSE "setup")
           \/ Close(c, "typed", IF disabled THEN "disabled" ELSE "start")
           \/ Close(c, "watch", IF state = "RUNNING" THEN "wait" ELSE "code")
           \/ Close(c, "poll", "wait") \/ Close(c, "read", "delete") \/ Close(c, "close", "idle")
  BY <1>2, CloseKeeps
<1>3. ASSUME Own(c), Goto(c, "type")
      PROVE  /\ pc' \in [Clients -> Labels] /\ mine' \in [Clients -> 0..MaxRuns]
             /\ alone' \in [Clients -> BOOLEAN]
             /\ config' \in Clients \cup {Outsider} /\ disabled' \in BOOLEAN
  <2>1. pc' \in [Clients -> Labels] /\ config' \in Clients \cup {Outsider} /\ disabled' \in BOOLEAN
    BY <1>3 DEF OnceInv, TypeOK, Own, Goto
  <2>2. None \in 0..MaxRuns
    BY OnceAssumption DEF None
  <2>3. mine' \in [Clients -> 0..MaxRuns]
    BY <1>3, <2>2 DEF OnceInv, TypeOK, Own
  <2>4. alone' \in [Clients -> BOOLEAN]
    BY <1>3, Zenon DEF Own
  <2> QED
    BY <2>1, <2>3, <2>4
<1>4. CASE SetupCreate(c)
  <2>1. CASE Own(c) /\ Goto(c, "type") /\ record' = "present" /\ exitCode' = NO_ERROR
             /\ UNCHANGED <<state, handles>> /\ pc[c] = "setup"
    <3>1. handles' = [d \in Clients |-> IF pc'[d] \in Holding THEN 1 ELSE 0]
      BY <2>1 DEF OnceInv, TypeOK, Goto
    <3>2. TypeOK'
      BY <1>3, <2>1, <3>1 DEF OnceInv, TypeOK, Own, Records, SeenCodes, LiveCodes
    <3>3. Owner' /\ Undisturbed'
      BY <2>1 DEF OnceInv, TypeOK, Own, Goto, Owner, Undisturbed, None
    <3> QED
      BY <3>2, <3>3 DEF OnceInv
  <2>2. CASE /\ pc[c] = "setup"
             /\ \/ pc' = [pc EXCEPT ![c] = "existing"] \/ pc' = [pc EXCEPT ![c] = "idle"]
             /\ UNCHANGED <<database, config, disabled, run, image, pid, mine, alone>>
    <3>1. handles' = [d \in Clients |-> IF pc'[d] \in Holding THEN 1 ELSE 0]
      BY <2>2 DEF OnceInv, TypeOK, database
    <3>2. TypeOK'
      BY <2>2, <3>1 DEF OnceInv, TypeOK, database
    <3>3. Owner' /\ Undisturbed'
      BY <2>2 DEF OnceInv, TypeOK, database, Owner, Undisturbed
    <3> QED
      BY <3>2, <3>3 DEF OnceInv
  <2> QED
    BY <1>4, <2>1, <2>2 DEF SetupCreate, Goto
<1>5. CASE SetupChange(c)
  <2>1. /\ pc[c] = "change" /\ handles' = [handles EXCEPT ![c] = @ - 1]
        /\ record' = Remaining(record, state, handles') /\ UNCHANGED <<state, exitCode>>
    BY <1>5 DEF SetupChange, CloseHandles
  <2>2. record' \in Records /\ (record' = "present" <=> record = "present")
    BY <2>1, RemainingEntry DEF OnceInv, TypeOK
  <2>3. CASE record = "present" /\ Own(c) /\ Goto(c, "type")
    <3>1. handles' = [d \in Clients |-> IF pc'[d] \in Holding THEN 1 ELSE 0]
      BY <2>1, <2>3 DEF OnceInv, TypeOK, Goto
    <3>2. TypeOK'
      BY <1>3, <2>1, <2>2, <2>3, <3>1 DEF OnceInv, TypeOK, Own
    <3>3. Owner' /\ Undisturbed'
      BY <2>1, <2>2, <2>3 DEF OnceInv, TypeOK, Own, Goto, Owner, Undisturbed, None
    <3> QED
      BY <3>2, <3>3 DEF OnceInv
  <2>4. CASE Goto(c, "idle") /\ UNCHANGED <<config, disabled, run, image, pid, mine, alone>>
    <3>1. handles' = [d \in Clients |-> IF pc'[d] \in Holding THEN 1 ELSE 0]
      BY <2>1, <2>4 DEF OnceInv, TypeOK, Goto
    <3>2. TypeOK'
      BY <2>1, <2>2, <2>4, <3>1 DEF OnceInv, TypeOK, Goto
    <3>3. Owner' /\ Undisturbed'
      BY <2>1, <2>2, <2>4 DEF OnceInv, TypeOK, Goto, Owner, Undisturbed
    <3> QED
      BY <3>2, <3>3 DEF OnceInv
  <2> QED
    BY <1>5, <2>3, <2>4 DEF SetupChange
<1>6. ASSUME NEW from \in Holding \cap Owning, NEW to \in {"start", "delete", "wait"},
             pc[c] = from, CloseHandles(c, 1), Goto(c, to), disabled' \in BOOLEAN,
             UNCHANGED <<config, run, image, pid, mine, alone>>
      PROVE  OnceInv'
  <2>1. /\ handles' = [handles EXCEPT ![c] = @ - 1]
        /\ record' = Remaining(record, state, handles') /\ UNCHANGED <<state, exitCode>>
    BY <1>6 DEF CloseHandles
  <2>2. record' \in Records /\ (record' = "present" <=> record = "present")
    BY <2>1, RemainingEntry DEF OnceInv, TypeOK
  <2>3. handles' = [d \in Clients |-> IF pc'[d] \in Holding THEN 1 ELSE 0]
    BY <1>6, <2>1 DEF OnceInv, TypeOK, Goto
  <2>4. TypeOK'
    BY <1>6, <2>1, <2>2, <2>3 DEF OnceInv, TypeOK, Goto
  <2>5. Owner' /\ Undisturbed'
    BY <1>6, <2>1, <2>2 DEF OnceInv, TypeOK, Goto, Owner, Undisturbed
  <2> QED
    BY <2>4, <2>5 DEF OnceInv
<1>7. CASE Enable(c)
  BY <1>6, <1>7 DEF Enable, OnceInv, TypeOK
<1>8. CASE StartService(c)
  <2>1. CASE Launch /\ Goto(c, "poll") /\ mine' = [mine EXCEPT ![c] = run'] /\ Disturb(c)
             /\ pc[c] = "launch" /\ UNCHANGED <<config, disabled, pid>>
    <3>1. /\ run' = run + 1 /\ image' = config /\ run < MaxRuns
          /\ UNCHANGED <<record, handles>> /\ state' = "START_PENDING" /\ exitCode' = NO_ERROR
      BY <2>1 DEF Launch, LaunchStep, Service!Launch, Service!NO_ERROR, NO_ERROR
    <3>2. run \in Nat /\ run' \in 0..MaxRuns
      BY <3>1, OnceAssumption DEF OnceInv, TypeOK
    <3>3. handles' = [d \in Clients |-> IF pc'[d] \in Holding THEN 1 ELSE 0]
      BY <2>1, <3>1 DEF OnceInv, TypeOK, Goto
    <3>4. alone' \in [Clients -> BOOLEAN] /\ mine' \in [Clients -> 0..MaxRuns]
      BY <2>1, <3>2 DEF Disturb, OnceInv, TypeOK
    <3>5. TypeOK'
      BY <2>1, <3>1, <3>2, <3>3, <3>4
         DEF OnceInv, TypeOK, Goto, States, SeenCodes, LiveCodes
    <3>6. Owner' /\ Undisturbed'
      BY <2>1, <3>1 DEF OnceInv, TypeOK, Goto, Disturb, Owner, Undisturbed
    <3> QED
      BY <3>5, <3>6 DEF OnceInv
  <2>2. CASE CloseHandles(c, 1) /\ UNCHANGED <<run, image, mine, alone, config, disabled, pid>>
             /\ (Goto(c, "delete") \/ Goto(c, "wait")) /\ pc[c] = "launch"
    BY <1>6, <2>2 DEF OnceInv, TypeOK
  <2> QED
    BY <1>8, <2>1, <2>2 DEF StartService
<1>9. ASSUME NEW from \in Holding \cap Owning, NEW to \in {"kill", "mark", "close"},
             pc[c] = from, Goto(c, to), UNCHANGED <<config, disabled, run, image, mine, handles>>,
             record' \in Records, record' = "present" <=> (record = "present" /\ to # "close"),
             state' \in States, exitCode' \in SeenCodes, pid' \in [Clients -> 0..MaxRuns],
             alone' = alone \/ Disturb(c), record' # record /\ to = "close" => Disturb(c)
      PROVE  OnceInv'
  <2>1. handles' = [d \in Clients |-> IF pc'[d] \in Holding THEN 1 ELSE 0]
    BY <1>9 DEF OnceInv, TypeOK, Goto
  <2>2. alone' \in [Clients -> BOOLEAN]
    BY <1>9 DEF Disturb, OnceInv, TypeOK
  <2>3. TypeOK'
    BY <1>9, <2>1, <2>2 DEF OnceInv, TypeOK, Goto
  <2>4. Owner'
    BY <1>9 DEF OnceInv, TypeOK, Goto, Owner
  <2>5. Undisturbed'
    BY <1>9 DEF OnceInv, TypeOK, Goto, Disturb, Undisturbed
  <2> QED
    BY <2>3, <2>4, <2>5 DEF OnceInv
<1>10. CASE QueryPid(c)
  <2>1. pid' \in [Clients -> 0..MaxRuns] /\ pc[c] = "query" /\ Goto(c, "kill")
        /\ UNCHANGED <<record, state, exitCode, handles, config, disabled, run, image, mine, alone>>
    BY <1>10, OnceAssumption DEF QueryPid, database, OnceInv, TypeOK, None
  <2> QED
    BY <1>9, <2>1 DEF OnceInv, TypeOK
<1>11. CASE Terminate(c)
  BY <1>9, <1>11, ProcessKeeps, OnceAssumption DEF Terminate, database, OnceInv, TypeOK, None
<1>12. CASE Delete(c)
  BY <1>9, <1>12 DEF Delete, Mark, database, OnceInv, TypeOK, Records
<1> QED
  BY <1>1, <1>2, <1>4, <1>5, <1>7, <1>8, <1>10, <1>11, <1>12
     DEF Call, Step, Poll, After, ServiceDelete

\* So does every step of the system.
LEMMA OnceStep == OnceInv /\ [Next]_vars => OnceInv'
<1> SUFFICES ASSUME OnceInv, [Next]_vars PROVE OnceInv'
  OBVIOUS
<1>1. CASE Process
  <2>1. UNCHANGED <<config, disabled, run, image, pc, pid, mine, alone>>
    BY <1>1 DEF Process, caller
  <2> QED
    BY <1>1, <2>1, ProcessKeeps DEF Process, OnceInv, TypeOK, Owner, Undisturbed
<1>2. CASE OutsiderStarts
  <2>1. /\ run' = run + 1 /\ image' = config /\ run < MaxRuns
        /\ UNCHANGED <<record, handles, config, disabled, pc, pid, mine>>
        /\ state' = "START_PENDING" /\ exitCode' = NO_ERROR
        /\ \A c \in Clients : ~alone'[c]
        /\ alone' \in [Clients -> BOOLEAN]
    BY <1>2, OnceAssumption DEF OutsiderStarts, Launch, LaunchStep, Service!Launch, Disturb,
       Service!NO_ERROR, NO_ERROR
  <2>2. run' \in 0..MaxRuns
    BY <2>1, OnceAssumption DEF OnceInv, TypeOK
  <2> QED
    BY <2>1, <2>2 DEF OnceInv, TypeOK, Owner, Undisturbed, States, SeenCodes, LiveCodes
<1>3. CASE OutsiderDisables
  BY <1>3 DEF OutsiderDisables, database, caller, OnceInv, TypeOK, Owner, Undisturbed
<1>4. CASE UNCHANGED vars
  BY <1>4 DEF vars, OnceInv, TypeOK, Owner, Undisturbed
<1> QED
  BY <1>1, <1>2, <1>3, <1>4, CallerStep DEF Next

LEMMA OnceInvariant == Safety => []OnceInv
BY OnceInit, OnceStep, PTL DEF Safety

\* Types, and a handle open exactly in the steps that use it.
THEOREM HandlesClosed == Safety => []TypeOK
<1>1. OnceInv => TypeOK
  BY DEF OnceInv
<1> QED
  BY <1>1, OnceInvariant, PTL

\* Whatever fails and whoever interferes, the service ends with the calls.
THEOREM NothingLeft == Safety => []TemporaryOnly
<1>1. OnceInv => TemporaryOnly
  BY DEF OnceInv, Owner, TemporaryOnly
<1> QED
  BY <1>1, OnceInvariant, PTL

\* A caller left alone reads what its own program ended with.
THEOREM OwnExitCode == Safety => ExactWhenAlone
<1> DEFINE Exact ==
      \A c \in Clients :
        alone[c] /\ mine[c] # None /\ pc[c] \in {"code", "read"} /\ pc'[c] \notin {"code", "read"}
          => pc[c] = "read" /\ run = mine[c] /\ image = c
<1>1. ASSUME OnceInv, [Next]_vars PROVE [Exact]_vars
  <2>1. SUFFICES ASSUME NEW c \in Clients, alone[c], mine[c] # None, pc[c] \in {"code", "read"},
                        pc'[c] \notin {"code", "read"}
                 PROVE  pc[c] = "read" /\ run = mine[c] /\ image = c
    OBVIOUS
  <2>2. record = "present" /\ run = mine[c] /\ image = c
    BY <1>1, <2>1, LabelKinds DEF OnceInv, Undisturbed
  <2>3. pc[c] # "code"
    <3>1. SUFFICES ASSUME pc[c] = "code" PROVE FALSE
      OBVIOUS
    <3>2. pc' # pc
      BY <2>1, <3>1
    <3>3. PICK d \in Clients : Call(d) \/ Step(d)
      BY <1>1, <3>2 DEF Next, vars, Process, OutsiderStarts, OutsiderDisables, caller
    <3>4. \E label : pc' = [pc EXCEPT ![d] = label]
      BY <3>3 DEF Call, Step, After, Poll, ServiceDelete, Open, Close, Goto, SetupCreate,
         SetupChange, Enable, StartService, QueryPid, Terminate, Delete
    <3>5. d = c
      BY <1>1, <2>1, <3>1, <3>4 DEF OnceInv, TypeOK
    <3>6. Open(c, "code", "read", "delete")
      BY <3>1, <3>3, <3>5 DEF Call, Step, After, Poll, ServiceDelete, Open, Close, SetupCreate,
         SetupChange, Enable, StartService, QueryPid, Terminate, Delete
    <3>7. pc'[c] = "read"
      BY <1>1, <2>2, <3>6 DEF Open, Goto, OnceInv, TypeOK
    <3> QED
      BY <2>1, <3>7
  <2> QED
    BY <2>1, <2>2, <2>3
<1> QED
  BY <1>1, OnceInvariant, PTL DEF Safety, ExactWhenAlone
=============================================================================
