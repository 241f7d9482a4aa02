----------------------- MODULE LibraryLoaderProofs ------------------------
(***************************************************************************)
(* The safety of LibraryLoader for any number of processes, threads and    *)
(* attempts.                                                               *)
(***************************************************************************)
EXTENDS LibraryLoader, TLAPS

Inside == {"list", "delete", "copy", "write", "load"}

\* The synchronized part is the monitor owner's, and is for an initialized
\* process over.
MonitorInv ==
  \A t \in Threads : pc[t] \in Inside => monitor[Proc(t)] = t /\ ~initialized[Proc(t)]

\* A process names and maps files of its own only.
OwnInv ==
  \A p \in Procs :
    /\ loaded[p] \in Files => loaded[p][1] = p /\ initialized[p]
    /\ tempDllFile[p] \in Files => tempDllFile[p][1] = p

\* What a cleaning has still to delete includes all earlier copies of its own
\* process; afterwards there is none but the new one.
CleanInv ==
  \A t \in Threads :
    /\ pc[t] = "delete" => \A f \in temp : f[1] = Proc(t) => f \in victims[t]
    /\ pc[t] \in {"copy", "write", "load"} =>
         /\ tempDllFile[Proc(t)] \in Files
         /\ \A f \in temp : f[1] = Proc(t) => f = tempDllFile[Proc(t)]

LoaderInv == TypeOK /\ MonitorInv /\ OwnInv /\ CleanInv /\ OneCopyEach

\* A file name is a pair, and no file is not.
LEMMA Names ==
  /\ NoFile \notin Files /\ Free \notin Threads
  /\ \A t \in Threads : Proc(t) \in Procs
  /\ \A f \in Files : f[1] \in Procs
  /\ \A p \in Procs, n \in Nat : <<p, n>> \in Files /\ <<p, n>>[1] = p
BY DEF NoFile, Free, Files, Threads, Proc

\* The invariant holds initially.
LEMMA LoaderInit == Init => LoaderInv
BY Names DEF Init, LoaderInv, TypeOK, MonitorInv, OwnInv, CleanInv, OneCopyEach, Labels,
   Inside, Free

\* The invariant is preserved by every step.
LEMMA LoaderStep == LoaderInv /\ [Next]_vars => LoaderInv'
<1> SUFFICES ASSUME LoaderInv, [Next]_vars PROVE LoaderInv'
  OBVIOUS
<1> USE Names DEF LoaderInv, TypeOK, Labels, Inside
<1>1. ASSUME NEW t \in Threads, Call(t) PROVE LoaderInv'
  BY <1>1 DEF Call, Goto, MonitorInv, OwnInv, CleanInv, OneCopyEach
<1>2. ASSUME NEW t \in Threads, Enter(t) PROVE LoaderInv'
  <2>1. CASE initialized[Proc(t)]
    BY <1>2, <2>1 DEF Enter, Goto, MonitorInv, OwnInv, CleanInv, OneCopyEach
  <2>2. CASE ~initialized[Proc(t)]
    <3>1. \A u \in Threads : Proc(u) = Proc(t) => pc[u] \notin Inside
      BY <1>2 DEF Enter, MonitorInv
    <3>2. TypeOK' /\ OwnInv' /\ OneCopyEach'
      BY <1>2, <2>2 DEF Enter, Goto, OwnInv, OneCopyEach
    <3>3. MonitorInv'
      BY <1>2, <2>2, <3>1 DEF Enter, Goto, MonitorInv
    <3>4. CleanInv'
      BY <1>2, <2>2 DEF Enter, Goto, CleanInv
    <3> QED
      BY <3>2, <3>3, <3>4
  <2> QED
    BY <2>1, <2>2
<1>3. ASSUME NEW t \in Threads, List(t) PROVE LoaderInv'
  BY <1>3 DEF List, Goto, MonitorInv, OwnInv, CleanInv, OneCopyEach
<1>4. ASSUME NEW t \in Threads, Delete(t) PROVE LoaderInv'
  BY <1>4 DEF Delete, MonitorInv, OwnInv, CleanInv, OneCopyEach, Mapped
<1>5. ASSUME NEW t \in Threads, Create(t) PROVE LoaderInv'
  BY <1>5 DEF Create, Goto, MonitorInv, OwnInv, CleanInv, OneCopyEach
<1>6. ASSUME NEW t \in Threads, Copy(t) PROVE LoaderInv'
  BY <1>6 DEF Copy, Goto, MonitorInv, OwnInv, CleanInv, OneCopyEach
<1>7. ASSUME NEW t \in Threads, Write(t) PROVE LoaderInv'
  BY <1>7 DEF Write, Goto, MonitorInv, OwnInv, CleanInv, OneCopyEach
<1>8. ASSUME NEW t \in Threads, CopyFails(t) \/ LoadFails(t) PROVE LoaderInv'
  BY <1>8 DEF CopyFails, LoadFails, Leave, Goto, MonitorInv, OwnInv, CleanInv, OneCopyEach
<1>9. ASSUME NEW t \in Threads, Load(t) PROVE LoaderInv'
  BY <1>9 DEF Load, Loadable, Leave, Goto, MonitorInv, OwnInv, CleanInv, OneCopyEach
<1>10. ASSUME NEW p \in Procs, Exit(p) \/ Crash(p) PROVE LoaderInv'
  <2>1. /\ temp' \subseteq temp
        /\ \A q \in Procs : q # p /\ loaded[q] \in temp => loaded[q] \in temp'
    BY <1>10 DEF Exit, Crash, Mapped
  <2>2. \A t \in Threads : pc'[t] \in Inside => Proc(t) # p /\ pc'[t] = pc[t]
    BY <1>10 DEF Exit, Crash, Gone
  <2>7. UNCHANGED <<whole, attempts, seen>> /\ temp' \subseteq Files
    BY <1>10, <2>1 DEF Exit, Crash, Gone
  <2>8. /\ loaded' = [loaded EXCEPT ![p] = NoFile]
        /\ tempDllFile' = [tempDllFile EXCEPT ![p] = NoFile]
        /\ initialized' = [initialized EXCEPT ![p] = FALSE]
        /\ monitor' = [monitor EXCEPT ![p] = Free]
    BY <1>10 DEF Exit, Crash, Gone
  <2>9. \A q \in Procs : loaded'[q] \in (temp' \cap whole') \cup {NoFile}
    BY <2>1, <2>7, <2>8
  <2>10. pc' \in [Threads -> Labels] /\ victims' \in [Threads -> SUBSET Files]
    BY <1>10 DEF Exit, Crash, Gone
  <2>3. TypeOK'
    BY <2>7, <2>8, <2>9, <2>10
  <2>4. MonitorInv'
    BY <1>10, <2>2 DEF Exit, Crash, Gone, MonitorInv
  <2>5. OwnInv' /\ OneCopyEach'
    BY <1>10, <2>1 DEF Exit, Crash, Gone, OwnInv, OneCopyEach
  <2>6. CleanInv'
    BY <1>10, <2>1, <2>2 DEF Exit, Crash, Gone, CleanInv
  <2> QED
    BY <2>3, <2>4, <2>5, <2>6
<1>11. CASE UNCHANGED vars
  BY <1>11 DEF vars, MonitorInv, OwnInv, CleanInv, OneCopyEach
<1> QED
  BY <1>1, <1>2, <1>3, <1>4, <1>5, <1>6, <1>7, <1>8, <1>9, <1>10, <1>11 DEF Next, Step

\* The invariant holds in every reachable state.
LEMMA LoaderInvariant == Safety => []LoaderInv
BY LoaderInit, LoaderStep, PTL DEF Safety

\* Types, and what is mapped is a whole copy that still exists, for any number
\* of processes.
THEOREM LoaderTypes == Safety => []TypeOK
<1>1. LoaderInv => TypeOK
  BY DEF LoaderInv
<1> QED
  BY <1>1, LoaderInvariant, PTL

\* Copies do not pile up: one for each process that runs at a time, however
\* many processes, threads, failures and crashes there are.
THEOREM CopiesBounded == Safety => []OneCopyEach
<1>1. LoaderInv => OneCopyEach
  BY DEF LoaderInv
<1> QED
  BY <1>1, LoaderInvariant, PTL

\* A process keeps the copy it has loaded until it ends, for any number of
\* threads that call load().
THEOREM LoadedForGood == Safety => LoadedOnce
<1> DEFINE A == \A p \in Procs : loaded[p] # NoFile =>
       loaded'[p] = loaded[p] \/ (\A t \in Threads : Proc(t) = p => pc'[t] = "idle")
<1>1. ASSUME LoaderInv, [Next]_vars PROVE A
  <2> SUFFICES ASSUME NEW p \in Procs, loaded[p] # NoFile, loaded'[p] # loaded[p]
               PROVE  \A t \in Threads : Proc(t) = p => pc'[t] = "idle"
    OBVIOUS
  <2>1. initialized[p] /\ \A t \in Threads : Proc(t) = p => pc[t] # "load"
    BY <1>1 DEF LoaderInv, TypeOK, OwnInv, MonitorInv, Inside
  <2>2. ~\E t \in Threads : Load(t)
    BY <2>1, <1>1 DEF Load, LoaderInv, TypeOK
  <2>3. PICK q \in Procs : Gone(q)
    BY <1>1, <2>2 DEF Next, Step, vars, Call, Enter, List, Delete, Create, Copy, Write,
       LoadFails, CopyFails, Exit, Crash
  <2> QED
    BY <2>3, <1>1 DEF Gone, LoaderInv, TypeOK
<1> QED
  BY <1>1, LoaderInvariant, PTL DEF Safety, LoadedOnce

\* What another process may delete it has listed; a copy that is missing while
\* it is written or about to be loaded was listed, one that is there is whole.
SeenInv ==
  \A t \in Threads :
    /\ \A f \in victims[t] : f[1] # Proc(t) => f \in seen
    /\ pc[t] \in {"write", "load"} =>
         tempDllFile[Proc(t)] \in temp \/ tempDllFile[Proc(t)] \in seen
    /\ pc[t] = "load" /\ tempDllFile[Proc(t)] \in temp => tempDllFile[Proc(t)] \in whole

\* Who has listed what is preserved by every step.
LEMMA SeenStep == LoaderInv /\ SeenInv /\ [Next]_vars => SeenInv'
<1> SUFFICES ASSUME LoaderInv, SeenInv, [Next]_vars PROVE SeenInv'
  OBVIOUS
<1> USE Names DEF LoaderInv, TypeOK, Labels, SeenInv
<1>m. \A t, u \in Threads :
        Proc(t) = Proc(u) /\ pc[t] \in Inside /\ pc[u] \in Inside => t = u
  BY DEF MonitorInv
<1>1. ASSUME NEW t \in Threads, Call(t) \/ Enter(t) PROVE SeenInv'
  BY <1>1 DEF Call, Enter, Goto
<1>2. ASSUME NEW t \in Threads, List(t) PROVE SeenInv'
  BY <1>2 DEF List, Goto
<1>3. ASSUME NEW t \in Threads, Delete(t) PROVE SeenInv'
  <2>1. PICK f \in victims[t] : /\ temp' = IF f \in Mapped THEN temp ELSE temp \ {f}
                               /\ victims' = [victims EXCEPT ![t] = @ \ {f}]
    BY <1>3 DEF Delete
  <2>2. ASSUME NEW u \in Threads, pc[u] \in {"write", "load"},
               tempDllFile[Proc(u)] \notin temp'
        PROVE  tempDllFile[Proc(u)] \in seen
    <3>1. CASE tempDllFile[Proc(u)] \notin temp
      BY <2>2, <3>1
    <3>2. CASE tempDllFile[Proc(u)] \in temp
      <4>1. f = tempDllFile[Proc(u)] /\ f[1] = Proc(u)
        BY <2>1, <2>2, <3>2 DEF OwnInv
      <4>2. Proc(u) # Proc(t)
        BY <1>3, <2>2, <1>m DEF Delete, Inside
      <4> QED
        BY <2>1, <4>1, <4>2
    <3> QED
      BY <3>1, <3>2
  <2>3. UNCHANGED <<whole, seen, pc, tempDllFile>> /\ temp' \subseteq temp
    BY <1>3, <2>1 DEF Delete
  <2> QED
    BY <2>1, <2>2, <2>3
<1>4. ASSUME NEW t \in Threads, Create(t) PROVE SeenInv'
  <2>1. \A u \in Threads : pc'[u] \in {"write", "load"} =>
          Proc(u) # Proc(t) /\ pc[u] = pc'[u] /\ tempDllFile'[Proc(u)] = tempDllFile[Proc(u)]
    BY <1>4, <1>m DEF Create, Goto, Inside
  <2>2. UNCHANGED <<whole, seen, victims>> /\ temp \subseteq temp'
    BY <1>4 DEF Create
  <2>4. ASSUME NEW u \in Threads, Proc(u) # Proc(t), tempDllFile[Proc(u)] \in temp'
        PROVE  tempDllFile[Proc(u)] \in temp
    <3> DEFINE new == <<Proc(t), attempts[Proc(t)] + 1>>
    <3>1. new \in Files /\ new[1] = Proc(t) /\ NoFile # new
      OBVIOUS
    <3>2. tempDllFile[Proc(u)] # new
      BY <2>4, <3>1 DEF OwnInv
    <3> QED
      BY <1>4, <2>4, <3>2 DEF Create
  <2> QED
    BY <2>1, <2>2, <2>4
<1>5. ASSUME NEW t \in Threads, Copy(t) PROVE SeenInv'
  BY <1>5, <1>m DEF Copy, Goto, Inside, OwnInv
<1>6. ASSUME NEW t \in Threads, Write(t) PROVE SeenInv'
  BY <1>6, <1>m DEF Write, Goto
<1>7. ASSUME NEW t \in Threads, CopyFails(t) \/ LoadFails(t) \/ Load(t) PROVE SeenInv'
  BY <1>7 DEF CopyFails, LoadFails, Load, Leave, Goto
<1>8. ASSUME NEW p \in Procs, Exit(p) \/ Crash(p) PROVE SeenInv'
  BY <1>8 DEF Exit, Crash, Gone, OwnInv
<1>9. CASE UNCHANGED vars
  BY <1>9 DEF vars
<1> QED
  BY <1>1, <1>2, <1>3, <1>4, <1>5, <1>6, <1>7, <1>8, <1>9 DEF Next, Step

\* A load fails only when another process has listed the copy before it was
\* mapped, for any number of processes and threads.
THEOREM LossExplained == Safety => LostToAnother
<1> DEFINE A == \A t \in Threads :
       pc[t] = "load" /\ pc'[t] = "idle" /\ ~Loadable(t) /\ tempDllFile'[Proc(t)] # NoFile
         => tempDllFile[Proc(t)] \in seen
<1>1. SeenInv => A
  BY DEF SeenInv, Loadable
<1>2. Init => SeenInv
  BY DEF Init, SeenInv
<1> QED
  BY <1>1, <1>2, SeenStep, LoaderInvariant, PTL DEF Safety, LostToAnother
=============================================================================
