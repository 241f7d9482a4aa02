-------------------------- MODULE LibraryLoader ---------------------------
(***************************************************************************)
(* LibraryLoader.java: every process copies the native library from its    *)
(* resources to a file of its own in the temporary directory, which all    *)
(* processes share, after deleting whatever copies it finds there.  A copy *)
(* that some process has loaded cannot be deleted (Windows), which is what *)
(* keeps the others from losing theirs; a copy not loaded yet can.         *)
(***************************************************************************)
EXTENDS Naturals

CONSTANTS
  Procs,        \* places for processes: one at a time runs in each
  Workers,      \* threads of a process that call load()
  MaxAttempts   \* bound on the copies made by the processes of one place

Threads == Procs \X Workers
Files == Procs \X Nat     \* createTempFile never repeats a name
NoFile == <<>>
Free == <<>>

ASSUME LoaderAssumption == MaxAttempts \in Nat

VARIABLES
  temp,         \* the copies that exist in the temporary directory
  whole,        \* the copies whose content is complete
  attempts,     \* the number of names made up by the processes of a place
  initialized,  \* LibraryLoader.initialized
  tempDllFile,  \* LibraryLoader.tempDllFile
  loaded,       \* the copy the process has mapped
  monitor,      \* the thread inside the synchronized load()
  pc,           \* where each thread is in it
  victims,      \* the files a thread still has to delete
  seen          \* history: copies that another process's listing has found

vars == <<temp, whole, attempts, initialized, tempDllFile, loaded, monitor, pc,
          victims, seen>>

Proc(t) == t[1]
Mapped == {loaded[p] : p \in Procs}

Init ==
  /\ temp = {} /\ whole = {} /\ seen = {}
  /\ attempts = [p \in Procs |-> 0]
  /\ initialized = [p \in Procs |-> FALSE]
  /\ tempDllFile = [p \in Procs |-> NoFile]
  /\ loaded = [p \in Procs |-> NoFile]
  /\ monitor = [p \in Procs |-> Free]
  /\ pc = [t \in Threads |-> "idle"]
  /\ victims = [t \in Threads |-> {}]
---------------------------------------------------------------------------
Goto(t, label) == pc' = [pc EXCEPT ![t] = label]

\* The call returns or throws, and leaves the monitor.
Leave(t) ==
  /\ Goto(t, "idle")
  /\ monitor' = [monitor EXCEPT ![Proc(t)] = Free]

Busy(p) == {t \in Threads : Proc(t) = p /\ pc[t] # "idle"}

\* The guard on attempts is the bound: no more calls than names are left for.
Call(t) ==
  /\ pc[t] = "idle"
  /\ initialized[Proc(t)] \/ (Busy(Proc(t)) = {} /\ attempts[Proc(t)] < MaxAttempts)
                          \/ attempts[Proc(t)] + 1 < MaxAttempts
  /\ Goto(t, "call")
  /\ UNCHANGED <<temp, whole, attempts, initialized, tempDllFile, loaded, monitor,
                 victims, seen>>

\* Variant: load() is not synchronized (for LoadedOnce).
MutEnter(t) ==
  /\ pc[t] = "call"
  /\ Goto(t, IF initialized[Proc(t)] THEN "idle" ELSE "list")
  /\ UNCHANGED <<temp, whole, attempts, initialized, tempDllFile, loaded, monitor,
                 victims, seen>>

\* synchronized; a library that is loaded already is left alone (33).
Enter(t) ==
  /\ pc[t] = "call" /\ monitor[Proc(t)] = Free
  /\ IF initialized[Proc(t)]
     THEN Goto(t, "idle") /\ UNCHANGED monitor
     ELSE Goto(t, "list") /\ monitor' = [monitor EXCEPT ![Proc(t)] = t]
  /\ UNCHANGED <<temp, whole, attempts, initialized, tempDllFile, loaded, victims, seen>>

\* dir.listFiles: the copies there are at this moment.
List(t) ==
  /\ pc[t] = "list"
  /\ victims' = [victims EXCEPT ![t] = temp]
  /\ seen' = seen \cup {f \in temp : f[1] # Proc(t)}
  /\ Goto(t, "delete")
  /\ UNCHANGED <<temp, whole, attempts, initialized, tempDllFile, loaded, monitor>>

\* Variant: the directory is read again at each deletion (for LostToAnother).
MutDelete(t) ==
  /\ pc[t] = "delete"
  /\ \E f \in temp :
       /\ temp' = IF f \in Mapped THEN temp ELSE temp \ {f}
       /\ victims' = [victims EXCEPT ![t] = @ \ {f}]
  /\ UNCHANGED <<whole, attempts, initialized, tempDllFile, loaded, monitor, pc, seen>>

\* file.delete fails, silently, for a copy that some process has mapped.
Delete(t) ==
  /\ pc[t] = "delete"
  /\ \E f \in victims[t] :
       /\ temp' = IF f \in Mapped THEN temp ELSE temp \ {f}
       /\ victims' = [victims EXCEPT ![t] = @ \ {f}]
  /\ UNCHANGED <<whole, attempts, initialized, tempDllFile, loaded, monitor, pc, seen>>

\* Variant: the mask matches no copy, nothing is deleted (for OneCopyEach).
MutCreate(t) ==
  /\ pc[t] = "delete"
  /\ LET p == Proc(t)
         f == <<p, attempts[p] + 1>>
     IN  /\ attempts' = [attempts EXCEPT ![p] = @ + 1]
         /\ tempDllFile' = [tempDllFile EXCEPT ![p] = f]
         /\ temp' = temp \cup {f}
  /\ Goto(t, "copy") /\ victims' = [victims EXCEPT ![t] = {}]
  /\ UNCHANGED <<whole, initialized, loaded, monitor, seen>>

\* File.createTempFile: a fresh name, an empty file; deleteOnExit.
Create(t) ==
  /\ pc[t] = "delete" /\ victims[t] = {}
  /\ LET p == Proc(t)
         f == <<p, attempts[p] + 1>>
     IN  /\ attempts' = [attempts EXCEPT ![p] = @ + 1]
         /\ tempDllFile' = [tempDllFile EXCEPT ![p] = f]
         /\ temp' = temp \cup {f}
  /\ Goto(t, "copy")
  /\ UNCHANGED <<whole, initialized, loaded, monitor, victims, seen>>

\* Files.copy with REPLACE_EXISTING deletes the file and creates it anew.
Copy(t) ==
  /\ pc[t] = "copy"
  /\ temp' = temp \cup {tempDllFile[Proc(t)]}
  /\ Goto(t, "write")
  /\ UNCHANGED <<whole, attempts, initialized, tempDllFile, loaded, monitor, victims, seen>>

\* What is written to a copy deleted meanwhile goes nowhere.
Write(t) ==
  /\ pc[t] = "write"
  /\ whole' = whole \cup ({tempDllFile[Proc(t)]} \cap temp)
  /\ Goto(t, "load")
  /\ UNCHANGED <<temp, attempts, initialized, tempDllFile, loaded, monitor, victims, seen>>

\* An IOException, or a resource that is missing.
CopyFails(t) ==
  /\ pc[t] \in {"copy", "write"} \/ (pc[t] = "delete" /\ victims[t] = {})
  /\ Leave(t)
  /\ UNCHANGED <<temp, whole, attempts, initialized, tempDllFile, loaded, victims, seen>>

Loadable(t) == tempDllFile[Proc(t)] \in temp \cap whole

\* Variant: the error of System.load is swallowed (for TypeOK).
MutLoad(t) ==
  /\ pc[t] = "load"
  /\ loaded' = [loaded EXCEPT ![Proc(t)] = tempDllFile[Proc(t)]]
  /\ initialized' = [initialized EXCEPT ![Proc(t)] = TRUE]
  /\ Leave(t)
  /\ UNCHANGED <<temp, whole, attempts, tempDllFile, victims, seen>>

\* System.load, and initialized = true.
Load(t) ==
  /\ pc[t] = "load" /\ Loadable(t)
  /\ loaded' = [loaded EXCEPT ![Proc(t)] = tempDllFile[Proc(t)]]
  /\ initialized' = [initialized EXCEPT ![Proc(t)] = TRUE]
  /\ Leave(t)
  /\ UNCHANGED <<temp, whole, attempts, tempDllFile, victims, seen>>

\* Variant: the loader tries the same copy again (for LoadReturns).
MutLoadFails(t) == pc[t] = "load" /\ ~Loadable(t) /\ UNCHANGED vars

\* UnsatisfiedLinkError: the caller may try again.
LoadFails(t) ==
  /\ pc[t] = "load" /\ ~Loadable(t)
  /\ Leave(t)
  /\ UNCHANGED <<temp, whole, attempts, initialized, tempDllFile, loaded, victims, seen>>
---------------------------------------------------------------------------
\* The process is gone; another one may start in its place.
Gone(p) ==
  /\ initialized' = [initialized EXCEPT ![p] = FALSE]
  /\ tempDllFile' = [tempDllFile EXCEPT ![p] = NoFile]
  /\ loaded' = [loaded EXCEPT ![p] = NoFile]
  /\ monitor' = [monitor EXCEPT ![p] = Free]
  /\ pc' = [t \in Threads |-> IF Proc(t) = p THEN "idle" ELSE pc[t]]
  /\ victims' = [t \in Threads |-> IF Proc(t) = p THEN {} ELSE victims[t]]
  /\ UNCHANGED <<whole, attempts, seen>>

\* deleteOnExit runs while the library is still mapped: a copy that was loaded
\* stays, one that was not goes.
Exit(p) ==
  /\ temp' = IF tempDllFile[p] \in Mapped THEN temp ELSE temp \ {tempDllFile[p]}
  /\ Gone(p)

Crash(p) == UNCHANGED temp /\ Gone(p)
---------------------------------------------------------------------------
Step(t) ==
  \/ List(t) \/ Delete(t) \/ Create(t) \/ Copy(t) \/ Write(t) \/ Load(t) \/ LoadFails(t)

Next ==
  \/ \E t \in Threads : Call(t) \/ Enter(t) \/ Step(t) \/ CopyFails(t)
  \/ \E p \in Procs : Exit(p) \/ Crash(p)

\* Threads run, and a monitor that is free again and again is obtained.
Fairness == \A t \in Threads : WF_vars(Step(t)) /\ SF_vars(Enter(t))

Safety == Init /\ [][Next]_vars
Spec == Safety /\ Fairness
---------------------------------------------------------------------------
Labels == {"idle", "call", "list", "delete", "copy", "write", "load"}

\* Type correctness; what is mapped is a whole copy that still exists.
TypeOK ==
  /\ temp \subseteq Files /\ whole \subseteq Files /\ seen \subseteq Files
  /\ attempts \in [Procs -> Nat]
  /\ initialized \in [Procs -> BOOLEAN]
  /\ tempDllFile \in [Procs -> Files \cup {NoFile}]
  /\ loaded \in [Procs -> Files \cup {NoFile}]
  /\ \A p \in Procs : loaded[p] \in (temp \cap whole) \cup {NoFile}
  /\ monitor \in [Procs -> Threads \cup {Free}]
  /\ pc \in [Threads -> Labels]
  /\ victims \in [Threads -> SUBSET Files]

\* However many processes have come and gone, crashed or failed to load, the
\* temporary directory holds at most one copy for each that runs at a time:
\* what a predecessor left behind is deleted before a new copy is made (47-49).
OneCopyEach == \A f, g \in temp : f[1] = g[1] => f = g

\* A process loads the library once, whichever of its threads ask for it, and
\* keeps the copy it has loaded until it ends (29-41).
LoadedOnce ==
  [][\A p \in Procs : loaded[p] # NoFile =>
       loaded'[p] = loaded[p] \/ (\A t \in Threads : Proc(t) = p => pc'[t] = "idle")]_vars

\* A copy that was written completely cannot fail to load unless the cleaning
\* of another process listed it meanwhile: never because of a list made before
\* the copy was, of a second thread, or of what an earlier process left.
LostToAnother ==
  [][\A t \in Threads :
       pc[t] = "load" /\ pc'[t] = "idle" /\ ~Loadable(t) /\ tempDllFile'[Proc(t)] # NoFile
         => tempDllFile[Proc(t)] \in seen]_vars

\* Every call of load() returns or throws, also the ones that wait for another
\* thread's and the ones that lose their copy.
LoadReturns == \A t \in Threads : pc[t] # "idle" ~> pc[t] = "idle"
=============================================================================
