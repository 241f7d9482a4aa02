------------------------- MODULE HandlerCallbacks -------------------------
(***************************************************************************)
(* Java handlers behind ServiceEntry: CallbackJNI.hpp and the JNI entry    *)
(* points of ServiceEntry.  A VoidCallbackJni owns a global reference to   *)
(* the handler; it is moved from a temporary into a std::bind object and   *)
(* from there into the std::function of ServiceEntry that the handlers'    *)
(* threads call.  Calls and destructors enter the JVM through an           *)
(* EnvironmentGuard, which attaches a thread the JVM does not know.        *)
(***************************************************************************)
EXTENDS Naturals

CONSTANTS
  NativeThreads,   \* threads CreateThread makes to run the event handlers
  Codes,           \* native codes, handled on the dispatcher thread
  MaxRefs          \* bound on the handlers registered

Main == "main"     \* the Java thread that registers, dispatches and closes
Threads == NativeThreads \cup {Main}
Events == {"STARTING", "STOPPING"}
Slots == Events \cup Codes

ASSUME CallbackAssumption ==
  MaxRefs \in Nat /\ Main \notin NativeThreads /\ Events \cap Codes = {}

\* The objects a VoidCallbackJni may live in.
Slot(s) == <<"slot", s>>
Temp(t) == <<"temp", t>>
Bind(t) == <<"bind", t>>
Places == {Slot(s) : s \in Slots} \cup {Temp(t) : t \in Threads} \cup {Bind(t) : t \in Threads}
NoRef == 0

VARIABLES
  live,      \* the global references the JVM holds for servicelib
  made,      \* how many have been made
  held,      \* jGlobalHandler in each place
  target,    \* the slot a thread registers a handler for
  pc,        \* where each thread is
  running,   \* the slot whose handler it calls
  guard,     \* did the EnvironmentGuard of that call attach the thread?
  attached,  \* the threads the JVM knows
  pending,   \* threads with a pending Java exception
  phase      \* of the entry

ownership == <<live, made, held, target>>
jvm == <<running, guard, attached, pending>>
vars == <<live, made, held, target, pc, running, guard, attached, pending, phase>>

Init ==
  /\ live = {} /\ made = 0 /\ held = [p \in Places |-> NoRef]
  /\ target = [t \in Threads |-> "STARTING"]
  /\ running = [t \in Threads |-> "STARTING"]
  /\ pc = [t \in Threads |-> "out"] /\ guard = [t \in Threads |-> FALSE]
  /\ attached = {Main} /\ pending = {} /\ phase = "new"

Goto(t, label) == pc' = [pc EXCEPT ![t] = label]
---------------------------------------------------------------------------
(* Registering a handler, from Java code: on the main thread before         *)
(* execute, on any thread inside a handler.                                 *)

Registering(t, s) == pc[t] \in {"temp", "bind", "store"} /\ target[t] = s

\* The application's part: a handler is not replaced by one thread while
\* another is about to call it or replaces it too.
Replaceable(t, s) ==
  \A u \in Threads \ {t} : ~Registering(u, s) /\ ~(pc[u] = "guarded" /\ running[u] = s)

\* Lines 68-82: a temporary with a new global reference.
Construct(t, s) ==
  /\ pc[t] = "java" \/ (t = Main /\ pc[t] = "out" /\ phase = "new")
  /\ Replaceable(t, s) /\ made < MaxRefs
  /\ made' = made + 1 /\ live' = live \cup {made + 1}
  /\ held' = [held EXCEPT ![Temp(t)] = made + 1]
  /\ target' = [target EXCEPT ![t] = s]
  /\ Goto(t, "temp")
  /\ UNCHANGED <<jvm, phase>>

\* Variant: the source of a move is not Reset (for OneOwner).
MutMove(from, to) ==
  /\ live' = live \ {held[to]}
  /\ held' = [held EXCEPT ![to] = held[from]]

\* Move construction and assignment: what was there is cleared, and the source
\* is Reset.  (The guard inside Clear finds the thread, which runs Java code,
\* attached and leaves it so.)
Move(from, to) ==
  /\ live' = live \ {held[to]}
  /\ held' = [held EXCEPT ![to] = held[from], ![from] = NoRef]

MoveToBind(t) ==
  /\ pc[t] = "temp"
  /\ Move(Temp(t), Bind(t))
  /\ Goto(t, "bind")
  /\ UNCHANGED <<made, target, jvm, phase>>

\* Variant: no break after STARTING: the handler, moved from, is assigned to
\* STOPPING as well and clears it (for CallIsLive).
MutStore(t) ==
  /\ pc[t] = "bind"
  /\ LET cleared == {Slot(target[t])} \cup
                      (IF target[t] = "STARTING" THEN {Slot("STOPPING")} ELSE {})
     IN  /\ live' = live \ {held[p] : p \in cleared}
         /\ held' = [p \in Places |-> IF p = Slot(target[t]) THEN held[Bind(t)]
                                      ELSE IF p \in cleared \cup {Bind(t)} THEN NoRef
                                      ELSE held[p]]
  /\ Goto(t, "store")
  /\ UNCHANGED <<made, target, jvm, phase>>

\* ServiceEntry::RegisterEventHandler.
Store(t) ==
  /\ pc[t] = "bind"
  /\ Move(Bind(t), Slot(target[t]))
  /\ Goto(t, "store")
  /\ UNCHANGED <<made, target, jvm, phase>>

\* The temporary and the bind object are destroyed.
Registered(t) ==
  /\ pc[t] = "store"
  /\ live' = live \ {held[Temp(t)], held[Bind(t)]}
  /\ held' = [held EXCEPT ![Temp(t)] = NoRef, ![Bind(t)] = NoRef]
  /\ Goto(t, IF phase = "new" THEN "out" ELSE "java")
  /\ UNCHANGED <<made, target, jvm, phase>>
---------------------------------------------------------------------------
(* Calling a handler.                                                       *)

Execute ==
  /\ phase = "new" /\ pc[Main] = "out"
  /\ phase' = "executing"
  /\ UNCHANGED <<ownership, pc, jvm>>

\* Variant: a thread GetEnv does not know is not attached (for TypeOK).
MutAttach(t) == UNCHANGED <<attached, guard>>

\* EnvironmentGuard: GetEnv, or AttachCurrentThread.
Attach(t) ==
  /\ attached' = attached \cup {t}
  /\ guard' = [guard EXCEPT ![t] = t \notin attached]

\* RunPrepareFunc on a thread of its own or ServiceHandler on the dispatcher's:
\* a function that is set is called.  (When AttachCurrentThread fails, the
\* handler is skipped and nothing changes.)
Enter(t, s) ==
  /\ phase = "executing" /\ pc[t] = "out"
  /\ (s \in Codes) = (t = Main)
  /\ held[Slot(s)] # NoRef
  /\ \A u \in Threads : ~Registering(u, s)
  /\ Attach(t)
  /\ running' = [running EXCEPT ![t] = s]
  /\ Goto(t, "guarded")
  /\ UNCHANGED <<ownership, pending, phase>>

\* CallVoidMethod.  With the exception of an earlier handler pending the call
\* is undefined: it is made and the exception forgotten, or it is skipped.
Invoke(t) ==
  /\ pc[t] = "guarded"
  /\ \/ Goto(t, "java") /\ pending' = pending \ {t}
     \/ t \in pending /\ Goto(t, "leave") /\ UNCHANGED pending
  /\ UNCHANGED <<ownership, running, guard, attached, phase>>

\* The handler returns or throws; nothing looks at the exception.
HandlerReturns(t) ==
  /\ pc[t] = "java"
  /\ Goto(t, "leave")
  /\ pending' \in {pending, pending \cup {t}}
  /\ UNCHANGED <<ownership, running, guard, attached, phase>>

\* Variant: the guard never detaches (for Attached).
MutLeave(t) ==
  /\ pc[t] = "leave"
  /\ Goto(t, "out")
  /\ guard' = [guard EXCEPT ![t] = FALSE]
  /\ UNCHANGED <<ownership, running, attached, pending, phase>>

\* ~EnvironmentGuard; a pending exception ends with the thread's attachment.
Leave(t) ==
  /\ pc[t] = "leave"
  /\ Goto(t, "out")
  /\ guard' = [guard EXCEPT ![t] = FALSE]
  /\ IF guard[t] THEN attached' = attached \ {t} /\ pending' = pending \ {t}
                 ELSE UNCHANGED <<attached, pending>>
  /\ UNCHANGED <<ownership, running, phase>>
---------------------------------------------------------------------------
\* The dispatcher call returns, when no handler is at work (see StoppedIsFinal
\* of ServiceEntry), to Java code, which sees what is pending.
Executed ==
  /\ phase = "executing" /\ \A t \in Threads : pc[t] = "out"
  /\ phase' = "executed" /\ pending' = {}
  /\ UNCHANGED <<ownership, pc, running, guard, attached>>

\* ServiceEntry.close destroys the entry and its handlers.
Close ==
  /\ phase \in {"new", "executed"} /\ pc[Main] = "out"
  /\ phase' = "closed"
  /\ live' = live \ {held[Slot(s)] : s \in Slots}
  /\ held' = [p \in Places |-> IF p \in {Slot(s) : s \in Slots} THEN NoRef ELSE held[p]]
  /\ UNCHANGED <<made, target, pc, jvm>>

\* The process ends.
Closed == phase = "closed" /\ UNCHANGED vars
---------------------------------------------------------------------------
Next ==
  \/ Execute \/ Executed \/ Close \/ Closed
  \/ \E t \in Threads :
       \/ \E s \in Slots : Construct(t, s) \/ Enter(t, s)
       \/ MoveToBind(t) \/ Store(t) \/ Registered(t)
       \/ Invoke(t) \/ HandlerReturns(t) \/ Leave(t)

Safety == Init /\ [][Next]_vars
---------------------------------------------------------------------------
Labels == {"out", "temp", "bind", "store", "guarded", "java", "leave"}

\* Type correctness; only attached threads have a pending exception.
TypeOK ==
  /\ made \in Nat /\ live \subseteq 1..made
  /\ held \in [Places -> 0..made]
  /\ target \in [Threads -> Slots] /\ running \in [Threads -> Slots]
  /\ pc \in [Threads -> Labels] /\ guard \in [Threads -> BOOLEAN]
  /\ attached \subseteq Threads /\ pending \subseteq attached
  /\ phase \in {"new", "executing", "executed", "closed"}

\* Every global reference has exactly one owner, however often handlers are
\* moved and replaced, also from inside a handler: none is deleted twice, used
\* after it was deleted, or left over when the entry is closed (66-127).
OneOwner ==
  /\ \A p, q \in Places : held[p] = held[q] /\ held[p] # NoRef => p = q
  /\ live = {held[p] : p \in Places} \ {NoRef}
  /\ phase = "closed" => live = {}

\* A thread that is about to call a handler finds a reference to it, though
\* running handlers replace their own and other threads register for other
\* events (CallbackJNI.hpp:131, ServiceEntryWin.cpp 72-87).
CallIsLive ==
  \A t \in Threads : pc[t] = "guarded" => held[Slot(running[t])] \in live

\* The JVM knows a handler's thread exactly as long as it is inside the call,
\* and never loses the main thread, which calls handlers too (CallbackJNI.hpp
\* 19-46).
Attached == attached = {Main} \cup {t \in Threads : pc[t] # "out"}
=============================================================================
