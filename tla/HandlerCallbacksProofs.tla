---------------------- MODULE HandlerCallbacksProofs ----------------------
(***************************************************************************)
(* Ownership of handlers and attachment of threads, for any set of native  *)
(* threads and codes and any number of registrations.                      *)
(***************************************************************************)
EXTENDS HandlerCallbacks, TLAPS

\* Outside the handlers there is at most the main thread's registration.
PhaseInv ==
  /\ phase \in {"executed", "closed"} => \A t \in Threads : pc[t] = "out"
  /\ phase = "new" => \A t \in NativeThreads : pc[t] = "out"

\* A guard detaches native threads and them only.
GuardInv == \A t \in Threads : guard[t] <=> t # Main /\ pc[t] # "out"

\* The temporaries of a registration hold something in one step each.
TempInv ==
  \A t \in Threads : /\ held[Temp(t)] # NoRef => pc[t] = "temp"
                     /\ held[Bind(t)] # NoRef => pc[t] = "bind"

\* A slot that is being registered is nobody else's.
SlotInv == \A t \in Threads, s \in Slots : Registering(t, s) => Replaceable(t, s)

CallbackInv ==
  /\ TypeOK /\ OneOwner /\ CallIsLive /\ Attached
  /\ PhaseInv /\ GuardInv /\ TempInv /\ SlotInv

\* The places are all different.
LEMMA PlaceNames ==
  /\ \A s \in Slots : Slot(s) \in Places
  /\ \A t \in Threads : Temp(t) \in Places /\ Bind(t) \in Places
  /\ \A s, r \in Slots : Slot(s) = Slot(r) => s = r
  /\ \A t, u \in Threads : (Temp(t) = Temp(u) \/ Bind(t) = Bind(u)) => t = u
  /\ \A s \in Slots, t \in Threads : Slot(s) # Temp(t) /\ Slot(s) # Bind(t)
  /\ \A t, u \in Threads : Temp(t) # Bind(u)
  /\ Main \in Threads /\ "STARTING" \in Slots /\ NoRef = 0
  /\ \A t \in Threads : t # Main => t \in NativeThreads
BY DEF Places, Slot, Temp, Bind, Threads, Slots, Events, NoRef

\* The invariant holds initially.
LEMMA CallbackInit == Init => CallbackInv
<1> SUFFICES ASSUME Init PROVE CallbackInv
  OBVIOUS
<1>1. TypeOK
  BY PlaceNames DEF Init, TypeOK, Labels
<1>2. OneOwner
  <2>1. \A p \in Places : held[p] = NoRef
    BY DEF Init
  <2>2. live = {} /\ phase = "new"
    BY DEF Init
  <2>3. \A p, q \in Places : held[p] = held[q] /\ held[p] # NoRef => p = q
    BY <2>1
  <2>4. {held[p] : p \in Places} \ {NoRef} = {}
    BY <2>1
  <2> QED
    BY <2>2, <2>3, <2>4 DEF OneOwner
<1>3. CallIsLive /\ PhaseInv /\ GuardInv /\ Attached
  BY PlaceNames DEF Init, CallIsLive, PhaseInv, GuardInv, Attached, Threads
<1>4. TempInv
  BY PlaceNames DEF Init, TempInv
<1>5. SlotInv
  BY DEF Init, SlotInv, Registering
<1> QED
  BY <1>1, <1>2, <1>3, <1>4, <1>5 DEF CallbackInv

\* A move, and the release of what one place holds.
LEMMA MoveTypes ==
  ASSUME TypeOK, NEW from \in Places, NEW to \in Places, Move(from, to)
  PROVE  live' \subseteq 1..made /\ held' \in [Places -> 0..made]
<1>1. held[from] \in 0..made /\ NoRef \in 0..made
  BY DEF TypeOK, NoRef
<1>2. held' \in [Places -> 0..made]
  BY <1>1 DEF TypeOK, Move
<1> QED
  BY <1>2 DEF TypeOK, Move

\* A move neither leaks a reference nor leaves it with two owners.
LEMMA MoveOwner ==
  ASSUME TypeOK, OneOwner, NEW from \in Places, NEW to \in Places, from # to, Move(from, to),
         phase # "closed", phase' = phase
  PROVE  OneOwner'
<1>1. \A p \in Places : held'[p] = (IF p = from THEN NoRef ELSE
                                    IF p = to THEN held[from] ELSE held[p])
  BY DEF TypeOK, Move
<1>2. \A p, q \in Places : held[p] = held[q] /\ held[p] # NoRef => p = q
  BY DEF OneOwner
<1>3. \A p, q \in Places : held'[p] = held'[q] /\ held'[p] # NoRef => p = q
  BY <1>1, <1>2
<1>4. \A r : r \in live <=> r # NoRef /\ \E p \in Places : held[p] = r
  BY DEF OneOwner
<1>5. live' = live \ {held[to]}
  BY DEF Move
<1>6. ASSUME NEW r, r \in live' PROVE r # NoRef /\ \E p \in Places : held'[p] = r
  <2>1. PICK p \in Places : held[p] = r /\ r # NoRef /\ p # to
    BY <1>4, <1>5, <1>6
  <2>2. CASE p = from
    BY <1>1, <2>1, <2>2
  <2>3. CASE p # from
    BY <1>1, <2>1, <2>3
  <2> QED
    BY <2>1, <2>2, <2>3
<1>7. ASSUME NEW p \in Places, held'[p] # NoRef PROVE held'[p] \in live'
  <2>1. CASE p = to
    <3>1. held'[p] = held[from] /\ held[from] # held[to]
      BY <1>1, <1>2, <1>7, <2>1
    <3> QED
      BY <1>4, <1>5, <1>7, <3>1
  <2>2. CASE p # to
    BY <1>1, <1>2, <1>4, <1>5, <1>7, <2>2
  <2> QED
    BY <2>1, <2>2
<1>8. live' = {held'[p] : p \in Places} \ {NoRef}
  BY <1>6, <1>7
<1> QED
  BY <1>3, <1>8 DEF OneOwner

\* Ownership is a matter of held, live and phase alone.
LEMMA SameOwner ==
  ASSUME OneOwner, held' = held, live' = live, phase' = phase
  PROVE  OneOwner'
BY DEF OneOwner

\* References keep their types.
LEMMA RefTypes ==
  CallbackInv /\ [Next]_vars =>
    made' \in Nat /\ live' \subseteq 1..made' /\ held' \in [Places -> 0..made']
<1> SUFFICES ASSUME CallbackInv, [Next]_vars
             PROVE  made' \in Nat /\ live' \subseteq 1..made' /\ held' \in [Places -> 0..made']
  OBVIOUS
<1> DEFINE P == made \in Nat /\ live \subseteq 1..made /\ held \in [Places -> 0..made]
<1>0. P /\ TypeOK
  BY DEF CallbackInv, TypeOK
<1>1. ASSUME NEW t \in Threads, NEW s \in Slots, Construct(t, s) PROVE P'
  <2>1. made' = made + 1 /\ live' = live \cup {made + 1}
    BY <1>1 DEF Construct
  <2>2. held' = [held EXCEPT ![Temp(t)] = made + 1]
    BY <1>1 DEF Construct
  <2>3. \A i \in 0..made : i \in 0..(made + 1)
    BY <1>0
  <2>4. made + 1 \in 0..(made + 1) /\ made + 1 \in Nat /\ made + 1 \in 1..(made + 1)
    BY <1>0
  <2>5. held' \in [Places -> 0..(made + 1)]
    BY <1>0, <2>2, <2>3, <2>4
  <2> QED
    BY <1>0, <2>1, <2>4, <2>5
<1>2. ASSUME NEW t \in Threads, MoveToBind(t) PROVE P'
  BY <1>0, <1>2, MoveTypes, PlaceNames DEF MoveToBind
<1>3. ASSUME NEW t \in Threads, Store(t) PROVE P'
  <2>1. target[t] \in Slots
    BY <1>0 DEF TypeOK
  <2> QED
    BY <1>0, <1>3, <2>1, MoveTypes, PlaceNames DEF Store
<1>4. ASSUME NEW t \in Threads, Registered(t) PROVE P'
  <2>1. live' \subseteq live /\ made' = made
    BY <1>4 DEF Registered
  <2>2. held' \in [Places -> 0..made]
    BY <1>0, <1>4, PlaceNames DEF Registered
  <2> QED
    BY <1>0, <2>1, <2>2
<1>5. CASE Close
  <2>1. live' \subseteq live /\ made' = made
    BY <1>5 DEF Close
  <2>2. held' \in [Places -> 0..made]
    BY <1>0, <1>5, PlaceNames DEF Close
  <2> QED
    BY <1>0, <2>1, <2>2
<1>6. CASE UNCHANGED ownership
  BY <1>0, <1>6 DEF ownership
<1>7. UNCHANGED ownership \/ Close
      \/ \E t \in Threads : \/ \E s \in Slots : Construct(t, s)
                            \/ MoveToBind(t) \/ Store(t) \/ Registered(t)
  BY DEF Next, Closed, vars, ownership, Execute, Executed, Enter, Invoke, HandlerReturns, Leave
<1> QED
  BY <1>1, <1>2, <1>3, <1>4, <1>5, <1>6, <1>7

\* A step changes one thread's control at a time.
LEMMA ControlTypes ==
  CallbackInv /\ [Next]_vars =>
    /\ target' \in [Threads -> Slots] /\ running' \in [Threads -> Slots]
    /\ pc' \in [Threads -> Labels] /\ guard' \in [Threads -> BOOLEAN]
    /\ attached' \subseteq Threads /\ pending' \subseteq attached'
    /\ phase' \in {"new", "executing", "executed", "closed"}
<1> SUFFICES ASSUME CallbackInv, [Next]_vars
             PROVE  /\ target' \in [Threads -> Slots] /\ running' \in [Threads -> Slots]
                    /\ pc' \in [Threads -> Labels] /\ guard' \in [Threads -> BOOLEAN]
                    /\ attached' \subseteq Threads /\ pending' \subseteq attached'
                    /\ phase' \in {"new", "executing", "executed", "closed"}
  OBVIOUS
<1> DEFINE P == /\ target \in [Threads -> Slots] /\ running \in [Threads -> Slots]
                /\ pc \in [Threads -> Labels] /\ guard \in [Threads -> BOOLEAN]
                /\ attached \subseteq Threads /\ pending \subseteq attached
                /\ phase \in {"new", "executing", "executed", "closed"}
<1>0. P
  BY DEF CallbackInv, TypeOK
<1>1. ASSUME NEW t \in Threads, NEW s \in Slots, Construct(t, s) PROVE P'
  BY <1>0, <1>1 DEF Construct, Goto, Labels, jvm
<1>2. ASSUME NEW t \in Threads, MoveToBind(t) \/ Store(t) \/ Registered(t) PROVE P'
  BY <1>0, <1>2 DEF MoveToBind, Store, Registered, Goto, Labels, jvm
<1>3. ASSUME NEW t \in Threads, NEW s \in Slots, Enter(t, s) PROVE P'
  <2>1. guard' \in [Threads -> BOOLEAN]
    BY <1>0, <1>3 DEF Enter, Attach
  <2> QED
    BY <1>0, <1>3, <2>1 DEF Enter, Attach, Goto, Labels, ownership
<1>4. ASSUME NEW t \in Threads, Invoke(t) PROVE P'
  BY <1>0, <1>4 DEF Invoke, Goto, Labels, ownership
<1>5. ASSUME NEW t \in Threads, HandlerReturns(t) PROVE P'
  <2>1. t \in attached
    BY <1>5 DEF HandlerReturns, CallbackInv, Attached
  <2> QED
    BY <1>0, <1>5, <2>1 DEF HandlerReturns, Goto, Labels, ownership
<1>6. ASSUME NEW t \in Threads, Leave(t) PROVE P'
  BY <1>0, <1>6 DEF Leave, Goto, Labels, ownership
<1>7. CASE Execute \/ Executed \/ Close
  BY <1>0, <1>7 DEF Execute, Executed, Close, ownership, jvm
<1>8. CASE UNCHANGED vars
  BY <1>0, <1>8 DEF vars
<1> QED
  BY <1>1, <1>2, <1>3, <1>4, <1>5, <1>6, <1>7, <1>8 DEF Next, Closed

\* The parts about threads are preserved by every step.
LEMMA ThreadStep ==
  CallbackInv /\ [Next]_vars => (Attached /\ PhaseInv /\ GuardInv)'
<1> SUFFICES ASSUME CallbackInv, [Next]_vars
             PROVE  (Attached /\ PhaseInv /\ GuardInv)'
  OBVIOUS
<1> DEFINE P == Attached /\ PhaseInv /\ GuardInv
<1>0. /\ pc \in [Threads -> Labels] /\ guard \in [Threads -> BOOLEAN]
      /\ Attached /\ PhaseInv /\ GuardInv
  BY DEF CallbackInv, TypeOK
<1>1. ASSUME NEW t \in Threads, UNCHANGED <<guard, attached, phase>>,
             NEW label, label # "out", Goto(t, label), pc[t] # "out" \/ (t = Main /\ phase = "new")
      PROVE  P'
  <2>1. \A u \in Threads : pc'[u] = (IF u = t THEN label ELSE pc[u])
    BY <1>0, <1>1 DEF Goto
  <2>2. Attached' /\ GuardInv'
    BY <1>0, <1>1, <2>1 DEF Attached, GuardInv
  <2>3. PhaseInv'
    BY <1>0, <1>1, <2>1, CallbackAssumption DEF PhaseInv, Threads
  <2> QED
    BY <2>2, <2>3
<1>2. ASSUME NEW t \in Threads, NEW s \in Slots, Construct(t, s) PROVE P'
  BY <1>1, <1>2 DEF Construct, jvm
<1>3. ASSUME NEW t \in Threads, MoveToBind(t) \/ Store(t) PROVE P'
  BY <1>1, <1>3 DEF MoveToBind, Store, jvm
<1>4. ASSUME NEW t \in Threads, Registered(t) PROVE P'
  <2>1. pc[t] = "store" /\ UNCHANGED <<guard, attached, phase>>
    BY <1>4 DEF Registered, jvm
  <2>2. CASE phase = "new"
    <3>1. t = Main
      BY <1>0, <2>1, <2>2 DEF PhaseInv, Threads
    <3>2. \A u \in Threads : pc'[u] = (IF u = t THEN "out" ELSE pc[u])
      BY <1>0, <1>4, <2>2 DEF Registered, Goto
    <3> QED
      BY <1>0, <2>1, <2>2, <3>1, <3>2 DEF Attached, PhaseInv, GuardInv, Threads
  <2>3. CASE phase # "new"
    BY <1>1, <1>4, <2>1, <2>3 DEF Registered
  <2> QED
    BY <2>2, <2>3
<1>5. ASSUME NEW t \in Threads, NEW s \in Slots, Enter(t, s) PROVE P'
  <2>1. \A u \in Threads : pc'[u] = (IF u = t THEN "guarded" ELSE pc[u])
    BY <1>0, <1>5 DEF Enter, Goto
  <2>2. \A u \in Threads : guard'[u] = (IF u = t THEN t \notin attached ELSE guard[u])
    BY <1>0, <1>5 DEF Enter, Attach
  <2>3. /\ attached' = attached \cup {t} /\ phase = "executing" /\ phase' = phase
        /\ pc[t] = "out"
    BY <1>5 DEF Enter, Attach
  <2> QED
    BY <1>0, <2>1, <2>2, <2>3 DEF Attached, PhaseInv, GuardInv, Threads
<1>6. ASSUME NEW t \in Threads, Invoke(t) \/ HandlerReturns(t) PROVE P'
  BY <1>1, <1>6 DEF Invoke, HandlerReturns
<1>7. ASSUME NEW t \in Threads, Leave(t) PROVE P'
  <2>1. \A u \in Threads : pc'[u] = (IF u = t THEN "out" ELSE pc[u])
    BY <1>0, <1>7 DEF Leave, Goto
  <2>2. \A u \in Threads : guard'[u] = (IF u = t THEN FALSE ELSE guard[u])
    BY <1>0, <1>7 DEF Leave
  <2>3. /\ attached' = IF guard[t] THEN attached \ {t} ELSE attached
        /\ pc[t] = "leave" /\ phase' = phase
    BY <1>7 DEF Leave
  <2> QED
    BY <1>0, <2>1, <2>2, <2>3 DEF Attached, PhaseInv, GuardInv, Threads
<1>8. CASE Execute \/ Executed \/ Close
  BY <1>0, <1>8 DEF Execute, Executed, Close, Attached, PhaseInv, GuardInv, Threads, ownership, jvm
<1>9. CASE UNCHANGED vars
  BY <1>0, <1>9 DEF vars, Attached, PhaseInv, GuardInv
<1> QED
  BY <1>2, <1>3, <1>4, <1>5, <1>6, <1>7, <1>8, <1>9 DEF Next, Closed

\* The parts about references are preserved by every step.
LEMMA OwnerStep ==
  CallbackInv /\ [Next]_vars => (OneOwner /\ CallIsLive /\ TempInv /\ SlotInv)'
<1> SUFFICES ASSUME CallbackInv, [Next]_vars
             PROVE  (OneOwner /\ CallIsLive /\ TempInv /\ SlotInv)'
  OBVIOUS
<1> USE PlaceNames DEF CallbackInv, TypeOK, Labels, Goto
<1> DEFINE P == OneOwner /\ CallIsLive /\ TempInv /\ SlotInv
<1>1. ASSUME NEW t \in Threads, NEW s \in Slots, Construct(t, s) PROVE P'
  <2>1. OneOwner'
    BY <1>1 DEF Construct, OneOwner, TempInv, PhaseInv
  <2>2. CallIsLive' /\ TempInv'
    BY <1>1 DEF Construct, CallIsLive, TempInv, jvm
  <2>3. SlotInv'
    BY <1>1 DEF Construct, SlotInv, Registering, Replaceable, jvm
  <2> QED
    BY <2>1, <2>2, <2>3
<1>2. ASSUME NEW t \in Threads, MoveToBind(t) PROVE P'
  <2>1. OneOwner'
    BY <1>2, MoveOwner DEF MoveToBind, PhaseInv
  <2>2. CallIsLive' /\ TempInv'
    BY <1>2 DEF MoveToBind, Move, CallIsLive, OneOwner, TempInv, jvm
  <2>3. SlotInv'
    BY <1>2 DEF MoveToBind, SlotInv, Registering, Replaceable, jvm
  <2> QED
    BY <2>1, <2>2, <2>3
<1>3. ASSUME NEW t \in Threads, Store(t) PROVE P'
  <2>1. OneOwner'
    BY <1>3, MoveOwner DEF Store, PhaseInv
  <2>2. CallIsLive' /\ TempInv'
    BY <1>3 DEF Store, Move, CallIsLive, OneOwner, TempInv, SlotInv, Registering,
       Replaceable, jvm
  <2>3. SlotInv'
    BY <1>3 DEF Store, SlotInv, Registering, Replaceable, jvm
  <2> QED
    BY <2>1, <2>2, <2>3
<1>4. ASSUME NEW t \in Threads, Registered(t) PROVE P'
  <2>1. held' = held /\ live' = live
    BY <1>4 DEF Registered, TempInv, OneOwner
  <2>2. OneOwner'
    BY <1>4, <2>1, SameOwner DEF Registered
  <2>4. CallIsLive'
    BY <1>4, <2>1 DEF Registered, CallIsLive, jvm
  <2>5. TempInv'
    BY <1>4, <2>1 DEF Registered, TempInv
  <2>3. SlotInv'
    BY <1>4 DEF Registered, SlotInv, Registering, Replaceable, jvm
  <2> QED
    BY <2>2, <2>3, <2>4, <2>5
<1>5. ASSUME NEW t \in Threads, NEW s \in Slots, Enter(t, s) PROVE P'
  <2>1. OneOwner' /\ CallIsLive' /\ TempInv'
    BY <1>5 DEF Enter, OneOwner, CallIsLive, TempInv, ownership
  <2>2. SlotInv'
    BY <1>5 DEF Enter, SlotInv, Registering, Replaceable, ownership
  <2> QED
    BY <2>1, <2>2
<1>6. ASSUME NEW t \in Threads, Invoke(t) \/ HandlerReturns(t) \/ Leave(t) PROVE P'
  <2>1. UNCHANGED <<ownership, running, phase>>
    BY <1>6 DEF Invoke, HandlerReturns, Leave
  <2>2. PICK label \in {"java", "leave", "out"} : Goto(t, label)
    BY <1>6 DEF Invoke, HandlerReturns, Leave
  <2>3. pc[t] \in {"guarded", "java", "leave"}
    BY <1>6 DEF Invoke, HandlerReturns, Leave
  <2>4. \A u \in Threads : pc'[u] = (IF u = t THEN label ELSE pc[u])
    BY <2>2
  <2>5. OneOwner' /\ CallIsLive' /\ TempInv'
    BY <2>1, <2>3, <2>4 DEF OneOwner, CallIsLive, TempInv, ownership
  <2>6. SlotInv'
    BY <2>1, <2>3, <2>4 DEF SlotInv, Registering, Replaceable, ownership
  <2> QED
    BY <2>5, <2>6
<1>7. CASE Execute \/ Executed
  BY <1>7 DEF Execute, Executed, OneOwner, CallIsLive, TempInv, SlotInv,
     Registering, Replaceable, ownership, jvm
<1>8. CASE Close
  <2>1. \A t \in Threads : pc[t] = "out" /\ held[Temp(t)] = NoRef /\ held[Bind(t)] = NoRef
    BY <1>8 DEF Close, PhaseInv, TempInv
  <2>2. \A p \in Places : held'[p] = NoRef
    BY <1>8, <2>1 DEF Close, Places
  <2>3. live' = {}
    BY <1>8, <2>1 DEF Close, OneOwner, Places
  <2> QED
    BY <1>8, <2>1, <2>2, <2>3 DEF Close, OneOwner, CallIsLive, TempInv, SlotInv,
       Registering, jvm
<1>9. CASE UNCHANGED vars
  BY <1>9 DEF vars, OneOwner, CallIsLive, TempInv, SlotInv, Registering, Replaceable
<1> QED
  BY <1>1, <1>2, <1>3, <1>4, <1>5, <1>6, <1>7, <1>8, <1>9 DEF Next, Closed

\* The invariant holds in every reachable state.
LEMMA CallbackInvariant == Safety => []CallbackInv
<1>1. CallbackInv /\ [Next]_vars => CallbackInv'
  BY RefTypes, ControlTypes, ThreadStep, OwnerStep DEF CallbackInv, TypeOK
<1> QED
  BY <1>1, CallbackInit, PTL DEF Safety

\* No reference is leaked or deleted twice, for any number of threads, codes
\* and registrations.
THEOREM ReferencesOwned == Safety => []OneOwner
<1>1. CallbackInv => OneOwner
  BY DEF CallbackInv
<1> QED
  BY <1>1, CallbackInvariant, PTL

\* A handler about to be called exists, for any number of threads.
THEOREM CallsFindHandler == Safety => []CallIsLive
<1>1. CallbackInv => CallIsLive
  BY DEF CallbackInv
<1> QED
  BY <1>1, CallbackInvariant, PTL

\* Types: no live reference beyond those made, exceptions on attached threads only.
THEOREM CallbackTypes == Safety => []TypeOK
<1>1. CallbackInv => TypeOK
  BY DEF CallbackInv
<1> QED
  BY <1>1, CallbackInvariant, PTL

\* Attachment to the JVM is balanced on every thread.
THEOREM AttachmentBalanced == Safety => []Attached
<1>1. CallbackInv => Attached
  BY DEF CallbackInv
<1> QED
  BY <1>1, CallbackInvariant, PTL
=============================================================================
