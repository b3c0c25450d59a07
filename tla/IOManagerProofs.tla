---------------------------- MODULE IOManagerProofs ----------------------------
(***************************************************************************)
(* IOManager for every set of fibers, descriptors, addresses, workers and  *)
(* worlds: what is registered is counted and belongs to a fiber that waits *)
(* for it; nobody is forgotten without a cause; a call gets the length of  *)
(* its own operation.                                                      *)
(***************************************************************************)
EXTENDS IOManager, FiniteSetTheorems, TLAPS

(* What the locals of a call hold, by the place it has got to.             *)
Placed ==
    \A f \in Fibers :
        /\ pc[f] # "none" => /\ call[f].handle \in Handles /\ call[f].ctx \in Contexts
                             /\ call[f].n \in 1..MaxCalls
        /\ pc[f] \in {"add", "added", "hailed", "held", "ready", "leave", "dead"} => call[f].object \in Objects
        /\ timer[f] # "none" => pc[f] \notin {"none", "issue", "timer"}

(* Two calls never have one EventContext: an address is used again only when
   neither a call nor an FdContext has it.                                 *)
OwnContext ==
    \A f, g \in Fibers :
        pc[f] # "none" /\ pc[g] # "none" /\ call[f].ctx = call[g].ctx => f = g

OnlyRead == \A o \in Objects : events[o] \subseteq {"READ"}

Counted == IsFiniteSet(Registrations) /\ PendingExact

Sound == TypeOK /\ Placed /\ OwnContext /\ OnlyRead /\ RegisteredAwaits /\ Counted

-----------------------------------------------------------------------------
USE DEF Places, Registered, Unregistered

LEMMA RegistrationIs ==
    ASSUME OnlyRead, NEW r \in Registrations
    PROVE  r[1] \in Objects /\ r[2] = "READ" /\ r = <<r[1], "READ">> /\ "READ" \in events[r[1]]
  BY DEF OnlyRead, Registrations, Events

(* The registration of an object, if it has one: who waits for it.         *)
LEMMA HeldBy ==
    ASSUME Sound, NEW o \in Objects, "READ" \in events[o]
    PROVE  \E f \in Fibers :
               /\ pc[f] \in Registered /\ call[f].ctx = slot[o]["READ"] /\ call[f].object = o
               /\ waiter[slot[o]["READ"]] = f /\ slot[o]["READ"] \in Contexts
  <1>1. <<o, "READ">> \in Registrations
    BY DEF Registrations, Events
  <1>2. PICK f \in Fibers : pc[f] \in Registered /\ call[f].ctx = slot[o]["READ"]
                            /\ call[f].object = o /\ waiter[call[f].ctx] = f
    BY <1>1 DEF Sound, RegisteredAwaits
  <1> QED
    BY <1>2 DEF Sound, Placed

(* What has become of calls stays typed.                                   *)
LEMMA LossTyped ==
    ASSUME TypeOK, NEW F, NEW why \in Losses, Lose(F, why)
    PROVE  loss' \in [Fibers -> Losses \cup {None}]
  BY DEF Lose, TypeOK

(* One registration is taken away.                                         *)
LEMMA CountsOff ==
    ASSUME Sound, NEW o \in Objects, "READ" \in events[o],
           events' = [events EXCEPT ![o] = {}], pending' = pending - 1
    PROVE  /\ Registrations' = Registrations \ {<<o, "READ">>}
           /\ Counted' /\ pending' \in Nat
           /\ OnlyRead' /\ events' \in [Objects -> SUBSET Events]
  <1>0. events \in [Objects -> SUBSET Events] /\ OnlyRead /\ IsFiniteSet(Registrations)
        /\ pending = Cardinality(Registrations)
    BY DEF Sound, TypeOK, Counted, PendingExact
  <1>1. Registrations' = Registrations \ {<<o, "READ">>}
    BY <1>0 DEF Registrations, OnlyRead, Events
  <1>2. <<o, "READ">> \in Registrations
    BY DEF Registrations, Events
  <1>3. IsFiniteSet(Registrations') /\ Cardinality(Registrations') = Cardinality(Registrations) - 1
    BY <1>0, <1>1, <1>2, FS_RemoveElement
  <1>4. Cardinality(Registrations') \in Nat
    BY <1>3, FS_CardinalityType
  <1> QED
    BY <1>0, <1>1, <1>3, <1>4 DEF Counted, PendingExact, OnlyRead

LEMMA RegisteredStay ==
    ASSUME Sound, UNCHANGED <<events, pending>>
    PROVE  Counted' /\ OnlyRead' /\ Registrations' = Registrations
  BY DEF Sound, Counted, PendingExact, OnlyRead, Registrations

(* Events that are triggered are one event, and wake the one fiber that
   waits for it.                                                           *)
LEMMA Wakes ==
    ASSUME Sound, NEW o \in Objects, NEW E \in SUBSET events[o], E # {}, Trigger(o, E)
    PROVE  \E f \in Fibers :
               /\ E = {"READ"} /\ "READ" \in events[o]
               /\ pc[f] \in Registered /\ call[f].ctx = slot[o]["READ"] /\ call[f].object = o
               /\ pc' = [pc EXCEPT ![f] = Scheduled(pc[f])]
               /\ waiter' = [waiter EXCEPT ![call[f].ctx] = None]
               /\ events' = [events EXCEPT ![o] = {}]
               /\ slot' = [slot EXCEPT ![o] = [e \in Events |-> IF e = "READ" THEN None ELSE @[e]]]
               /\ pending' = pending - 1
  <1>0. TypeOK
    BY DEF Sound
  <1>1. E = {"READ"} /\ events[o] = {"READ"}
    BY DEF Sound, OnlyRead
  <1>2. PICK f \in Fibers :
               /\ pc[f] \in Registered /\ call[f].ctx = slot[o]["READ"] /\ call[f].object = o
               /\ waiter[slot[o]["READ"]] = f /\ slot[o]["READ"] \in Contexts
    BY <1>1, HeldBy
  <1>3. pc' = [pc EXCEPT ![f] = Scheduled(pc[f])]
    BY <1>0, <1>1, <1>2 DEF Trigger, TypeOK
  <1>4. waiter' = [waiter EXCEPT ![call[f].ctx] = None]
    BY ZenonT(60), <1>0, <1>1, <1>2 DEF Trigger, TypeOK
  <1>5. events' = [events EXCEPT ![o] = {}]
    <2>1. events[o] \ {"READ"} = {}
      BY <1>1
    <2> QED
      BY <1>0, <1>1, <2>1 DEF Trigger, TypeOK
  <1>6. slot' = [slot EXCEPT ![o] = [e \in Events |-> IF e = "READ" THEN None ELSE @[e]]]
    BY <1>0, <1>1 DEF Trigger, TypeOK, Events
  <1>7. Cardinality({"READ"}) = 1
    BY FS_Singleton
  <1>8. pending' = pending - 1
    BY <1>1, <1>7 DEF Trigger
  <1> QED
    BY <1>1, <1>2, <1>3, <1>4, <1>5, <1>6, <1>8

(* The same, said of the fiber and of the other objects only. *)
LEMMA WakesOne ==
    ASSUME Sound, NEW o \in Objects, NEW e \in events[o], Trigger(o, {e})
    PROVE  /\ e = "READ"
           /\ \E f \in Fibers :
                 /\ pc[f] \in Registered /\ call[f].ctx = slot[o]["READ"] /\ call[f].object = o
                 /\ pc' = [pc EXCEPT ![f] = Scheduled(pc[f])]
           /\ \A x \in Objects \ {o} : events'[x] = events[x] /\ slot'[x] = slot[x]
  <1>1. {e} \in SUBSET events[o] /\ {e} # {}
    OBVIOUS
  <1>2. \E f \in Fibers :
           /\ {e} = {"READ"} /\ pc[f] \in Registered /\ call[f].ctx = slot[o]["READ"]
           /\ call[f].object = o /\ pc' = [pc EXCEPT ![f] = Scheduled(pc[f])]
    BY SMTT(30), <1>1, Wakes
  <1>3. \A x \in Objects \ {o} : events'[x] = events[x] /\ slot'[x] = slot[x]
    BY DEF Sound, TypeOK, Trigger
  <1> QED
    BY <1>2, <1>3

(* What holds of registrations stays so while fibers that wait go on to do
   so.                                                                     *)
LEMMA HeldStay ==
    ASSUME Sound, UNCHANGED <<eventVars>>,
           \A f \in Fibers : pc[f] \in Registered =>
               /\ pc'[f] \in Registered /\ call'[f] = call[f]
               /\ waiter'[call[f].ctx] = waiter[call[f].ctx]
    PROVE  RegisteredAwaits' /\ Counted' /\ OnlyRead'
  <1>1. Registrations' = Registrations /\ Counted' /\ OnlyRead'
    BY RegisteredStay DEF eventVars
  <1>2. ASSUME NEW r \in Registrations'
        PROVE  \E f \in Fibers : /\ pc'[f] \in Registered /\ call'[f].ctx = slot'[r[1]][r[2]]
                                 /\ call'[f].object = r[1] /\ waiter'[call'[f].ctx] = f
    <2>1. PICK f \in Fibers : /\ pc[f] \in Registered /\ call[f].ctx = slot[r[1]][r[2]]
                              /\ call[f].object = r[1] /\ waiter[call[f].ctx] = f
      BY <1>1, <1>2 DEF Sound, RegisteredAwaits
    <2> QED
      BY <2>1 DEF eventVars
  <1> QED
    BY <1>1, <1>2 DEF RegisteredAwaits

(* A step of one fiber.                                                    *)
LEMMA OneMoves ==
    ASSUME TypeOK, NEW f \in Fibers, NEW l, Goto(f, l)
    PROVE  pc'[f] = l /\ \A g \in Fibers \ {f} : pc'[g] = pc[g]
  BY DEF TypeOK, Goto

LEMMA SoundInit == Init => Sound
  <1> SUFFICES ASSUME Init PROVE Sound
    OBVIOUS
  <1>1. Registrations = {} /\ IsFiniteSet({}) /\ Cardinality({}) = 0
    BY FS_EmptySet DEF Init, Registrations
  <1>2. TypeOK
    <2>1. \A h \in Handles : <<h, 1>> \in Objects
      BY BoundAssumption DEF Objects
    <2>2. /\ table \in [Handles -> Objects \cup {None}]
          /\ objects \in [Handles -> 0..MaxObjects]
          /\ call \in [Fibers -> CallType]
      BY <2>1, BoundAssumption DEF Init, NoCall, Kinds, CallType
    <2>3. key \in [Handles -> Objects \cup {None}]
      BY <2>2 DEF Init
    <2>4. closes \in 0..MaxCloses
      BY BoundAssumption DEF Init
    <2>5. /\ slot \in [Objects -> [Events -> Contexts \cup {None}]]
          /\ events \in [Objects -> SUBSET Events]
          /\ hand \in [Workers -> PacketType \cup {None}]
          /\ inflight \subseteq OperationType
          /\ port \subseteq PacketType
          /\ cancels \subseteq [handle : Handles, event : Events, id : Ids]
      BY DEF Init
    <2> QED
      BY <2>2, <2>3, <2>4, <2>5 DEF Init, TypeOK
  <1>3. Placed /\ OwnContext /\ OnlyRead
    BY DEF Init, Placed, OwnContext, OnlyRead
  <1> QED
    BY <1>1, <1>2, <1>3 DEF Init, Sound, RegisteredAwaits, Counted, PendingExact

(* The steps of a call up to its registration.                             *)
LEMMA SoundBegin ==
    ASSUME Sound, NEW f \in Fibers, NEW h \in Handles, NEW kind \in Kinds, NEW c \in Contexts,
           Begin(f, h, kind, c)
    PROVE  Sound'
  <1>0. TypeOK /\ Placed /\ OwnContext
    BY DEF Sound
  <1>1. pc[f] = "none" /\ pc'[f] = "issue" /\ \A g \in Fibers \ {f} : pc'[g] = pc[g] /\ call'[g] = call[g]
    BY <1>0, OneMoves DEF Begin, TypeOK
  <1>2. /\ call'[f].ctx = c /\ call'[f].handle = h /\ call'[f].n = call[f].n + 1
        /\ call' \in [Fibers -> CallType]
        /\ call'[f].n \in 1..MaxCalls
    BY <1>0, BoundAssumption DEF Begin, TypeOK, CallType
  <1>3. TypeOK'
    BY <1>0, <1>2 DEF Begin, TypeOK, Goto, tableVars, eventVars, kernelVars, restVars
  <1>4. Placed'
    BY <1>0, <1>1, <1>2 DEF Begin, Placed
  <1>5. \A g \in Fibers \ {f} : pc[g] # "none" => call[g].ctx # c
    BY DEF Begin, Live
  <1>6. OwnContext'
    BY <1>0, <1>1, <1>2, <1>5 DEF OwnContext
  <1>7. RegisteredAwaits' /\ Counted' /\ OnlyRead'
    BY <1>0, <1>1, <1>5, HeldStay DEF Begin, TypeOK
  <1> QED
    BY <1>3, <1>4, <1>6, <1>7 DEF Sound

LEMMA PacketTyped ==
    ASSUME TypeOK, NEW h \in Handles, NEW c \in Contexts, NEW id \in Ids
    PROVE  Packet(h, c, id) \subseteq PacketType
  BY DEF TypeOK, Packet, PacketType

(* A step of fiber f, not registered before or after, that changes only its place,
   its timer, its object and the kernel.                                   *)
LEMMA SoundStep ==
    ASSUME Sound, NEW f \in Fibers, NEW l, l \notin Registered, Goto(f, l), pc[f] \notin Registered \cup {"none"},
           TypeOK', Placed', UNCHANGED <<eventVars, memoryVars>>,
           call'[f].ctx = call[f].ctx,
           \A g \in Fibers \ {f} : call'[g] = call[g]
    PROVE  Sound'
  <1>0. TypeOK /\ OwnContext
    BY DEF Sound
  <1>1. pc'[f] = l /\ \A g \in Fibers \ {f} : pc'[g] = pc[g]
    BY <1>0, OneMoves
  <1>2. OwnContext'
    BY <1>0, <1>1 DEF OwnContext
  <1>3. RegisteredAwaits' /\ Counted' /\ OnlyRead'
    BY <1>1, HeldStay DEF memoryVars
  <1> QED
    BY <1>2, <1>3 DEF Sound

LEMMA SoundIssue ==
    ASSUME Sound, NEW f \in Fibers, IssueFails(f) \/ IssueSucceeds(f) \/ IssuePending(f)
    PROVE  Sound'
  <1>0. TypeOK /\ Placed /\ pc[f] = "issue"
    BY DEF Sound, IssueFails, IssueSucceeds, IssuePending
  <1>1. call[f].handle \in Handles /\ call[f].ctx \in Contexts /\ Id(f) \in Ids /\ timer[f] = "none"
    BY <1>0 DEF Placed, Id, Ids
  <1>2. PICK l \in {"none", "timer", "find"} : Goto(f, l)
    BY DEF IssueFails, IssueSucceeds, IssuePending
  <1>3. pc' \in [Fibers -> Places]
    BY <1>0, <1>2 DEF TypeOK, Goto
  <1>4. inflight' \subseteq OperationType /\ port' \subseteq PacketType
    BY <1>0, <1>1, PacketTyped DEF IssueFails, IssueSucceeds, IssuePending, TypeOK, kernelVars,
       OperationType
  <1>5. TypeOK'
    BY <1>0, <1>3, <1>4 DEF IssueFails, IssueSucceeds, IssuePending, TypeOK, memoryVars, tableVars,
       eventVars, kernelVars, restVars
  <1>6. /\ UNCHANGED <<eventVars, memoryVars>> /\ call' = call /\ timer' = timer
    BY DEF IssueFails, IssueSucceeds, IssuePending
  <1>7. Placed'
    BY <1>0, <1>1, <1>2, <1>6, OneMoves DEF Placed
  <1> QED
    BY <1>0, <1>2, <1>5, <1>6, <1>7, SoundStep

LEMMA SoundFind ==
    ASSUME Sound, NEW f \in Fibers, AddTimer(f) \/ FindContext(f) \/ MakeContext(f)
    PROVE  Sound'
  <1>0. TypeOK /\ Placed /\ pc[f] \in {"timer", "find", "make"}
    BY DEF Sound, AddTimer, FindContext, MakeContext
  <1>1. call[f].handle \in Handles /\ call[f].ctx \in Contexts
    BY <1>0 DEF Placed
  <1>2. PICK l \in {"find", "make", "add"} : Goto(f, l)
    BY DEF AddTimer, FindContext, MakeContext
  <1>3. pc' \in [Fibers -> Places]
    BY <1>0, <1>2 DEF TypeOK, Goto
  <1>4. /\ call' \in [Fibers -> CallType]
        /\ call'[f].ctx = call[f].ctx /\ call'[f].handle = call[f].handle /\ call'[f].n = call[f].n
        /\ \A g \in Fibers \ {f} : call'[g] = call[g]
        /\ l = "add" => call'[f].object \in Objects
        /\ table' \in [Handles -> Objects \cup {None}] /\ objects' \in [Handles -> 0..MaxObjects]
    <2>1. CASE AddTimer(f)
      BY <1>0, <1>2, <2>1, OneMoves DEF AddTimer, TypeOK, tableVars
    <2>2. CASE FindContext(f)
      <3>1. UNCHANGED <<table, objects>>
        BY <2>2 DEF FindContext, tableVars
      <3>2. CASE table[call[f].handle] = None
        <4>1. Goto(f, "make") /\ call' = call
          BY <2>2, <3>2 DEF FindContext
        <4>2. l # "add"
          BY <1>0, <1>2, <4>1, OneMoves
        <4> QED
          BY <1>0, <3>1, <4>1, <4>2 DEF TypeOK
      <3>3. CASE table[call[f].handle] # None
        <4>1. call' = [call EXCEPT ![f].object = table[call[f].handle]]
          BY <2>2, <3>3 DEF FindContext
        <4>2. table[call[f].handle] \in Objects
          BY <1>0, <1>1, <3>3 DEF TypeOK
        <4>3. call \in [Fibers -> CallType]
          BY <1>0 DEF TypeOK
        <4>4. call'[f] = [call[f] EXCEPT !.object = table[call[f].handle]]
          BY <4>1, <4>3
        <4>5. call'[f] \in CallType /\ call'[f].object = table[call[f].handle]
              /\ call'[f].handle = call[f].handle /\ call'[f].ctx = call[f].ctx /\ call'[f].n = call[f].n
          <5>1. call[f] \in CallType
            BY <4>3
          <5> QED
            BY <4>2, <4>4, <5>1 DEF CallType
        <4> QED
          BY <1>0, <3>1, <4>1, <4>2, <4>3, <4>5 DEF TypeOK
      <3> QED
        BY <3>2, <3>3
    <2>3. CASE MakeContext(f)
      <3> DEFINE h == call[f].handle
                 o == <<h, objects[h] + 1>>
      <3>1. o \in Objects /\ objects[h] + 1 \in 0..MaxObjects
        BY <1>0, <1>1, <2>3, BoundAssumption DEF MakeContext, TypeOK, Objects
      <3>2. /\ call' = [call EXCEPT ![f].object = o, ![f].isNew = TRUE]
            /\ table' = [table EXCEPT ![h] = o]
            /\ objects' = [objects EXCEPT ![h] = @ + 1]
        BY <2>3 DEF MakeContext
      <3> HIDE DEF o
      <3>3. table' \in [Handles -> Objects \cup {None}]
        BY <1>0, <3>1, <3>2 DEF TypeOK
      <3>4. objects' \in [Handles -> 0..MaxObjects]
        BY <1>0, <3>1, <3>2 DEF TypeOK
      <3>5. call \in [Fibers -> CallType]
        BY <1>0 DEF TypeOK
      <3>6. call'[f] = [call[f] EXCEPT !.object = o, !.isNew = TRUE]
        BY <3>2, <3>5
      <3>7. call'[f] \in CallType /\ call'[f].object = o
            /\ call'[f].handle = call[f].handle /\ call'[f].ctx = call[f].ctx /\ call'[f].n = call[f].n
        <4>1. call[f] \in CallType
          BY <3>5
        <4> QED
          BY <3>1, <3>6, <4>1 DEF CallType
      <3> QED
        BY <3>1, <3>2, <3>3, <3>4, <3>5, <3>7
    <2> QED
      BY <2>1, <2>2, <2>3
  <1>5. timer' \in [Fibers -> {"none", "armed", "listed"}] /\ \A g \in Fibers \ {f} : timer'[g] = timer[g]
    BY <1>0 DEF AddTimer, FindContext, MakeContext, TypeOK
  <1>6. TypeOK'
    BY <1>0, <1>3, <1>4, <1>5 DEF AddTimer, FindContext, MakeContext, TypeOK, memoryVars, tableVars,
       eventVars, kernelVars, restVars
  <1>7. UNCHANGED <<eventVars, memoryVars>>
    BY DEF AddTimer, FindContext, MakeContext
  <1>8. Placed'
    BY <1>0, <1>1, <1>2, <1>4, <1>5, OneMoves DEF Placed
  <1> QED
    BY <1>0, <1>2, <1>4, <1>6, <1>7, <1>8, SoundStep

LEMMA SoundLeave ==
    ASSUME Sound, NEW f \in Fibers,
           AddEventFails(f) \/ (Suspend(f) /\ pc[f] = "hailed") \/ Resume(f) \/ Return(f)
    PROVE  Sound'
  <1>0. TypeOK /\ Placed /\ pc[f] \in {"add", "hailed", "ready", "leave"}
    BY DEF Sound, AddEventFails, Resume, Return
  <1>1. /\ call' = call /\ UNCHANGED <<eventVars, memoryVars>>
    BY DEF AddEventFails, Suspend, Resume, Return
  <1>2. PICK l \in {"dead", "ready", "leave", "none"} : Goto(f, l) /\ (l = "none" => timer'[f] = "none")
    BY <1>0 DEF AddEventFails, Suspend, Resume, Return, TypeOK
  <1>3. /\ timer' \in [Fibers -> {"none", "armed", "listed"}]
        /\ \A g \in Fibers \ {f} : timer'[g] = timer[g]
        /\ pc' \in [Fibers -> Places]
        /\ loss' \in [Fibers -> Losses \cup {None}]
    BY <1>0, <1>2 DEF AddEventFails, Suspend, Resume, Return, TypeOK, Goto
  <1>4. TypeOK'
    BY ZenonT(60), <1>0, <1>3 DEF AddEventFails, Suspend, Resume, Return, TypeOK, memoryVars, tableVars, eventVars,
       kernelVars, restVars
  <1>5. Placed'
    BY <1>0, <1>1, <1>2, <1>3, OneMoves DEF Placed
  <1> QED
    BY <1>0, <1>1, <1>2, <1>4, <1>5, SoundStep

(* The registered fiber suspends.                                          *)
LEMMA SoundSuspend ==
    ASSUME Sound, NEW f \in Fibers, Suspend(f)
    PROVE  Sound'
  <1>0. TypeOK /\ Placed /\ OwnContext
    BY DEF Sound
  <1>1. CASE pc[f] = "hailed"
    BY <1>1, SoundLeave
  <1>2. CASE pc[f] = "added"
    <2>1. /\ pc'[f] = "held" /\ \A g \in Fibers \ {f} : pc'[g] = pc[g]
          /\ pc' \in [Fibers -> Places]
      BY <1>0, <1>2, OneMoves DEF Suspend, Goto, TypeOK
    <2>2. UNCHANGED <<call, timer, memoryVars, eventVars>>
      BY DEF Suspend
    <2>3. TypeOK'
      BY ZenonT(60), <1>0, <2>1 DEF Suspend, TypeOK, memoryVars, tableVars, eventVars, kernelVars, restVars
    <2>4. Placed' /\ OwnContext'
      BY <1>0, <1>2, <2>1, <2>2 DEF Placed, OwnContext
    <2>5. RegisteredAwaits' /\ Counted' /\ OnlyRead'
      BY <2>1, <2>2, HeldStay DEF memoryVars
    <2> QED
      BY <2>3, <2>4, <2>5 DEF Sound
  <1> QED
    BY <1>1, <1>2 DEF Suspend

(* The registration: an event, counted, of the fiber.                      *)
LEMMA SoundAdd ==
    ASSUME Sound, NEW f \in Fibers, AddEvent(f)
    PROVE  Sound'
  <1> DEFINE o == call[f].object
             c == call[f].ctx
  <1>0. /\ TypeOK /\ Placed /\ OwnContext /\ OnlyRead /\ pc[f] = "add" /\ "READ" \notin events[o]
        /\ IsFiniteSet(Registrations) /\ pending = Cardinality(Registrations)
        /\ Goto(f, "added") /\ call' = call /\ timer' = timer
    BY DEF Sound, AddEvent, EventOf, Counted, PendingExact
  <1>1. o \in Objects /\ call[f].handle \in Handles /\ c \in Contexts
    BY <1>0 DEF Placed
  <1>2. pc'[f] = "added" /\ \A g \in Fibers \ {f} : pc'[g] = pc[g]
    BY <1>0, OneMoves
  <1>3. /\ events' = [events EXCEPT ![o] = @ \cup {"READ"}]
        /\ slot' = [slot EXCEPT ![o]["READ"] = c]
        /\ waiter' = [waiter EXCEPT ![c] = f]
        /\ pending' = pending + 1
    BY DEF AddEvent, EventOf
  <1>o. o = call[f].object /\ c = call[f].ctx
    OBVIOUS
  <1> HIDE DEF o, c
  <1>4. Registrations' = Registrations \cup {<<o, "READ">>} /\ <<o, "READ">> \notin Registrations
    BY <1>0, <1>1, <1>3 DEF Registrations, TypeOK, Events
  <1>5. IsFiniteSet(Registrations') /\ Cardinality(Registrations') = Cardinality(Registrations) + 1
        /\ Cardinality(Registrations) \in Nat
    BY <1>0, <1>4, FS_AddElement, FS_CardinalityType
  <1>6. Counted' /\ pending' \in Nat
    BY <1>0, <1>3, <1>5 DEF Counted, PendingExact
  <1>7. /\ slot' \in [Objects -> [Events -> Contexts \cup {None}]]
        /\ events' \in [Objects -> SUBSET Events]
        /\ waiter' \in [Contexts -> Fibers \cup {None}]
    BY <1>0, <1>1, <1>3 DEF TypeOK, Events
  <1>8. key' \in [Handles -> Objects \cup {None}]
    BY <1>0, <1>1 DEF AddEvent, TypeOK, o
  <1>9. pc' \in [Fibers -> Places]
    BY <1>0 DEF TypeOK, Goto
  <1>10. TypeOK'
    BY <1>0, <1>6, <1>7, <1>8, <1>9 DEF AddEvent, TypeOK, tableVars, restVars
  <1>11. Placed' /\ OwnContext'
    BY <1>0, <1>1, <1>2 DEF Placed, OwnContext, o
  <1>12. OnlyRead'
    BY <1>0, <1>1, <1>3 DEF OnlyRead, TypeOK
  <1>13. RegisteredAwaits'
    <2> SUFFICES ASSUME NEW r \in Registrations'
                 PROVE  \E g \in Fibers : /\ pc'[g] \in Registered /\ call[g].ctx = slot'[r[1]][r[2]]
                                          /\ call[g].object = r[1] /\ waiter'[call[g].ctx] = g
      BY <1>0 DEF RegisteredAwaits
    <2>1. CASE r = <<o, "READ">>
      <3>1. slot'[o]["READ"] = c /\ waiter'[c] = f
        BY <1>0, <1>1, <1>3 DEF TypeOK, Events
      <3> QED
        BY <1>o, <1>2, <2>1, <3>1
    <2>2. CASE r \in Registrations /\ r # <<o, "READ">>
      <3>1. PICK g \in Fibers : /\ pc[g] \in Registered /\ call[g].ctx = slot[r[1]][r[2]]
                                /\ call[g].object = r[1] /\ waiter[call[g].ctx] = g
        BY <2>2 DEF Sound, RegisteredAwaits
      <3>2. g # f /\ call[g].ctx # c
        BY <1>0, <3>1 DEF OwnContext, c
      <3>3. r[1] \in Objects /\ r[2] \in Events /\ r = <<r[1], r[2]>> /\ r[2] = "READ"
        BY <1>0, <2>2, RegistrationIs DEF Events
      <3>4. r[1] # o
        BY <2>2, <3>3
      <3>5. slot'[r[1]] = slot[r[1]] /\ waiter'[call[g].ctx] = waiter[call[g].ctx]
        BY <1>0, <1>3, <3>2, <3>3, <3>4 DEF TypeOK, Placed
      <3> QED
        BY <1>2, <3>1, <3>2, <3>5
    <2> QED
      BY <1>4, <2>1, <2>2
  <1> QED
    BY <1>6, <1>10, <1>11, <1>12, <1>13 DEF Sound

(* Steps that leave calls and registrations alone.                         *)
LEMMA SoundAround ==
    ASSUME Sound, TypeOK', UNCHANGED <<pc, call, waiter, eventVars>>,
           \A f \in Fibers : timer'[f] # "none" => timer[f] # "none"
    PROVE  Sound'
  <1>1. Placed' /\ OwnContext'
    BY DEF Sound, Placed, OwnContext
  <1>2. RegisteredAwaits' /\ Counted' /\ OnlyRead'
    BY HeldStay
  <1> QED
    BY <1>1, <1>2 DEF Sound

LEMMA SoundTimer ==
    ASSUME Sound, NEW f \in Fibers, TimerExpires(f) \/ TimerFires(f)
    PROVE  Sound'
  <1>0. TypeOK /\ Placed /\ timer[f] # "none"
    BY DEF Sound, TimerExpires, TimerFires
  <1>1. call[f].handle \in Handles /\ Id(f) \in Ids
    BY <1>0 DEF Placed, Id, Ids
  <1>2. cancels' \subseteq [handle : Handles, event : Events, id : Ids]
    <2>1. CASE TimerExpires(f)
      BY <1>0, <2>1 DEF TimerExpires, TypeOK
    <2>2. CASE TimerFires(f)
      BY <1>0, <1>1, <2>2 DEF TimerFires, TypeOK, EventOf, Events
    <2> QED
      BY <2>1, <2>2
  <1>3. /\ timer' \in [Fibers -> {"none", "armed", "listed"}]
        /\ \A g \in Fibers : timer'[g] # "none" => timer[g] # "none"
    BY <1>0 DEF TimerExpires, TimerFires, TypeOK
  <1>4. timedOut' \in [Fibers -> BOOLEAN]
    BY <1>0 DEF TimerExpires, TimerFires, TypeOK
  <1>5. UNCHANGED <<pc, call, waiter, eventVars>>
    BY DEF TimerExpires, TimerFires, memoryVars
  <1>6. TypeOK'
    BY <1>0, <1>2, <1>3, <1>4, <1>5 DEF TimerExpires, TimerFires, TypeOK, memoryVars, tableVars, eventVars,
       kernelVars, restVars
  <1> QED
    BY <1>3, <1>5, <1>6, SoundAround

LEMMA SoundKernel ==
    ASSUME Sound,
           \/ \E h \in Handles : CloseSocket(h) \/ Reopen(h)
           \/ \E i \in inflight : Complete(i) \/ Fail(i)
           \/ \E w \in Workers, p \in port : Take(w, p)
           \/ UNCHANGED vars
    PROVE  Sound'
  <1>0. TypeOK
    BY DEF Sound
  <1>1. UNCHANGED <<pc, call, waiter, timer, eventVars>>
    BY DEF CloseSocket, Reopen, Complete, Fail, Take, vars, callVars, memoryVars, eventVars
  <1>2. TypeOK'
    <2>1. ASSUME NEW h \in Handles, CloseSocket(h) \/ Reopen(h) PROVE TypeOK'
      BY <1>0, <2>1, LossTyped DEF CloseSocket, Reopen, Losses, TypeOK, callVars, memoryVars, tableVars, eventVars, restVars
    <2>2. ASSUME NEW i \in inflight, Complete(i) \/ Fail(i) PROVE TypeOK'
      <3>1. Packet(i.handle, i.ctx, i.id) \subseteq PacketType
        <4>1. i \in OperationType
          BY <1>0 DEF TypeOK
        <4> QED
          BY <1>0, <4>1, PacketTyped DEF OperationType
      <3>2. loss' \in [Fibers -> Losses \cup {None}]
        BY <1>0, <2>2, LossTyped DEF Complete, Fail, Losses
      <3> QED
        BY <1>0, <2>2, <3>1, <3>2 DEF Complete, Fail, TypeOK, callVars, memoryVars, tableVars, eventVars, restVars
    <2>3. ASSUME NEW w \in Workers, NEW p \in port, Take(w, p) PROVE TypeOK'
      BY <1>0, <2>3 DEF Take, TypeOK, callVars, memoryVars, tableVars, eventVars
    <2>4. CASE UNCHANGED vars
      BY <1>0, <2>4 DEF TypeOK, vars
    <2> QED
      BY <2>1, <2>2, <2>3, <2>4
  <1> QED
    BY <1>1, <1>2, SoundAround

(* An event is cancelled: its bit is gone, its fiber goes on waiting.      *)
LEMMA SoundCancel ==
    ASSUME Sound, NEW o, NEW e,
           IF IsRegistered(o, e) THEN CancelEvent(o, e) ELSE UNCHANGED <<inflight, eventVars, loss>>,
           o = None \/ o \in Objects,
           UNCHANGED <<pc, call, timer, timedOut, sock, key, port, memoryVars, tableVars, restVars>>,
           cancels' \subseteq cancels
    PROVE  Sound'
  <1>0. TypeOK /\ OnlyRead
    BY DEF Sound
  <1>1. CASE ~IsRegistered(o, e)
    <2>1. UNCHANGED <<inflight, eventVars, loss>>
      BY <1>1
    <2>2. TypeOK'
      BY <1>0, <2>1 DEF TypeOK, memoryVars, tableVars, eventVars, restVars
    <2> QED
      BY <2>1, <2>2, SoundAround DEF memoryVars
  <1>2. CASE IsRegistered(o, e)
    <2>1. o \in Objects /\ e = "READ" /\ events[o] = {"READ"}
      BY <1>0, <1>2 DEF IsRegistered, OnlyRead
    <2>2. /\ inflight' \subseteq inflight /\ pending' = pending - 1 /\ slot' = slot
          /\ events' = [events EXCEPT ![o] = @ \ {e}]
      BY <1>2 DEF CancelEvent
    <2>3. events' = [events EXCEPT ![o] = {}]
      <3>1. events[o] \ {e} = {}
        BY <2>1
      <3> QED
        BY <2>2, <3>1
    <2>4. /\ Registrations' \subseteq Registrations /\ Counted' /\ pending' \in Nat
          /\ OnlyRead' /\ events' \in [Objects -> SUBSET Events]
      BY <2>1, <2>2, <2>3, CountsOff
    <2>5. loss' \in [Fibers -> Losses \cup {None}]
      BY <1>0, <1>2, LossTyped DEF CancelEvent, Losses
    <2>6. TypeOK'
      BY <1>0, <2>2, <2>4, <2>5 DEF TypeOK, memoryVars, tableVars, restVars
    <2>7. Placed' /\ OwnContext'
      BY DEF Sound, Placed, OwnContext
    <2>8. RegisteredAwaits'
      BY <2>2, <2>4 DEF Sound, RegisteredAwaits, memoryVars
    <2> QED
      BY <2>4, <2>6, <2>7, <2>8 DEF Sound
  <1> QED
    BY <1>1, <1>2

LEMMA FoundTyped ==
    ASSUME TypeOK, NEW h \in Handles, NEW o \in Found(h)
    PROVE  o = None \/ o \in Objects
  <1>1. objects[h] \in 0..MaxObjects
    BY DEF TypeOK
  <1>2. 1..objects[h] \subseteq 1..MaxObjects
    BY <1>1, BoundAssumption
  <1> QED
    BY <1>2 DEF Found, Objects

(* An event is triggered: its fiber is scheduled, all others stay.         *)
LEMMA SoundTrigger ==
    ASSUME Sound, NEW o \in Objects, NEW E \in SUBSET events[o], E # {}, Trigger(o, E),
           UNCHANGED <<call, timer>>
    PROVE  /\ Placed' /\ OwnContext' /\ OnlyRead' /\ RegisteredAwaits' /\ Counted'
           /\ pc' \in [Fibers -> Places] /\ waiter' \in [Contexts -> Fibers \cup {None}]
           /\ events' \in [Objects -> SUBSET Events] /\ pending' \in Nat
           /\ slot' \in [Objects -> [Events -> Contexts \cup {None}]]
  <1>0. TypeOK /\ Placed /\ OwnContext
    BY DEF Sound
  <1>1. PICK f \in Fibers :
               /\ E = {"READ"} /\ "READ" \in events[o]
               /\ pc[f] \in Registered /\ call[f].ctx = slot[o]["READ"] /\ call[f].object = o
               /\ pc' = [pc EXCEPT ![f] = Scheduled(pc[f])]
               /\ waiter' = [waiter EXCEPT ![call[f].ctx] = None]
               /\ events' = [events EXCEPT ![o] = {}]
               /\ slot' = [slot EXCEPT ![o] = [e \in Events |-> IF e = "READ" THEN None ELSE @[e]]]
               /\ pending' = pending - 1
    BY Wakes
  <1>2. /\ Registrations' = Registrations \ {<<o, "READ">>} /\ Counted' /\ pending' \in Nat
        /\ OnlyRead' /\ events' \in [Objects -> SUBSET Events]
    BY <1>1, CountsOff
  <1>3. /\ pc'[f] \in {"hailed", "ready"} /\ \A g \in Fibers \ {f} : pc'[g] = pc[g]
        /\ pc' \in [Fibers -> Places] /\ waiter' \in [Contexts -> Fibers \cup {None}]
    BY <1>0, <1>1 DEF TypeOK, Scheduled
  <1>4. slot' \in [Objects -> [Events -> Contexts \cup {None}]]
    BY <1>0, <1>1 DEF TypeOK, Events
  <1>5. Placed' /\ OwnContext'
    BY <1>0, <1>1, <1>3 DEF Placed, OwnContext
  <1>6. RegisteredAwaits'
    <2> SUFFICES ASSUME NEW r \in Registrations'
                 PROVE  \E g \in Fibers : /\ pc'[g] \in Registered /\ call[g].ctx = slot'[r[1]][r[2]]
                                          /\ call[g].object = r[1] /\ waiter'[call[g].ctx] = g
      BY DEF RegisteredAwaits
    <2>1. r \in Registrations /\ r # <<o, "READ">>
      BY <1>2
    <2>2. PICK g \in Fibers : /\ pc[g] \in Registered /\ call[g].ctx = slot[r[1]][r[2]]
                              /\ call[g].object = r[1] /\ waiter[call[g].ctx] = g
      BY <2>1 DEF Sound, RegisteredAwaits
    <2>3. r[1] \in Objects /\ r = <<r[1], "READ">>
      BY <2>1, RegistrationIs DEF Sound
    <2>4. r[1] # o
      BY <2>1, <2>3
    <2>5. g # f /\ call[g].ctx # call[f].ctx
      BY <1>0, <1>1, <2>2, <2>4 DEF OwnContext
    <2>6. slot'[r[1]] = slot[r[1]] /\ waiter'[call[g].ctx] = waiter[call[g].ctx]
      BY <1>0, <1>1, <2>2, <2>3, <2>4, <2>5 DEF TypeOK, Placed
    <2> QED
      BY <1>3, <2>2, <2>5, <2>6
  <1> QED
    BY <1>2, <1>3, <1>4, <1>5, <1>6

LEMMA SoundCancelAll ==
    ASSUME Sound, NEW h \in Handles, CancelAll(h)
    PROVE  Sound'
  <1>0. TypeOK
    BY DEF Sound
  <1>1. /\ UNCHANGED <<call, timer, timedOut, cancels, length, key, port, world, hand, failed, tableVars>>
        /\ sock' \in [Handles -> {"open", "closing", "closed"}] /\ closes' \in 0..MaxCloses
    BY <1>0, BoundAssumption DEF CancelAll, TypeOK
  <1>2. PICK o \in Found(h) :
           IF o # None /\ events[o] # {}
           THEN /\ inflight' = inflight \ OperationsOn(h)
                /\ Lose(Owners(OperationsOn(h)), "closed")
                /\ Trigger(o, events[o])
           ELSE UNCHANGED <<inflight, pc, waiter, eventVars, loss>>
    BY DEF CancelAll
  <1>3. CASE o # None /\ events[o] # {}
    <2>1. o \in Objects /\ inflight' \subseteq inflight /\ Trigger(o, events[o])
          /\ Lose(Owners(OperationsOn(h)), "closed")
      BY <1>0, <1>2, <1>3, FoundTyped
    <2>2. /\ Placed' /\ OwnContext' /\ OnlyRead' /\ RegisteredAwaits' /\ Counted'
          /\ pc' \in [Fibers -> Places] /\ waiter' \in [Contexts -> Fibers \cup {None}]
          /\ events' \in [Objects -> SUBSET Events] /\ pending' \in Nat
          /\ slot' \in [Objects -> [Events -> Contexts \cup {None}]]
      BY <1>1, <1>3, <2>1, SoundTrigger
    <2>3. loss' \in [Fibers -> Losses \cup {None}]
      BY <1>0, <2>1, LossTyped DEF Losses
    <2>4. TypeOK'
      BY <1>0, <1>1, <2>1, <2>2, <2>3 DEF TypeOK, tableVars
    <2> QED
      BY <2>2, <2>4 DEF Sound
  <1>4. CASE ~(o # None /\ events[o] # {})
    <2>1. UNCHANGED <<inflight, pc, waiter, eventVars, loss>>
      BY <1>2, <1>4
    <2>2. TypeOK'
      BY <1>0, <1>1, <2>1 DEF TypeOK, tableVars, eventVars
    <2> QED
      BY <1>1, <2>1, <2>2, SoundAround
  <1> QED
    BY <1>3, <1>4

LEMMA SoundDeliver ==
    ASSUME Sound, NEW w \in Workers, Deliver(w)
    PROVE  Sound'
  <1> DEFINE p == hand[w]
  <1>0. TypeOK
    BY DEF Sound
  <1>1. /\ UNCHANGED <<call, timer, timedOut, cancels, world, closes, failed, tableVars, kernelVars>>
        /\ p # None
        /\ length' = [length EXCEPT ![p.ctx] = p.id]
        /\ hand' = [hand EXCEPT ![w] = None]
    BY DEF Deliver
  <1>2. p \in PacketType
    BY <1>0, <1>1 DEF TypeOK
  <1>3. p.key \in Objects /\ p.ctx \in Contexts /\ p.id \in Ids
    BY <1>2 DEF PacketType
  <1>4. /\ length' \in [Contexts -> Ids \cup {None}] /\ hand' \in [Workers -> PacketType \cup {None}]
        /\ loss' \in [Fibers -> Losses \cup {None}]
    <2>1. loss' = loss \/ Misses(p)
      BY DEF Deliver
    <2>2. loss' \in [Fibers -> Losses \cup {None}]
      BY <1>0, <2>1 DEF Misses, Losses, TypeOK
    <2> QED
      BY <1>0, <1>1, <1>3, <2>2 DEF TypeOK
  <1>5. CASE Hit(p) # {}
    <2>1. PICK e \in Hit(p) : Trigger(p.key, {e})
      BY <1>5 DEF Deliver
    <2>2. e \in events[p.key]
      BY <2>1 DEF Hit
    <2>3. /\ Placed' /\ OwnContext' /\ OnlyRead' /\ RegisteredAwaits' /\ Counted'
          /\ pc' \in [Fibers -> Places] /\ waiter' \in [Contexts -> Fibers \cup {None}]
          /\ events' \in [Objects -> SUBSET Events] /\ pending' \in Nat
          /\ slot' \in [Objects -> [Events -> Contexts \cup {None}]]
      BY <1>1, <1>3, <2>1, <2>2, SoundTrigger
    <2>4. TypeOK'
      BY <1>0, <1>1, <1>4, <2>3 DEF TypeOK, tableVars, kernelVars
    <2> QED
      BY <2>3, <2>4 DEF Sound
  <1>6. CASE Hit(p) = {}
    <2>1. UNCHANGED <<pc, waiter, eventVars>>
      BY <1>6 DEF Deliver
    <2>2. TypeOK'
      BY <1>0, <1>1, <1>4, <2>1 DEF TypeOK, tableVars, eventVars, kernelVars
    <2> QED
      BY <1>1, <2>1, <2>2, SoundAround
  <1> QED
    BY <1>5, <1>6

(* The steps of Next, by what they do to calls and registrations.          *)
LEMMA SoundNext == Sound /\ [Next]_vars => Sound'
  <1> SUFFICES ASSUME Sound, [Next]_vars PROVE Sound'
    OBVIOUS
  <1>0. TypeOK
    BY DEF Sound
  <1>1. ASSUME NEW f \in Fibers, FiberStep(f) PROVE Sound'
    BY <1>1, SoundIssue, SoundFind, SoundAdd, SoundSuspend, SoundLeave DEF FiberStep
  <1>2. ASSUME NEW f \in Fibers, NEW h \in Handles, NEW kind \in Kinds, NEW c \in Contexts,
               Begin(f, h, kind, c)
        PROVE  Sound'
    BY <1>2, SoundBegin
  <1>3. ASSUME NEW x \in cancels, TimerCancels(x) PROVE Sound'
    <2>1. x.handle \in Handles
      BY <1>0 DEF TypeOK
    <2>2. PICK o \in Found(x.handle) :
             IF IsRegistered(o, x.event) THEN CancelEvent(o, x.event) ELSE UNCHANGED <<inflight, eventVars, loss>>
      BY <1>3 DEF TimerCancels
    <2>3. /\ UNCHANGED <<pc, call, timer, timedOut, sock, key, port, memoryVars, tableVars, restVars>>
          /\ cancels' \subseteq cancels
      BY <1>3 DEF TimerCancels
    <2>4. o = None \/ o \in Objects
      BY <1>0, <2>1, FoundTyped
    <2> QED
      BY <2>2, <2>3, <2>4, SoundCancel
  <1>4. CASE TimerStep
    BY <1>3, <1>4, SoundTimer DEF TimerStep
  <1>5. ASSUME NEW h \in Handles, NEW e \in Events, SocketCancels(h, e) PROVE Sound'
    <2>1. PICK o \in Found(h) : IsRegistered(o, e) /\ CancelEvent(o, e)
      BY <1>5 DEF SocketCancels
    <2>2. /\ UNCHANGED <<pc, call, timer, timedOut, sock, key, port, memoryVars, tableVars, restVars>>
          /\ cancels' \subseteq cancels
      BY <1>5 DEF SocketCancels, callVars
    <2>3. o = None \/ o \in Objects
      BY <1>0, FoundTyped
    <2> QED
      BY <2>1, <2>2, <2>3, SoundCancel
  <1>6. ASSUME NEW h \in Handles, CloseStep(h) PROVE Sound'
    BY <1>6, SoundCancelAll, SoundKernel DEF CloseStep
  <1>7. ASSUME NEW w \in Workers, WorkerStep(w) PROVE Sound'
    BY <1>7, SoundDeliver, SoundKernel DEF WorkerStep
  <1> QED
    BY <1>1, <1>2, <1>4, <1>5, <1>6, <1>7, SoundKernel DEF Next

(* Types, for every set of fibers, descriptors and workers.                *)
THEOREM TypeCorrect == Spec => []TypeOK
  <1>1. Sound => TypeOK
    BY DEF Sound
  <1> QED
    BY <1>1, SoundInit, SoundNext, PTL DEF Spec

(* m_pendingEventCount, which stopping() asks, is the number of registered
   events.                                                                 *)
THEOREM PendingIsExact == Spec => []PendingExact
  <1>1. Sound => PendingExact
    BY DEF Sound, Counted
  <1> QED
    BY <1>1, SoundInit, SoundNext, PTL DEF Spec

(* What is registered belongs to a fiber that is in the call that has
   registered it, and has not been scheduled.                              *)
THEOREM OnlyWaitersAreWoken == Spec => []RegisteredAwaits
  <1>1. Sound => RegisteredAwaits
    BY DEF Sound
  <1> QED
    BY <1>1, SoundInit, SoundNext, PTL DEF Spec

-----------------------------------------------------------------------------
(* What is left of a call in the kernel, in the port and in the hands of the
   workers.                                                                *)
Traces == inflight \cup port \cup InHand

Caller(i) == i.id[1]
IsOfLast(i) == i.id[2] = call[Caller(i)].n

(* Traces are of calls that have been made; those of a fiber's last call have
   its address and descriptor.                                             *)
Known ==
    /\ \A i \in Traces : /\ i.id[2] <= call[Caller(i)].n
                         /\ IsOfLast(i) => i.ctx = call[Caller(i)].ctx
    /\ \A i \in inflight : IsOfLast(i) => i.handle = call[Caller(i)].handle

LEMMA TraceTyped ==
    ASSUME TypeOK, NEW i \in Traces
    PROVE  /\ i.id \in Ids /\ i.ctx \in Contexts /\ Caller(i) \in Fibers /\ i.id[2] \in 1..MaxCalls
           /\ i.id = <<Caller(i), i.id[2]>>
           /\ IsOfLast(i) <=> i.id = Id(Caller(i))
  <1>1. i \in OperationType \cup PacketType
    BY DEF TypeOK, Traces, InHand
  <1>2. i.id \in Ids /\ i.ctx \in Contexts
    BY <1>1 DEF OperationType, PacketType
  <1> QED
    BY <1>2 DEF Ids, Caller, IsOfLast, Id

LEMMA CallNumbers == ASSUME TypeOK, NEW f \in Fibers PROVE call[f].n \in Nat
  BY BoundAssumption DEF TypeOK, CallType

(* A step that adds no trace, and changes of a call at most its object.    *)
LEMMA KnownStay ==
    ASSUME TypeOK, Known, Traces' \subseteq Traces, inflight' \subseteq inflight,
           \A f \in Fibers : /\ call'[f].n = call[f].n /\ call'[f].ctx = call[f].ctx
                             /\ call'[f].handle = call[f].handle
    PROVE  Known'
  <1>1. inflight \subseteq Traces
    BY DEF Traces
  <1> QED
    BY <1>1, TraceTyped DEF Known, IsOfLast, Caller

LEMMA ObjectFound ==
    ASSUME TypeOK, NEW f \in Fibers, FindContext(f) \/ MakeContext(f)
    PROVE  \A g \in Fibers : /\ call'[g].n = call[g].n /\ call'[g].ctx = call[g].ctx
                             /\ call'[g].handle = call[g].handle
                             /\ g # f => call'[g] = call[g]
  <1>1. call \in [Fibers -> CallType]
    BY DEF TypeOK
  <1>2. \/ call' = call
        \/ call' = [call EXCEPT ![f].object = table[call[f].handle]]
        \/ \E o : call' = [call EXCEPT ![f].object = o, ![f].isNew = TRUE]
    BY DEF FindContext, MakeContext
  <1>3. CASE call' = call
    BY <1>3
  <1>4. CASE call' = [call EXCEPT ![f].object = table[call[f].handle]]
    BY <1>1, <1>4 DEF CallType
  <1>5. ASSUME NEW o, call' = [call EXCEPT ![f].object = o, ![f].isNew = TRUE]
        PROVE  \A g \in Fibers : /\ call'[g].n = call[g].n /\ call'[g].ctx = call[g].ctx
                                 /\ call'[g].handle = call[g].handle
                                 /\ g # f => call'[g] = call[g]
    <2>1. call'[f] = [call[f] EXCEPT !.object = o, !.isNew = TRUE]
      BY <1>1, <1>5
    <2>2. \A g \in Fibers \ {f} : call'[g] = call[g]
      BY <1>1, <1>5
    <2>3. call[f] \in CallType
      BY <1>1
    <2> QED
      BY ZenonT(60), <2>1, <2>2, <2>3 DEF CallType
  <1> QED
    BY <1>2, <1>3, <1>4, <1>5

LEMMA KnownNext == Sound /\ Known /\ [Next]_vars => Known'
  <1> SUFFICES ASSUME Sound, Known, [Next]_vars PROVE Known'
    OBVIOUS
  <1>0. TypeOK /\ Placed
    BY DEF Sound
  <1>a. ASSUME UNCHANGED <<call, port, hand>>, inflight' \subseteq inflight PROVE Known'
    <2>1. Traces' \subseteq Traces
      BY <1>a DEF Traces, InHand
    <2> QED
      BY <1>0, <1>a, <2>1, KnownStay
  <1>1. ASSUME NEW f \in Fibers, NEW h \in Handles, NEW kind \in Kinds, NEW c \in Contexts,
               Begin(f, h, kind, c)
        PROVE  Known'
    <2>1. Traces' = Traces /\ inflight' = inflight
      BY <1>1 DEF Begin, kernelVars, restVars, Traces, InHand
    <2>2. call'[f].n = call[f].n + 1 /\ \A g \in Fibers \ {f} : call'[g] = call[g]
      BY <1>0, <1>1 DEF Begin, TypeOK, CallType
    <2>3. ASSUME NEW i \in Traces
          PROVE  /\ i.id[2] <= call'[Caller(i)].n
                 /\ i.id[2] = call'[Caller(i)].n => Caller(i) # f
      BY <1>0, <2>2, CallNumbers, TraceTyped DEF Known
    <2>4. inflight \subseteq Traces
      BY DEF Traces
    <2> QED
      BY <1>0, <2>1, <2>2, <2>3, <2>4, TraceTyped DEF Known, IsOfLast, Caller
  <1>2. ASSUME NEW f \in Fibers, IssueSucceeds(f) \/ IssuePending(f) PROVE Known'
    <2>1. call' = call /\ hand' = hand /\ call[f].ctx = call'[f].ctx
      BY <1>2 DEF IssueSucceeds, IssuePending, restVars
    <2>2. ASSUME NEW i \in Traces', i \notin Traces
          PROVE  i.id = Id(f) /\ i.ctx = call[f].ctx
      BY <1>2, <2>1, <2>2 DEF Traces, InHand, IssueSucceeds, IssuePending, Packet
    <2>3. ASSUME NEW i \in inflight', i \notin inflight
          PROVE  i.id = Id(f) /\ i.handle = call[f].handle
      BY <1>2, <2>3 DEF IssueSucceeds, IssuePending
    <2>4. \A i : i.id = Id(f) => Caller(i) = f /\ i.id[2] = call[f].n
      BY DEF Caller, Id
    <2> QED
      BY <1>0, <2>1, <2>2, <2>3, <2>4, CallNumbers DEF Known, IsOfLast, Caller
  <1>3. ASSUME NEW f \in Fibers, FindContext(f) \/ MakeContext(f) PROVE Known'
    <2>1. Traces' = Traces /\ inflight' = inflight
      BY <1>3 DEF FindContext, MakeContext, kernelVars, restVars, Traces, InHand
    <2>2. \A g \in Fibers : /\ call'[g].n = call[g].n /\ call'[g].ctx = call[g].ctx
                            /\ call'[g].handle = call[g].handle
      BY <1>0, <1>3, ObjectFound
    <2> QED
      BY <1>0, <2>1, <2>2, KnownStay
  <1>4. ASSUME NEW f \in Fibers,
               \/ IssueFails(f) \/ AddTimer(f) \/ AddEvent(f) \/ AddEventFails(f)
               \/ Suspend(f) \/ Resume(f) \/ Return(f)
        PROVE  Known'
    BY <1>4, <1>a DEF IssueFails, AddTimer, AddEvent, AddEventFails, Suspend, Resume, Return, kernelVars,
       restVars
  <1>5. CASE TimerStep
    BY <1>5, <1>a DEF TimerStep, TimerExpires, TimerFires, TimerCancels, CancelEvent, kernelVars, restVars
  <1>6. ASSUME NEW h \in Handles, NEW e \in Events, SocketCancels(h, e) PROVE Known'
    BY <1>6, <1>a DEF SocketCancels, CancelEvent, callVars, restVars
  <1>6a. ASSUME NEW i \in inflight, Fail(i) PROVE Known'
    BY <1>6a, <1>a DEF Fail, callVars, restVars
  <1>7. ASSUME NEW h \in Handles, CloseStep(h) PROVE Known'
    <2>1. UNCHANGED <<call, port, hand>> /\ inflight' \subseteq inflight
      BY <1>7 DEF CloseStep, CancelAll, CloseSocket, Reopen, callVars, restVars
    <2> QED
      BY <2>1, <1>a
  <1>8. ASSUME NEW i \in inflight, Complete(i) PROVE Known'
    <2>1. call' = call /\ hand' = hand /\ inflight' \subseteq inflight
          /\ port' = port \cup Packet(i.handle, i.ctx, i.id)
      BY <1>8 DEF Complete, callVars, restVars
    <2>2. \A p \in Traces' : p \in Traces \/ (p.id = i.id /\ p.ctx = i.ctx)
      BY <2>1 DEF Traces, InHand, Packet
    <2>3. i \in Traces
      BY DEF Traces
    <2> QED
      BY <2>1, <2>2, <2>3 DEF Known, IsOfLast, Caller
  <1>9. ASSUME NEW w \in Workers, NEW p \in port, Take(w, p) PROVE Known'
    <2>1. Traces' \subseteq Traces /\ inflight' = inflight /\ call' = call
      BY <1>0, <1>9 DEF Take, Traces, InHand, callVars, TypeOK
    <2> QED
      BY <1>0, <2>1, KnownStay
  <1>10. ASSUME NEW w \in Workers, Deliver(w) PROVE Known'
    <2>1. Traces' \subseteq Traces /\ inflight' = inflight /\ call' = call
      BY <1>0, <1>10 DEF Deliver, Traces, InHand, kernelVars, TypeOK
    <2> QED
      BY <1>0, <2>1, KnownStay
  <1>11. CASE UNCHANGED vars
    BY <1>11, <1>a DEF vars
  <1> QED
    BY <1>1, <1>2, <1>3, <1>4, <1>5, <1>6, <1>6a, <1>7, <1>8, <1>9, <1>10, <1>11
       DEF Next, FiberStep, WorkerStep

LEMMA KnownInit == Init => Known
  BY DEF Init, Known, Traces, InHand

-----------------------------------------------------------------------------
(* What a world rules out by leaving something out of env.                 *)
AllOpen == \A h \in Handles : sock[h] = "open"

Timeless == cancels = {} /\ \A f \in Fibers : timer[f] = "none" /\ pc[f] # "timer"

Packets == port \cup InHand

(* Without early completions no packet comes before the registration.      *)
Late == \A f \in Fibers : pc[f] \in Unregistered => \A p \in Packets : p.id # Id(f)

(* Without closes a descriptor that is associated stays so, and packets go to
   the FdContext that its calls register with.                             *)
Fixed ==
    /\ \A h \in Handles : table[h] = <<h, 1>> /\ key[h] = <<h, 1>>
    /\ \A f \in Fibers :
        /\ pc[f] # "make"
        /\ pc[f] \in {"add"} \cup Registered => call[f].object = <<call[f].handle, 1>>
    /\ \A p \in Packets : IsOfLast(p) => p.key = <<call[Caller(p)].handle, 1>>

(* Nothing is left of an operation that has not been issued yet.           *)
Fresh == \A f \in Fibers : pc[f] = "issue" => \A i \in Traces : i.id # Id(f)

Ruled ==
    /\ Fresh
    /\ "close" \notin world.env => AllOpen
    /\ "timeout" \notin world.env => Timeless
    /\ "early" \notin world.env => Late
    /\ "close" \notin world.env /\ world.warm = Handles => Fixed

LEMMA WorldStays == [Next]_vars => world' = world /\ Causes' = Causes
  <1>1. [Next]_vars => world' = world
    BY DEF Next, vars, FiberStep, TimerStep, CloseStep, WorkerStep, Begin, IssueFails, IssueSucceeds,
       IssuePending, AddTimer, FindContext, MakeContext, AddEvent, AddEventFails, Suspend, Resume, Return,
       TimerExpires, TimerFires, TimerCancels, SocketCancels, CancelAll, CloseSocket, Reopen, Complete,
       Fail, Take, Deliver, restVars
  <1> QED
    BY <1>1 DEF Causes

LEMMA RuledInit == Init => Ruled
  <1>1. ASSUME Init, world.warm = Handles PROVE Fixed
    BY <1>1 DEF Init, Fixed, Packets, InHand
  <1> QED
    BY <1>1 DEF Init, Ruled, Fresh, AllOpen, Timeless, Late, Packets, Traces, InHand

LEMMA OpenNext ==
    ASSUME "close" \notin world.env, AllOpen, [Next]_vars
    PROVE  AllOpen' /\ \A h \in Handles : ~CloseStep(h)
  <1>1. \A h \in Handles : ~CloseStep(h)
    BY DEF AllOpen, CloseStep, CancelAll, CloseSocket, Reopen
  <1>2. sock' = sock
    BY <1>1 DEF Next, vars, FiberStep, TimerStep, WorkerStep, Begin, IssueFails, IssueSucceeds, IssuePending,
       AddTimer, FindContext, MakeContext, AddEvent, AddEventFails, Suspend, Resume, Return, TimerExpires,
       TimerFires, TimerCancels, SocketCancels, Complete, Fail, Take, Deliver, kernelVars, restVars
  <1> QED
    BY <1>1, <1>2 DEF AllOpen

(* Which packets are new, and where fibers come from that are on their way. *)
LEMMA NewTraces ==
    ASSUME Sound, [Next]_vars
    PROVE  \/ Traces' \subseteq Traces /\ Packets' \subseteq Packets
           \/ \E f \in Fibers :
                /\ pc[f] = "issue" /\ pc'[f] # "issue"
                /\ pc'[f] = "none" \/ Packets' \subseteq Packets
                /\ \A t \in Traces' \cup Packets' : (t \in Traces /\ (t \in Packets' => t \in Packets)) \/ t.id = Id(f)
           \/ \E i \in inflight :
                /\ Complete(i)
                /\ \A t \in Traces' : \E u \in Traces : t.id = u.id
                /\ \A p \in Packets' : p \in Packets \/ p.id = i.id
  <1>0. TypeOK
    BY DEF Sound
  <1>a. ASSUME port' \subseteq port, hand' = hand, inflight' \subseteq inflight
        PROVE  Traces' \subseteq Traces /\ Packets' \subseteq Packets
    BY <1>a DEF Traces, Packets, InHand
  <1>1. ASSUME NEW f \in Fibers, NEW h \in Handles, NEW kind \in Kinds, NEW c \in Contexts,
               Begin(f, h, kind, c)
        PROVE  Traces' \subseteq Traces /\ Packets' \subseteq Packets
    BY <1>1, <1>a DEF Begin, kernelVars, restVars
  <1>2. ASSUME NEW f \in Fibers, IssueSucceeds(f) \/ IssuePending(f)
        PROVE  /\ pc[f] = "issue" /\ pc'[f] # "issue"
               /\ pc'[f] = "none" \/ Packets' \subseteq Packets
               /\ \A t \in Traces' \cup Packets' : (t \in Traces /\ (t \in Packets' => t \in Packets)) \/ t.id = Id(f)
    <2>1. CASE IssueSucceeds(f)
      <3>1. /\ pc[f] = "issue" /\ Goto(f, "none") /\ hand' = hand /\ inflight' = inflight
            /\ port' = port \cup Packet(call[f].handle, call[f].ctx, Id(f))
        BY <2>1 DEF IssueSucceeds, restVars
      <3>2. \A p \in Packet(call[f].handle, call[f].ctx, Id(f)) : p.id = Id(f)
        BY DEF Packet
      <3> QED
        BY <1>0, <3>1, <3>2, OneMoves DEF Traces, Packets, InHand
    <2>2. CASE IssuePending(f)
      <3> DEFINE new == [handle |-> call[f].handle, ctx |-> call[f].ctx, id |-> Id(f)]
      <3>1. /\ pc[f] = "issue" /\ hand' = hand /\ port' = port /\ inflight' = inflight \cup {new}
            /\ new.id = Id(f)
        BY <2>2 DEF IssuePending, restVars
      <3> HIDE DEF new
      <3>2. PICK l \in {"timer", "find"} : Goto(f, l)
        BY <2>2 DEF IssuePending
      <3>3. pc'[f] # "issue"
        BY <1>0, <3>2, OneMoves
      <3> QED
        BY <3>1, <3>3 DEF Traces, Packets, InHand
    <2> QED
      BY <1>2, <2>1, <2>2
  <1>3. ASSUME NEW f \in Fibers,
               \/ IssueFails(f) \/ AddTimer(f) \/ FindContext(f) \/ MakeContext(f) \/ AddEvent(f)
               \/ AddEventFails(f) \/ Suspend(f) \/ Resume(f) \/ Return(f)
        PROVE  Traces' \subseteq Traces /\ Packets' \subseteq Packets
    BY <1>3, <1>a DEF IssueFails, AddTimer, FindContext, MakeContext, AddEvent, AddEventFails, Suspend, Resume,
       Return, kernelVars, restVars
  <1>4. ASSUME TimerStep \/ \E h \in Handles, e \in Events : SocketCancels(h, e)
        PROVE  Traces' \subseteq Traces /\ Packets' \subseteq Packets
    BY <1>4, <1>a DEF TimerStep, TimerExpires, TimerFires, TimerCancels, SocketCancels, CancelEvent, kernelVars,
       restVars
  <1>5. ASSUME NEW h \in Handles, CloseStep(h)
        PROVE  Traces' \subseteq Traces /\ Packets' \subseteq Packets
    BY <1>5, <1>a DEF CloseStep, CancelAll, CloseSocket, Reopen, restVars
  <1>6. ASSUME NEW i \in inflight, Complete(i)
        PROVE  /\ \A t \in Traces' : \E u \in Traces : t.id = u.id
               /\ \A p \in Packets' : p \in Packets \/ p.id = i.id
    <2>1. hand' = hand /\ inflight' \subseteq inflight /\ port' = port \cup Packet(i.handle, i.ctx, i.id)
      BY <1>6 DEF Complete, restVars
    <2>2. \A p \in Packet(i.handle, i.ctx, i.id) : p.id = i.id
      BY DEF Packet
    <2> QED
      BY <2>1, <2>2 DEF Traces, Packets, InHand
  <1>7. ASSUME NEW i \in inflight, Fail(i)
        PROVE  Traces' \subseteq Traces /\ Packets' \subseteq Packets
    BY <1>7, <1>a DEF Fail, restVars
  <1>8. ASSUME NEW w \in Workers, WorkerStep(w)
        PROVE  Traces' \subseteq Traces /\ Packets' \subseteq Packets
    <2>1. ASSUME NEW p \in port, Take(w, p)
          PROVE  Traces' \subseteq Traces /\ Packets' \subseteq Packets
      BY <1>0, <2>1 DEF Take, Traces, Packets, InHand, TypeOK
    <2>2. CASE Deliver(w)
      BY <1>0, <2>2 DEF Deliver, Traces, Packets, InHand, kernelVars, TypeOK
    <2> QED
      BY <1>8, <2>1, <2>2 DEF WorkerStep
  <1>9. CASE UNCHANGED vars
    BY <1>9, <1>a DEF vars
  <1> QED
    BY <1>1, <1>2, <1>3, <1>4, <1>5, <1>6, <1>7, <1>8, <1>9 DEF Next, FiberStep

(* A fiber that is triggered was registered.                               *)
LEMMA TriggeredMove ==
    ASSUME Sound, NEW o \in Objects, NEW E \in SUBSET events[o], E # {}, Trigger(o, E)
    PROVE  \A f \in Fibers : pc'[f] # pc[f] => pc[f] \in Registered /\ pc'[f] \in {"hailed", "ready"}
  <1>1. PICK f \in Fibers : pc[f] \in Registered /\ pc' = [pc EXCEPT ![f] = Scheduled(pc[f])]
    BY Wakes
  <1> QED
    BY <1>1 DEF Sound, TypeOK, Scheduled

LEMMA DeliveredMove ==
    ASSUME Sound, NEW w \in Workers, Deliver(w)
    PROVE  \A f \in Fibers : pc'[f] # pc[f] => pc[f] \in Registered /\ pc'[f] \in {"hailed", "ready"}
  <1>1. CASE Hit(hand[w]) = {}
    BY <1>1 DEF Deliver
  <1>2. CASE Hit(hand[w]) # {}
    <2>1. PICK e \in Hit(hand[w]) : Trigger(hand[w].key, {e})
      BY <1>2 DEF Deliver
    <2>2. {e} \in SUBSET events[hand[w].key] /\ {e} # {}
      BY <2>1 DEF Hit
    <2>3. hand[w].key \in Objects
      BY DEF Sound, TypeOK, PacketType, Deliver
    <2> QED
      BY <2>1, <2>2, <2>3, TriggeredMove
  <1> QED
    BY <1>1, <1>2

LEMMA CancelledMove ==
    ASSUME Sound, NEW h \in Handles, CancelAll(h)
    PROVE  \A f \in Fibers : pc'[f] # pc[f] => pc[f] \in Registered /\ pc'[f] \in {"hailed", "ready"}
  <1>1. PICK o \in Found(h) :
           IF o # None /\ events[o] # {} THEN Trigger(o, events[o]) ELSE UNCHANGED pc
    BY DEF CancelAll
  <1>2. o = None \/ o \in Objects
    BY FoundTyped DEF Sound
  <1> QED
    BY <1>1, <1>2, TriggeredMove

(* Where the steps of Next take a fiber.                                   *)
LEMMA Moves ==
    ASSUME Sound, [Next]_vars, NEW f \in Fibers
    PROVE  /\ pc'[f] = "issue" =>
                 (pc[f] = "issue" /\ call'[f] = call[f]) \/ call'[f].n = call[f].n + 1
           /\ pc'[f] \in Unregistered =>
                 (pc[f] = "issue" \/ pc[f] \in Unregistered) /\ Id(f)' = Id(f)
           /\ pc'[f] = "timer" => pc[f] = "timer" \/ "timeout" \in world.env
  <1>0. TypeOK
    BY DEF Sound
  <1> DEFINE Moved ==
           /\ pc'[f] = "issue" =>
                 (pc[f] = "issue" /\ call'[f] = call[f]) \/ call'[f].n = call[f].n + 1
           /\ pc'[f] \in Unregistered =>
                 (pc[f] = "issue" \/ pc[f] \in Unregistered) /\ Id(f)' = Id(f)
           /\ pc'[f] = "timer" => pc[f] = "timer" \/ "timeout" \in world.env
  <1>a. ASSUME call' = call, pc'[f] # pc[f] => pc'[f] \notin {"issue"} \cup Unregistered PROVE Moved
    BY <1>a DEF Id
  <1>b. ASSUME call'[f] = call[f], pc'[f] = pc[f] PROVE Moved
    BY <1>b DEF Id
  <1>1. ASSUME NEW g \in Fibers, NEW h \in Handles, NEW kind \in Kinds, NEW c \in Contexts,
               Begin(g, h, kind, c)
        PROVE  Moved
    <2>1. /\ pc'[g] = "issue" /\ call'[g].n = call[g].n + 1
          /\ \A x \in Fibers \ {g} : pc'[x] = pc[x] /\ call'[x] = call[x]
      BY <1>0, <1>1, OneMoves DEF Begin, TypeOK, CallType
    <2>2. CASE f = g
      BY <2>1, <2>2
    <2>3. CASE f # g
      BY <2>1, <2>3, <1>b
    <2> QED
      BY <2>2, <2>3
  <1>2. ASSUME NEW g \in Fibers, IssuePending(g) PROVE Moved
    <2>1. call' = call /\ pc[g] = "issue"
      BY <1>2 DEF IssuePending
    <2>2. PICK l \in {"timer", "find"} : Goto(g, l) /\ (l = "timer" => "timeout" \in world.env)
      BY <1>2 DEF IssuePending
    <2>3. pc'[g] = l /\ \A x \in Fibers \ {g} : pc'[x] = pc[x]
      BY <1>0, <2>2, OneMoves
    <2> QED
      BY <2>1, <2>2, <2>3 DEF Id
  <1>3. ASSUME NEW g \in Fibers, AddTimer(g) \/ FindContext(g) \/ MakeContext(g) PROVE Moved
    <2>1. pc[g] \in Unregistered
      BY <1>3 DEF AddTimer, FindContext, MakeContext
    <2>2. PICK l \in {"find", "make", "add"} : Goto(g, l)
      BY <1>3 DEF AddTimer, FindContext, MakeContext
    <2>3. \A x \in Fibers : call'[x].n = call[x].n /\ (x # g => call'[x] = call[x])
      BY <1>0, <1>3, ObjectFound DEF AddTimer
    <2>4. pc'[g] = l /\ \A x \in Fibers \ {g} : pc'[x] = pc[x]
      BY <1>0, <2>2, OneMoves
    <2> QED
      BY <2>1, <2>3, <2>4 DEF Id
  <1>4. ASSUME NEW g \in Fibers,
               \/ IssueFails(g) \/ IssueSucceeds(g) \/ AddEvent(g) \/ AddEventFails(g)
               \/ Suspend(g) \/ Resume(g) \/ Return(g)
        PROVE  Moved
    <2>1. call' = call
      BY <1>4 DEF IssueFails, IssueSucceeds, AddEvent, AddEventFails, Suspend, Resume, Return
    <2>2. PICK l \in {"none", "added", "dead", "held", "ready", "leave"} : Goto(g, l)
      BY <1>4 DEF IssueFails, IssueSucceeds, AddEvent, AddEventFails, Suspend, Resume, Return
    <2>3. pc'[g] = l /\ \A x \in Fibers \ {g} : pc'[x] = pc[x]
      BY <1>0, <2>2, OneMoves
    <2> QED
      BY <1>a, <2>1, <2>3
  <1>5. ASSUME \/ TimerStep
               \/ \E h \in Handles, e \in Events : SocketCancels(h, e)
               \/ \E h \in Handles : CloseSocket(h) \/ Reopen(h)
               \/ \E i \in inflight : Complete(i) \/ Fail(i)
               \/ \E w \in Workers, p \in port : Take(w, p)
               \/ UNCHANGED vars
        PROVE  Moved
    <2>1. UNCHANGED <<pc, call>>
      BY <1>5 DEF TimerStep, TimerExpires, TimerFires, TimerCancels, SocketCancels, CloseSocket, Reopen, Complete,
         Fail, Take, vars, callVars
    <2> QED
      BY <1>b, <2>1
  <1>6. ASSUME NEW h \in Handles, CancelAll(h) PROVE Moved
    <2>1. call' = call
      BY <1>6 DEF CancelAll
    <2> QED
      BY <1>6, <1>a, <2>1, CancelledMove
  <1>7. ASSUME NEW w \in Workers, Deliver(w) PROVE Moved
    <2>1. call' = call
      BY <1>7 DEF Deliver
    <2> QED
      BY <1>7, <1>a, <2>1, DeliveredMove
  <1> HIDE DEF Moved
  <1>8. Moved
    BY <1>1, <1>2, <1>3, <1>4, <1>5, <1>6, <1>7 DEF Next, FiberStep, CloseStep, WorkerStep
  <1> QED
    BY <1>8 DEF Moved

LEMMA FreshNext ==
    ASSUME Sound, Known, Fresh, [Next]_vars
    PROVE  Fresh'
  <1>0. TypeOK
    BY DEF Sound
  <1> SUFFICES ASSUME NEW f \in Fibers, pc'[f] = "issue", NEW t \in Traces', t.id = Id(f)'
               PROVE  FALSE
    BY DEF Fresh
  <1>1. (pc[f] = "issue" /\ Id(f)' = Id(f)) \/ Id(f)' = <<f, call[f].n + 1>>
    BY Moves DEF Id
  <1>2. (\E u \in Traces : u.id = t.id) \/ \E g \in Fibers : t.id = Id(g) /\ pc'[g] # "issue"
    BY NewTraces
  <1>3. ASSUME NEW u \in Traces, u.id = t.id PROVE FALSE
    <2>1. u.id[2] <= call[Caller(u)].n /\ Caller(u) \in Fibers
      BY <1>0, TraceTyped DEF Known
    <2>2. CASE pc[f] = "issue" /\ Id(f)' = Id(f)
      BY <1>3, <2>2 DEF Fresh
    <2>3. CASE Id(f)' = <<f, call[f].n + 1>>
      <3>1. Caller(u) = f /\ u.id[2] = call[f].n + 1
        BY <1>3, <2>3 DEF Caller
      <3> QED
        BY <1>0, <2>1, <3>1, CallNumbers
    <2> QED
      BY <1>1, <2>2, <2>3
  <1>4. ASSUME NEW g \in Fibers, t.id = Id(g), pc'[g] # "issue" PROVE FALSE
    <2>1. g # f
      BY <1>4
    <2> QED
      BY <1>4, <2>1 DEF Id
  <1> QED
    BY <1>2, <1>3, <1>4

LEMMA LateNext ==
    ASSUME Sound, Known, Fresh, Late, "early" \notin world.env, [Next]_vars
    PROVE  Late'
  <1>0. TypeOK /\ Packets \subseteq Traces
    BY DEF Sound, Packets, Traces
  <1> SUFFICES ASSUME NEW f \in Fibers, pc'[f] \in Unregistered, NEW p \in Packets', p.id = Id(f)'
               PROVE  FALSE
    BY DEF Late
  <1>1. (pc[f] = "issue" \/ pc[f] \in Unregistered) /\ Id(f)' = Id(f)
    BY Moves
  <1>2. p \notin Packets
    BY <1>0, <1>1 DEF Late, Fresh
  <1>3. ASSUME NEW g \in Fibers, pc[g] = "issue", pc'[g] = "none" \/ Packets' \subseteq Packets, p.id = Id(g)
        PROVE  FALSE
    BY <1>1, <1>2, <1>3 DEF Id
  <1>4. ASSUME NEW i \in inflight, Complete(i), p.id = i.id
        PROVE  FALSE
    <2>1. pc' = pc
      BY <1>4 DEF Complete, callVars
    <2>2. f \in Owners({i})
      BY <1>1, <1>4, <2>1 DEF Owners
    <2>3. pc[f] \in Registered
      BY <1>4, <2>2 DEF Complete
    <2> QED
      BY <2>1, <2>3
  <1> QED
    BY <1>2, <1>3, <1>4, NewTraces

LEMMA TimelessNext ==
    ASSUME Sound, Timeless, "timeout" \notin world.env, [Next]_vars
    PROVE  Timeless'
  <1>0. TypeOK
    BY DEF Sound
  <1>1. \A f \in Fibers : ~AddTimer(f) /\ ~TimerExpires(f) /\ ~TimerFires(f)
    BY DEF Timeless, AddTimer, TimerExpires, TimerFires
  <1>2. ~TimerStep
    BY <1>1 DEF TimerStep, Timeless
  <1>3. cancels' = cancels
    BY <1>1, <1>2 DEF Next, vars, FiberStep, CloseStep, WorkerStep, Begin, IssueFails, IssueSucceeds,
       IssuePending, FindContext, MakeContext, AddEvent, AddEventFails, Suspend, Resume, Return,
       SocketCancels, CancelAll, CloseSocket, Reopen, Complete, Fail, Take, Deliver, callVars
  <1>4. ASSUME NEW f \in Fibers, Resume(f) \/ Return(f)
        PROVE  \A g \in Fibers : timer'[g] = "none"
    BY <1>0, <1>4 DEF Timeless, Resume, Return, TypeOK
  <1>5. timer' = timer \/ \A g \in Fibers : timer'[g] = "none"
    BY <1>1, <1>2, <1>4 DEF Next, vars, FiberStep, CloseStep, WorkerStep, Begin, IssueFails, IssueSucceeds,
       IssuePending, FindContext, MakeContext, AddEvent, AddEventFails, Suspend,
       SocketCancels, CancelAll, CloseSocket, Reopen, Complete, Fail, Take, Deliver, callVars
  <1>6. \A f \in Fibers : pc'[f] # "timer"
    BY Moves DEF Timeless
  <1> QED
    BY <1>3, <1>5, <1>6 DEF Timeless

(* Without closes: a call finds the FdContext that is there, and packets are
   sent to it.                                                             *)
LEMMA FixedNext ==
    ASSUME Sound, Known, Fixed, AllOpen, "close" \notin world.env, [Next]_vars
    PROVE  Fixed'
  <1>0. TypeOK /\ Placed /\ Packets \subseteq Traces
    BY DEF Sound, Packets, Traces
  <1>h. \A h \in Handles : <<h, 1>> \in Objects /\ <<h, 1>> # None
    BY BoundAssumption, NoneAssumption DEF Objects
  (* The table, the objects of calls and the packets. *)
  <1>a. ASSUME UNCHANGED <<table, key>>, Packets' \subseteq Packets,
               \A f \in Fibers :
                   /\ call'[f].n = call[f].n /\ call'[f].handle = call[f].handle
                   /\ pc'[f] # "make"
                   /\ pc'[f] \in {"add"} \cup Registered => call'[f].object = <<call[f].handle, 1>>
        PROVE  Fixed'
    <2>1. \A p \in Packets' : p \in Packets /\ Caller(p) \in Fibers
      BY <1>0, <1>a, TraceTyped
    <2> QED
      BY <1>a, <2>1 DEF Fixed, IsOfLast, Caller
  <1>b. ASSUME UNCHANGED <<table, key, call>>, Packets' \subseteq Packets,
               \A f \in Fibers : pc'[f] # pc[f] =>
                   pc[f] \in {"add"} \cup Registered \/ pc'[f] \notin {"make", "add"} \cup Registered,
               \A f \in Fibers : pc'[f] # "make"
        PROVE  Fixed'
    BY <1>a, <1>b DEF Fixed
  <1>1. ASSUME NEW f \in Fibers, NEW h \in Handles, NEW kind \in Kinds, NEW c \in Contexts,
               Begin(f, h, kind, c)
        PROVE  Fixed'
    <2>1. /\ UNCHANGED <<table, key>> /\ Packets' = Packets /\ pc'[f] = "issue" /\ call'[f].n = call[f].n + 1
          /\ \A g \in Fibers \ {f} : pc'[g] = pc[g] /\ call'[g] = call[g]
      BY <1>0, <1>1, OneMoves DEF Begin, TypeOK, CallType, tableVars, kernelVars, restVars, Packets, InHand
    <2>2. ASSUME NEW p \in Packets, p.id[2] = call'[Caller(p)].n
          PROVE  Caller(p) \in Fibers \ {f}
      <3>1. Caller(p) \in Fibers /\ p.id[2] <= call[Caller(p)].n
        BY <1>0, TraceTyped DEF Known
      <3> QED
        BY <1>0, <2>1, <2>2, <3>1, CallNumbers
    <2> QED
      BY <2>1, <2>2 DEF Fixed, IsOfLast, Caller
  <1>2. ASSUME NEW f \in Fibers, IssueSucceeds(f) PROVE Fixed'
    <2>1. /\ UNCHANGED <<table, key, call, hand>> /\ Goto(f, "none") /\ pc[f] = "issue"
          /\ port' = port \cup Packet(call[f].handle, call[f].ctx, Id(f))
      BY <1>2 DEF IssueSucceeds, tableVars, restVars
    <2>2. pc'[f] = "none" /\ \A g \in Fibers \ {f} : pc'[g] = pc[g]
      BY <1>0, <2>1, OneMoves
    <2>3. \A p \in Packet(call[f].handle, call[f].ctx, Id(f)) : p.id = Id(f) /\ p.key = key[call[f].handle]
      BY DEF Packet
    <2>4. key[call[f].handle] = <<call[f].handle, 1>>
      BY <1>0, <2>1 DEF Placed, Fixed
    <2>5. \A p \in Packets' : p \in Packets \/ (p.id = Id(f) /\ p.key = <<call[f].handle, 1>>)
      BY <2>1, <2>3, <2>4 DEF Packets, InHand
    <2>6. \A p \in Packets' : IsOfLast(p)' => p.key = <<call[Caller(p)].handle, 1>>
      BY <2>1, <2>5 DEF Fixed, IsOfLast, Caller, Id
    <2> QED
      BY <2>1, <2>2, <2>6 DEF Fixed, Caller
  <1>3. ASSUME NEW f \in Fibers,
               \/ IssueFails(f) \/ IssuePending(f) \/ AddTimer(f) \/ AddEventFails(f)
               \/ Suspend(f) \/ Resume(f) \/ Return(f)
        PROVE  Fixed'
    <2>1. UNCHANGED <<table, key, call, port, hand>>
      BY <1>3 DEF IssueFails, IssuePending, AddTimer, AddEventFails, Suspend, Resume, Return, tableVars,
         kernelVars, restVars
    <2>2. PICK l \in {"none", "timer", "find", "dead", "held", "ready", "leave"} :
             Goto(f, l) /\ (l = "held" => pc[f] = "added")
      BY <1>3 DEF IssueFails, IssuePending, AddTimer, AddEventFails, Suspend, Resume, Return
    <2>3. pc'[f] = l /\ \A g \in Fibers \ {f} : pc'[g] = pc[g]
      BY <1>0, <2>2, OneMoves
    <2>4. Packets' = Packets
      BY <2>1 DEF Packets, InHand
    <2> QED
      BY <1>b, <2>1, <2>2, <2>3, <2>4 DEF Fixed
  <1>4. ASSUME NEW f \in Fibers, FindContext(f) PROVE Fixed'
    <2>1. call[f].handle \in Handles /\ pc[f] = "find"
      BY <1>0, <1>4 DEF FindContext, Placed
    <2>2. table[call[f].handle] = <<call[f].handle, 1>> /\ table[call[f].handle] # None
      BY <1>h, <2>1 DEF Fixed
    <2>3. Goto(f, "add") /\ call' = [call EXCEPT ![f].object = <<call[f].handle, 1>>]
      BY <1>4, <2>2 DEF FindContext
    <2>4. call'[f].object = <<call[f].handle, 1>> /\ call'[f].handle = call[f].handle
          /\ call'[f].n = call[f].n /\ \A g \in Fibers \ {f} : call'[g] = call[g]
      BY <1>0, <2>3 DEF TypeOK, CallType
    <2>5. UNCHANGED <<table, key>> /\ Packets' = Packets
      BY <1>4 DEF FindContext, tableVars, kernelVars, restVars, Packets, InHand
    <2>6. pc'[f] = "add" /\ \A g \in Fibers \ {f} : pc'[g] = pc[g]
      BY <1>0, <2>3, OneMoves
    <2> QED
      BY <1>a, <2>4, <2>5, <2>6 DEF Fixed
  <1>5. ASSUME NEW f \in Fibers, AddEvent(f) PROVE Fixed'
    <2>1. /\ UNCHANGED <<table, call, port, hand>> /\ Goto(f, "added") /\ pc[f] = "add"
          /\ call[f].handle \in Handles
      BY <1>0, <1>5 DEF AddEvent, tableVars, restVars, Placed
    <2>2. key' = key
      <3>1. key[call[f].handle] # None
        BY <1>h, <2>1 DEF Fixed
      <3> QED
        BY <1>5, <3>1 DEF AddEvent
    <2>3. pc'[f] = "added" /\ \A g \in Fibers \ {f} : pc'[g] = pc[g]
      BY <1>0, <2>1, OneMoves
    <2>4. Packets' = Packets
      BY <2>1 DEF Packets, InHand
    <2> QED
      BY <1>b, <2>1, <2>2, <2>3, <2>4 DEF Fixed
  <1>6. ASSUME NEW i \in inflight, Complete(i) PROVE Fixed'
    <2>1. /\ UNCHANGED <<table, key, call, pc, hand>>
          /\ port' = port \cup Packet(i.handle, i.ctx, i.id)
      BY <1>6 DEF Complete, tableVars, callVars, restVars
    <2>2. \A p \in Packet(i.handle, i.ctx, i.id) : p.id = i.id /\ p.key = key[i.handle]
      BY DEF Packet
    <2>3. key[i.handle] = <<i.handle, 1>> /\ i \in Traces
      BY <1>0 DEF Fixed, TypeOK, OperationType, Traces
    <2>4. \A p \in Packets' : p \in Packets \/ (p.id = i.id /\ p.key = <<i.handle, 1>>)
      BY <2>1, <2>2, <2>3 DEF Packets, InHand
    <2>5. IsOfLast(i) => i.handle = call[Caller(i)].handle
      BY DEF Known
    <2>6. \A p \in Packets' : IsOfLast(p)' => p.key = <<call[Caller(p)].handle, 1>>
      BY <2>1, <2>4, <2>5 DEF Fixed, IsOfLast, Caller
    <2> QED
      BY <2>1, <2>6 DEF Fixed, Caller
  <1>7. ASSUME \/ TimerStep
               \/ \E h \in Handles, e \in Events : SocketCancels(h, e)
               \/ \E i \in inflight : Fail(i)
               \/ UNCHANGED vars
        PROVE  Fixed'
    <2>1. UNCHANGED <<table, key, call, pc, port, hand>>
      BY <1>7 DEF TimerStep, TimerExpires, TimerFires, TimerCancels, SocketCancels, Fail, vars, callVars,
         tableVars, kernelVars, restVars
    <2>2. Packets' = Packets
      BY <2>1 DEF Packets, InHand
    <2> QED
      BY <1>b, <2>1, <2>2 DEF Fixed
  <1>8. ASSUME NEW w \in Workers, NEW p \in port, Take(w, p) PROVE Fixed'
    <2>1. UNCHANGED <<table, key, call, pc>>
      BY <1>8 DEF Take, tableVars, callVars
    <2>2. Packets' \subseteq Packets
      BY <1>0, <1>8 DEF Take, Packets, InHand, TypeOK
    <2> QED
      BY <1>b, <2>1, <2>2 DEF Fixed
  <1>9. ASSUME NEW w \in Workers, Deliver(w) PROVE Fixed'
    <2>1. UNCHANGED <<table, key, call>>
      BY <1>9 DEF Deliver, tableVars, kernelVars
    <2>2. Packets' \subseteq Packets
      BY <1>0, <1>9 DEF Deliver, Packets, InHand, kernelVars, TypeOK
    <2>3. \A f \in Fibers : pc'[f] # pc[f] => pc[f] \in Registered /\ pc'[f] \in {"hailed", "ready"}
      BY <1>9, DeliveredMove
    <2> QED
      BY <1>b, <2>1, <2>2, <2>3 DEF Fixed
  <1>10. \A f \in Fibers : ~MakeContext(f)
    BY DEF Fixed, MakeContext
  <1> QED
    BY <1>1, <1>2, <1>3, <1>4, <1>5, <1>6, <1>7, <1>8, <1>9, <1>10, OpenNext DEF Next, FiberStep, WorkerStep

LEMMA RuledNext == Sound /\ Known /\ Ruled /\ [Next]_vars => Ruled'
  BY WorldStays, FreshNext, OpenNext, TimelessNext, LateNext, FixedNext DEF Ruled

-----------------------------------------------------------------------------
(* A fiber on its way to its registration has its operation in progress, or its
   packet is about; one that waits is registered besides. What takes that away
   is a cause that the world knows of.                                     *)
Coming(f) == \E i \in Traces : i.id = Id(f)

Lost(f) == loss[f] \in Causes

Awaited ==
    \A f \in Fibers :
        /\ pc[f] \in Unregistered => Coming(f) \/ Lost(f)
        /\ pc[f] \in Registered => (Registers(f) /\ Coming(f)) \/ Lost(f)

LEMMA AwaitedInit == Init => Awaited
  BY DEF Init, Awaited

(* A fiber that has its operation or packet, and its registration, after the
   step as before.                                                         *)
LEMMA AwaitedStays ==
    ASSUME Awaited, NEW f \in Fibers, [Next]_vars, Id(f)' = Id(f), loss'[f] = loss[f],
           pc'[f] \in Unregistered => pc[f] \in Unregistered,
           pc'[f] \in Registered => pc[f] \in Registered,
           pc'[f] \in Unregistered \cup Registered /\ Coming(f) => Coming(f)',
           pc'[f] \in Registered /\ Registers(f) => Registers(f)'
    PROVE  /\ pc'[f] \in Unregistered => Coming(f)' \/ Lost(f)'
           /\ pc'[f] \in Registered => (Registers(f)' /\ Coming(f)') \/ Lost(f)'
  BY WorldStays DEF Awaited, Lost

(* The trace of a call in progress is of the address that the call has.    *)
LEMMA OwnTrace ==
    ASSUME TypeOK, Known, NEW f \in Fibers, NEW i \in Traces, i.id = Id(f)
    PROVE  i.ctx = call[f].ctx /\ Caller(i) = f /\ IsOfLast(i)
  BY DEF Known, Caller, IsOfLast, Id

(* Nobody but the fiber that a registration names has its address.         *)
LEMMA OwnRegistration ==
    ASSUME Sound, NEW o \in Objects, "READ" \in events[o], NEW f \in Fibers, pc[f] # "none",
           call[f].ctx = slot[o]["READ"]
    PROVE  pc[f] \in Registered /\ call[f].object = o
  <1>1. PICK g \in Fibers : pc[g] \in Registered /\ call[g].ctx = slot[o]["READ"] /\ call[g].object = o
    BY HeldBy
  <1>2. g = f
    BY <1>1 DEF Sound, OwnContext
  <1> QED
    BY <1>1, <1>2

(* A step that loses fibers for a cause that the world knows of, and leaves the
   places, the calls and the registrations of the others alone.            *)
LEMMA LosesSome ==
    ASSUME Sound, Known, Awaited, [Next]_vars,
           NEW F, NEW why \in Causes, Lose(F, why),
           UNCHANGED <<pc, call>>, UNCHANGED <<events, slot>>,
           \A f \in Fibers \ F : pc[f] \in Unregistered \cup Registered /\ Coming(f) => Coming(f)'
    PROVE  Awaited'
  <1>0. Causes' = Causes /\ \A f \in Fibers : Id(f)' = Id(f) /\ (Registers(f)' <=> Registers(f))
    BY WorldStays DEF Id, Registers
  <1>1. ASSUME NEW f \in F, f \in Fibers PROVE Lost(f)'
    BY <1>0, <1>1 DEF Lost, Lose
  <1>2. ASSUME NEW f \in Fibers \ F
        PROVE  /\ pc'[f] \in Unregistered => Coming(f)' \/ Lost(f)'
               /\ pc'[f] \in Registered => (Registers(f)' /\ Coming(f)') \/ Lost(f)'
    <2>1. loss'[f] = loss[f]
      BY DEF Lose
    <2> QED
      BY <1>0, <2>1, AwaitedStays
  <1> QED
    BY <1>1, <1>2 DEF Awaited

(* The steps of calls.                                                     *)
LEMMA AwaitedCall ==
    ASSUME Sound, Known, Awaited, [Next]_vars, NEW f \in Fibers,
           \/ \E h \in Handles, kind \in Kinds, c \in Contexts : Begin(f, h, kind, c)
           \/ FiberStep(f)
    PROVE  Awaited'
  <1>0. TypeOK /\ Placed
    BY DEF Sound
  <1> DEFINE Good(g) == /\ pc'[g] \in Unregistered => Coming(g)' \/ Lost(g)'
                        /\ pc'[g] \in Registered => (Registers(g)' /\ Coming(g)') \/ Lost(g)'
  <1>a. ASSUME \A g \in Fibers : Good(g) PROVE Awaited'
    BY <1>a DEF Awaited
  (* Other fibers. *)
  <1>b. ASSUME NEW g \in Fibers, pc'[g] = pc[g], call'[g] = call[g], loss'[g] = loss[g],
               Traces \subseteq Traces', pc[g] \in Registered /\ Registers(g) => Registers(g)'
        PROVE  Good(g)
    <2>1. Id(g)' = Id(g)
      BY <1>b DEF Id
    <2>2. Coming(g) => Coming(g)'
      BY <1>b, <2>1 DEF Coming
    <2> QED
      BY <1>b, <2>1, <2>2, AwaitedStays
  <1>c. ASSUME NEW g \in Fibers, pc'[g] \notin Unregistered \cup Registered PROVE Good(g)
    BY <1>c
  <1> HIDE DEF Good
  <1>1. ASSUME NEW h \in Handles, NEW kind \in Kinds, NEW c \in Contexts, Begin(f, h, kind, c)
        PROVE  Awaited'
    <2>1. /\ UNCHANGED <<inflight, port, hand, events, slot, loss>> /\ pc'[f] = "issue"
          /\ \A g \in Fibers \ {f} : pc'[g] = pc[g] /\ call'[g] = call[g]
      BY <1>0, <1>1, OneMoves DEF Begin, TypeOK, eventVars, kernelVars, restVars
    <2>2. Traces' = Traces
      BY <2>1 DEF Traces, InHand
    <2>3. Good(f)
      BY <1>c, <2>1
    <2>4. ASSUME NEW g \in Fibers \ {f} PROVE Good(g)
      <3>1. Registers(g) => Registers(g)'
        BY <2>1 DEF Registers
      <3> QED
        BY <1>b, <2>1, <2>2, <3>1
    <2> QED
      BY <1>a, <2>3, <2>4
  <1>2. ASSUME IssueFails(f) \/ IssueSucceeds(f) \/ AddEventFails(f) \/ Resume(f) \/ Return(f)
        PROVE  Awaited'
    <2>1. UNCHANGED <<inflight, call, hand, events, slot>> /\ port \subseteq port'
      BY <1>2 DEF IssueFails, IssueSucceeds, AddEventFails, Resume, Return, eventVars, kernelVars, restVars
    <2>2. PICK l \in {"none", "dead", "leave"} : Goto(f, l)
      BY <1>2 DEF IssueFails, IssueSucceeds, AddEventFails, Resume, Return
    <2>3. pc'[f] = l /\ \A g \in Fibers \ {f} : pc'[g] = pc[g]
      BY <1>0, <2>2, OneMoves
    <2>4. \A g \in Fibers \ {f} : loss'[g] = loss[g]
      BY <1>0, <1>2 DEF IssueFails, IssueSucceeds, AddEventFails, Resume, Return, TypeOK
    <2>5. Traces \subseteq Traces'
      BY <2>1 DEF Traces, InHand
    <2>6. ASSUME NEW g \in Fibers \ {f} PROVE Good(g)
      <3>1. Registers(g) => Registers(g)'
        BY <2>1 DEF Registers
      <3> QED
        BY <1>b, <2>1, <2>3, <2>4, <2>5, <3>1
    <2> QED
      BY <1>a, <1>c, <2>3, <2>6
  <1>3. CASE IssuePending(f)
    <2> DEFINE new == [handle |-> call[f].handle, ctx |-> call[f].ctx, id |-> Id(f)]
    <2>0. inflight' = inflight \cup {new} /\ new.id = Id(f)
      BY <1>3 DEF IssuePending
    <2> HIDE DEF new
    <2>1. UNCHANGED <<call, port, hand, events, slot, loss>>
      BY <1>3 DEF IssuePending, eventVars, restVars
    <2>2. PICK l \in {"timer", "find"} : Goto(f, l)
      BY <1>3 DEF IssuePending
    <2>3. pc'[f] = l /\ \A g \in Fibers \ {f} : pc'[g] = pc[g]
      BY <1>0, <2>2, OneMoves
    <2>4. Traces' = Traces \cup {new} /\ Id(f)' = Id(f)
      BY <2>0, <2>1 DEF Traces, InHand, Id
    <2>5. Good(f)
      BY <2>0, <2>3, <2>4 DEF Good, Coming
    <2>6. ASSUME NEW g \in Fibers \ {f} PROVE Good(g)
      <3>1. Registers(g) => Registers(g)'
        BY <2>1 DEF Registers
      <3> QED
        BY <1>b, <2>1, <2>3, <2>4, <3>1
    <2> QED
      BY <1>a, <2>5, <2>6
  <1>4. CASE AddTimer(f) \/ FindContext(f) \/ MakeContext(f)
    <2>1. UNCHANGED <<inflight, port, hand, events, slot, loss>> /\ pc[f] \in Unregistered
      BY <1>4 DEF AddTimer, FindContext, MakeContext, eventVars, kernelVars, restVars
    <2>2. PICK l \in {"find", "make", "add"} : Goto(f, l)
      BY <1>4 DEF AddTimer, FindContext, MakeContext
    <2>3. pc'[f] = l /\ \A g \in Fibers \ {f} : pc'[g] = pc[g]
      BY <1>0, <2>2, OneMoves
    <2>4. \A g \in Fibers : call'[g].n = call[g].n /\ (g # f => call'[g] = call[g])
      BY <1>0, <1>4, ObjectFound DEF AddTimer
    <2>5. Traces' = Traces
      BY <2>1 DEF Traces, InHand
    <2>6. Good(f)
      <3>1. Id(f)' = Id(f)
        BY <2>4 DEF Id
      <3>2. Coming(f) => Coming(f)'
        BY <2>5, <3>1 DEF Coming
      <3> QED
        BY <2>1, <2>3, <3>1, <3>2, AwaitedStays DEF Good
    <2>7. ASSUME NEW g \in Fibers \ {f} PROVE Good(g)
      <3>1. Registers(g) => Registers(g)'
        BY <2>1, <2>4 DEF Registers
      <3> QED
        BY <1>b, <2>1, <2>3, <2>4, <2>5, <3>1
    <2> QED
      BY <1>a, <2>6, <2>7
  <1>5. CASE AddEvent(f)
    <2> DEFINE o == call[f].object
    <2>1. /\ UNCHANGED <<inflight, port, hand, call, loss>> /\ pc[f] = "add" /\ Goto(f, "added")
          /\ events' = [events EXCEPT ![o] = @ \cup {"READ"}] /\ "READ" \notin events[o]
          /\ slot' = [slot EXCEPT ![o]["READ"] = call[f].ctx]
      BY <1>5 DEF AddEvent, EventOf, restVars
    <2>2. o \in Objects
      BY <1>0, <2>1 DEF Placed
    <2>3. pc'[f] = "added" /\ \A g \in Fibers \ {f} : pc'[g] = pc[g]
      BY <1>0, <2>1, OneMoves
    <2>4. Traces' = Traces
      BY <2>1 DEF Traces, InHand
    <2>5. Registers(f)'
      BY <1>0, <2>1, <2>2 DEF Registers, EventOf, TypeOK, Events
    <2>6. Good(f)
      <3>1. Id(f)' = Id(f) /\ Lost(f)' = Lost(f)
        BY <2>1, WorldStays DEF Id, Lost
      <3>2. Coming(f) => Coming(f)'
        BY <2>4, <3>1 DEF Coming
      <3> QED
        BY <2>1, <2>3, <2>5, <3>1, <3>2 DEF Good, Awaited
    <2>7. ASSUME NEW g \in Fibers \ {f} PROVE Good(g)
      <3>1. SUFFICES ASSUME pc[g] \in Registered, Registers(g) PROVE Registers(g)'
        BY <1>b, <2>1, <2>3, <2>4
      <3>2. call[g].object \in Objects /\ call[g].object # o
        BY <1>0, <2>1, <3>1 DEF Placed, Registers, EventOf
      <3> QED
        BY <1>0, <2>1, <2>2, <3>1, <3>2 DEF Registers, TypeOK
    <2> QED
      BY <1>a, <2>6, <2>7
  <1>6. CASE Suspend(f)
    <2>1. UNCHANGED <<inflight, port, hand, call, events, slot, loss>>
      BY <1>6 DEF Suspend, eventVars, kernelVars, restVars
    <2>2. PICK l \in {"held", "ready"} : Goto(f, l) /\ (l = "held" => pc[f] \in Registered)
      BY <1>6 DEF Suspend
    <2>3. pc'[f] = l /\ \A g \in Fibers \ {f} : pc'[g] = pc[g]
      BY <1>0, <2>2, OneMoves
    <2>4. Traces' = Traces
      BY <2>1 DEF Traces, InHand
    <2>5. ASSUME NEW g \in Fibers PROVE Good(g)
      <3>1. Id(g)' = Id(g)
        BY <2>1 DEF Id
      <3>2. (Registers(g) => Registers(g)') /\ (Coming(g) => Coming(g)')
        BY <2>1, <2>4, <3>1 DEF Registers, Coming
      <3>3. CASE g # f
        BY <1>b, <2>1, <2>3, <2>4, <3>2, <3>3
      <3>4. CASE g = f
        BY <2>1, <2>2, <2>3, <3>1, <3>2, <3>4, AwaitedStays DEF Good
      <3> QED
        BY <3>3, <3>4
    <2> QED
      BY <1>a, <2>5
  <1> QED
    BY <1>1, <1>2, <1>3, <1>4, <1>5, <1>6 DEF FiberStep

(* A registration is cancelled: its fiber is forgotten, for that cause.    *)
LEMMA AwaitedCancel ==
    ASSUME Sound, Known, Awaited, [Next]_vars, NEW o \in Objects, NEW e \in events[o], CancelEvent(o, e),
           "cancelled" \in Causes, UNCHANGED <<pc, call, port, hand>>
    PROVE  Awaited'
  <1>0. TypeOK /\ OwnContext /\ e = "READ" /\ "READ" \in events[o]
    BY DEF Sound, OnlyRead
  <1>1. /\ inflight' = inflight \ Cancelled(o, "READ")
        /\ events' = [events EXCEPT ![o] = @ \ {"READ"}]
        /\ slot' = slot
        /\ Lose(Holder(o, "READ"), "cancelled")
    BY <1>0 DEF CancelEvent
  <1>2. ASSUME NEW f \in Fibers
        PROVE  /\ pc'[f] \in Unregistered => Coming(f)' \/ Lost(f)'
               /\ pc'[f] \in Registered => (Registers(f)' /\ Coming(f)') \/ Lost(f)'
    <2>1. CASE f \in Holder(o, "READ")
      BY <1>1, <2>1, WorldStays DEF Lose, Lost
    <2>2. CASE f \notin Holder(o, "READ") /\ pc[f] \in Unregistered \cup Registered
      <3>1. loss'[f] = loss[f] /\ Id(f)' = Id(f)
        BY <1>1, <2>2 DEF Lose, Id
      <3>2. call[f].ctx # slot[o]["READ"]
        BY <1>0, <2>2, OwnRegistration DEF Holder
      <3>3. ASSUME NEW i \in Traces, i.id = Id(f) PROVE i \in Traces'
        <4>1. i.ctx = call[f].ctx
          BY <1>0, <3>3, OwnTrace
        <4>2. i \notin Cancelled(o, "READ")
          BY <3>2, <4>1 DEF Cancelled
        <4> QED
          BY <1>1, <4>2 DEF Traces, InHand
      <3>4. Coming(f) => Coming(f)'
        BY <3>1, <3>3 DEF Coming
      <3>5. ASSUME pc[f] \in Registered, Registers(f) PROVE Registers(f)'
        <4>1. call[f].object \in Objects
          BY <3>5 DEF Sound, Placed
        <4>2. call[f].object # o
          BY <3>2, <3>5 DEF Registers, EventOf
        <4> QED
          BY <1>0, <1>1, <3>5, <4>1, <4>2 DEF Registers, TypeOK
      <3> QED
        BY <3>1, <3>4, <3>5, AwaitedStays
    <2>3. CASE pc[f] \notin Unregistered \cup Registered
      BY <2>3
    <2> QED
      BY <2>1, <2>2, <2>3
  <1> QED
    BY <1>2 DEF Awaited

(* Events are triggered: the fiber that waits for them is scheduled.       *)
LEMMA AwaitedTrigger ==
    ASSUME Sound, Known, Awaited, [Next]_vars, NEW o \in Objects, NEW e \in events[o], Trigger(o, {e}),
           UNCHANGED call,
           \A f \in Fibers : \/ loss'[f] = loss[f] \/ loss'[f] \in Causes
                             \/ pc'[f] \notin Unregistered \cup Registered,
           \A f \in Fibers :
               pc[f] \in Unregistered \cup Registered /\ call[f].ctx # slot[o][e] /\ loss'[f] \notin Causes
               /\ Coming(f) => Coming(f)'
    PROVE  Awaited'
  <1>0. TypeOK /\ OwnContext /\ e = "READ" /\ "READ" \in events[o]
    BY DEF Sound, OnlyRead
  <1>1. /\ \E f \in Fibers :
              /\ pc[f] \in Registered /\ call[f].ctx = slot[o]["READ"] /\ call[f].object = o
              /\ pc' = [pc EXCEPT ![f] = Scheduled(pc[f])]
        /\ \A x \in Objects \ {o} : events'[x] = events[x] /\ slot'[x] = slot[x]
    BY WakesOne
  <1>2. PICK g \in Fibers :
              /\ pc[g] \in Registered /\ call[g].ctx = slot[o]["READ"] /\ call[g].object = o
              /\ pc' = [pc EXCEPT ![g] = Scheduled(pc[g])]
    BY <1>1
  <1>3. pc'[g] \in {"hailed", "ready"} /\ \A f \in Fibers \ {g} : pc'[f] = pc[f]
    BY <1>0, <1>2 DEF TypeOK, Scheduled
  <1>4. ASSUME NEW f \in Fibers
        PROVE  /\ pc'[f] \in Unregistered => Coming(f)' \/ Lost(f)'
               /\ pc'[f] \in Registered => (Registers(f)' /\ Coming(f)') \/ Lost(f)'
    <2>1. CASE pc'[f] \notin Unregistered \cup Registered
      BY <2>1
    <2>2. CASE pc'[f] \in Unregistered \cup Registered /\ loss'[f] \in Causes
      BY <2>2, WorldStays DEF Lost
    <2>3. CASE pc'[f] \in Unregistered \cup Registered /\ loss'[f] \notin Causes
      <3>0. loss'[f] = loss[f]
        BY <2>3
      <3>1. f # g /\ pc'[f] = pc[f] /\ call[f].ctx # slot[o]["READ"]
        BY <1>0, <1>2, <1>3, <2>3 DEF OwnContext
      <3>2. Id(f)' = Id(f) /\ (Coming(f) => Coming(f)')
        BY <1>0, <2>3, <3>1 DEF Id
      <3>3. ASSUME pc[f] \in Registered, Registers(f) PROVE Registers(f)'
        <4>1. call[f].object \in Objects
          BY <3>3 DEF Sound, Placed
        <4>2. call[f].object # o
          BY <3>1, <3>3 DEF Registers, EventOf
        <4> QED
          BY <1>1, <3>3, <4>1, <4>2 DEF Registers
      <3> QED
        BY <2>3, <3>0, <3>1, <3>2, <3>3, AwaitedStays
    <2> QED
      BY <2>1, <2>2, <2>3
  <1> QED
    BY <1>4 DEF Awaited

(* cancelEvent, by a timer or by Socket::cancelRead and its like.          *)
LEMMA AwaitedCancels ==
    ASSUME Sound, Known, Ruled, Awaited, [Next]_vars,
           TimerStep \/ \E h \in Handles, e \in Events : SocketCancels(h, e)
    PROVE  Awaited'
  <1>0. TypeOK
    BY DEF Sound
  <1>a. ASSUME UNCHANGED <<pc, call, port, hand, events, slot, inflight, loss>> PROVE Awaited'
    <2>1. Traces' = Traces
      BY <1>a DEF Traces, InHand
    <2> QED
      BY <1>a, <2>1, WorldStays DEF Awaited, Registers, Coming, Lost, Id
  <1>b. ASSUME NEW h \in Handles, NEW o \in Found(h), NEW e, IsRegistered(o, e), CancelEvent(o, e),
               world.env \cap {"cancel", "timeout"} # {}, UNCHANGED <<pc, call, port, hand>>
        PROVE  Awaited'
    <2>1. o \in Objects /\ e \in events[o]
      BY <1>0, <1>b, FoundTyped DEF IsRegistered
    <2>2. "cancelled" \in Causes
      BY <1>b DEF Causes, Losses
    <2> QED
      BY <1>b, <2>1, <2>2, AwaitedCancel
  <1>1. ASSUME NEW f \in Fibers, TimerExpires(f) \/ TimerFires(f) PROVE Awaited'
    <2>1. UNCHANGED <<pc, call, port, hand, events, slot, inflight, loss>>
      BY <1>1 DEF TimerExpires, TimerFires, eventVars, kernelVars, restVars
    <2> QED
      BY <1>a, <2>1
  <1>2. ASSUME NEW x \in cancels, TimerCancels(x) PROVE Awaited'
    <2>1. PICK o \in Found(x.handle) :
             IF IsRegistered(o, x.event) THEN CancelEvent(o, x.event) ELSE UNCHANGED <<inflight, eventVars, loss>>
      BY <1>2 DEF TimerCancels
    <2>2. UNCHANGED <<pc, call, port, hand>> /\ x.handle \in Handles
      BY <1>0, <1>2 DEF TimerCancels, restVars, TypeOK
    <2>3. "timeout" \in world.env
      BY DEF Ruled, Timeless
    <2>4. CASE IsRegistered(o, x.event)
      BY <1>b, <2>1, <2>2, <2>3, <2>4
    <2>5. CASE ~IsRegistered(o, x.event)
      BY <1>a, <2>1, <2>2, <2>5 DEF eventVars
    <2> QED
      BY <2>4, <2>5
  <1>3. ASSUME NEW h \in Handles, NEW e \in Events, SocketCancels(h, e) PROVE Awaited'
    <2>1. PICK o \in Found(h) : IsRegistered(o, e) /\ CancelEvent(o, e)
      BY <1>3 DEF SocketCancels
    <2>2. UNCHANGED <<pc, call, port, hand>> /\ "cancel" \in world.env
      BY <1>3 DEF SocketCancels, callVars, restVars
    <2> QED
      BY <1>b, <2>1, <2>2
  <1> QED
    BY <1>1, <1>2, <1>3 DEF TimerStep

(* A socket is closed: operations that nobody is registered for end.       *)
LEMMA AwaitedClose ==
    ASSUME Sound, Known, Ruled, Awaited, [Next]_vars, NEW h \in Handles, CloseStep(h)
    PROVE  Awaited'
  <1>0. TypeOK
    BY DEF Sound
  <1>1. "close" \in world.env
    BY OpenNext DEF Ruled
  <1>2. "closed" \in Causes
    BY <1>1 DEF Causes, Losses
  <1>3. ASSUME inflight' = inflight \ OperationsOn(h), UNCHANGED <<port, hand, call>>,
               NEW f \in Fibers, f \notin Owners(OperationsOn(h)), pc[f] \in Unregistered \cup Registered,
               Coming(f)
        PROVE  Coming(f)'
    <2>1. PICK i \in Traces : i.id = Id(f)
      BY <1>3 DEF Coming
    <2>2. i \notin OperationsOn(h)
      BY <1>3, <2>1 DEF Owners
    <2> QED
      BY <1>3, <2>1, <2>2 DEF Coming, Traces, InHand, Id
  <1>4. CASE CloseSocket(h)
    <2>1. /\ inflight' = inflight \ OperationsOn(h) /\ Lose(Owners(OperationsOn(h)), "closed")
          /\ UNCHANGED <<pc, call, port, hand>> /\ UNCHANGED <<events, slot>>
      BY <1>4 DEF CloseSocket, callVars, eventVars, restVars
    <2>2. \A f \in Fibers \ Owners(OperationsOn(h)) :
             pc[f] \in Unregistered \cup Registered /\ Coming(f) => Coming(f)'
      BY <1>3, <2>1
    <2> QED
      BY <1>2, <2>1, <2>2, LosesSome
  <1>5. CASE Reopen(h)
    <2>1. UNCHANGED <<pc, call, port, hand, events, slot, inflight, loss>>
      BY <1>5 DEF Reopen, callVars, eventVars, restVars
    <2>2. Traces' = Traces
      BY <2>1 DEF Traces, InHand
    <2> QED
      BY <2>1, <2>2, WorldStays DEF Awaited, Registers, Coming, Lost, Id
  <1>6. CASE CancelAll(h)
    <2>1. PICK o \in Found(h) :
             IF o # None /\ events[o] # {}
             THEN /\ inflight' = inflight \ OperationsOn(h)
                  /\ Lose(Owners(OperationsOn(h)), "closed")
                  /\ Trigger(o, events[o])
             ELSE UNCHANGED <<inflight, pc, waiter, eventVars, loss>>
      BY <1>6 DEF CancelAll
    <2>2. UNCHANGED <<call, port, hand>> /\ (o = None \/ o \in Objects)
      BY <1>0, <1>6, FoundTyped DEF CancelAll
    <2>3. CASE o # None /\ events[o] # {}
      <3>1. o \in Objects /\ events[o] = {"READ"}
        BY <2>2, <2>3 DEF Sound, OnlyRead
      <3>2. /\ inflight' = inflight \ OperationsOn(h) /\ Lose(Owners(OperationsOn(h)), "closed")
            /\ Trigger(o, {"READ"}) /\ "READ" \in events[o]
        BY <2>1, <2>3, <3>1
      <3>3. \A f \in Fibers : loss'[f] = loss[f] \/ loss'[f] \in Causes
        BY <1>2, <3>2 DEF Lose
      <3>4. ASSUME NEW f \in Fibers, pc[f] \in Unregistered \cup Registered, loss'[f] \notin Causes, Coming(f)
            PROVE  Coming(f)'
        <4>1. f \notin Owners(OperationsOn(h))
          BY <1>2, <3>2, <3>4 DEF Lose
        <4> QED
          BY <1>3, <2>2, <3>2, <3>4, <4>1
      <3> QED
        BY <2>2, <3>1, <3>2, <3>3, <3>4, AwaitedTrigger
    <2>4. CASE ~(o # None /\ events[o] # {})
      <3>1. UNCHANGED <<pc, call, port, hand, events, slot, inflight, loss>>
        BY <2>1, <2>2, <2>4 DEF eventVars
      <3>2. Traces' = Traces
        BY <3>1 DEF Traces, InHand
      <3> QED
        BY <3>1, <3>2, WorldStays DEF Awaited, Registers, Coming, Lost, Id
    <2> QED
      BY <2>3, <2>4
  <1> QED
    BY <1>4, <1>5, <1>6 DEF CloseStep

(* Operations end.                                                         *)
LEMMA AwaitedKernel ==
    ASSUME Sound, Known, Ruled, Awaited, [Next]_vars, NEW i \in inflight, Complete(i) \/ Fail(i)
    PROVE  Awaited'
  <1>0. TypeOK
    BY DEF Sound
  <1>1. UNCHANGED <<pc, call, hand>> /\ UNCHANGED <<events, slot>> /\ inflight' = inflight \ {i}
    BY DEF Complete, Fail, callVars, eventVars, restVars
  <1>2. ASSUME port' = port, NEW f \in Fibers, f \notin Owners({i}), pc[f] \in Unregistered \cup Registered,
               Coming(f)
        PROVE  Coming(f)'
    <2>1. PICK t \in Traces : t.id = Id(f)
      BY <1>2 DEF Coming
    <2>2. t # i
      BY <1>2, <2>1 DEF Owners
    <2> QED
      BY <1>1, <1>2, <2>1, <2>2 DEF Coming, Traces, InHand, Id
  <1>3. CASE Fail(i)
    <2>1. "error" \in Causes /\ Lose(Owners({i}), "error") /\ port' = port
      BY <1>3 DEF Fail, Causes, Losses
    <2>2. \A f \in Fibers \ Owners({i}) :
             pc[f] \in Unregistered \cup Registered /\ Coming(f) => Coming(f)'
      BY <1>2, <2>1
    <2> QED
      BY <1>1, <2>1, <2>2, LosesSome
  <1>4. CASE Complete(i) /\ key[i.handle] = None
    <2>1. Lose(Owners({i}), "strayed") /\ port' = port
      BY <1>4 DEF Complete, Packet
    <2>2. "strayed" \in Causes
      <3>1. i.handle \in Handles
        BY <1>0 DEF TypeOK, OperationType
      <3>2. <<i.handle, 1>> # None
        BY <3>1, BoundAssumption, NoneAssumption DEF Objects
      <3>3. ~Fixed
        BY <1>4, <3>1, <3>2 DEF Fixed
      <3> QED
        BY <3>3 DEF Ruled, Causes, Losses
    <2>3. \A f \in Fibers \ Owners({i}) :
             pc[f] \in Unregistered \cup Registered /\ Coming(f) => Coming(f)'
      BY <1>2, <2>1
    <2> QED
      BY <1>1, <2>1, <2>2, <2>3, LosesSome
  <1>5. CASE Complete(i) /\ key[i.handle] # None
    <2> DEFINE new == [key |-> key[i.handle], ctx |-> i.ctx, id |-> i.id]
    <2>1. port' = port \cup {new} /\ new.id = i.id /\ Lose({}, "strayed")
      BY <1>5 DEF Complete, Packet
    <2> HIDE DEF new
    <2>2. loss' = loss
      BY <1>0, <2>1 DEF Lose, TypeOK
    <2>3. ASSUME NEW f \in Fibers, Coming(f) PROVE Coming(f)'
      <3>1. PICK t \in Traces : t.id = Id(f)
        BY <2>3 DEF Coming
      <3>2. CASE t = i
        BY <1>1, <2>1, <3>1, <3>2 DEF Coming, Traces, Id
      <3>3. CASE t # i
        BY <1>1, <2>1, <3>1, <3>3 DEF Coming, Traces, InHand, Id
      <3> QED
        BY <3>2, <3>3
    <2> QED
      BY <1>1, <2>2, <2>3, WorldStays DEF Awaited, Registers, Lost
  <1> QED
    BY <1>3, <1>4, <1>5

(* A packet is handled, or dropped.                                        *)
LEMMA AwaitedDeliver ==
    ASSUME Sound, Known, Ruled, Awaited, [Next]_vars, NEW w \in Workers, Deliver(w)
    PROVE  Awaited'
  <1> DEFINE p == hand[w]
  <1>0. TypeOK /\ Placed
    BY DEF Sound
  <1>1. UNCHANGED <<inflight, port, call>> /\ p # None /\ hand' = [hand EXCEPT ![w] = None]
    BY DEF Deliver, kernelVars
  <1>2. p \in PacketType /\ p \in Traces /\ p \in Packets /\ p.key \in Objects
        /\ \A v \in Workers \ {w} : hand'[v] = hand[v]
    BY <1>0, <1>1 DEF TypeOK, Traces, Packets, InHand, PacketType
  <1> HIDE DEF p
  <1>3. ASSUME NEW f \in Fibers, p.id # Id(f), Coming(f) PROVE Coming(f)'
    <2>1. PICK t \in Traces : t.id = Id(f)
      BY <1>3 DEF Coming
    <2>2. t \in Traces'
      BY <1>1, <1>2, <1>3, <2>1 DEF Traces, InHand, p
    <2> QED
      BY <1>1, <2>1, <2>2 DEF Coming, Id
  <1>4. CASE Hit(p) # {}
    <2>1. PICK e \in Hit(p) : Trigger(p.key, {e})
      BY <1>4 DEF Deliver, p
    <2>2. e \in events[p.key] /\ slot[p.key][e] = p.ctx /\ loss' = loss
      BY <1>4, <2>1 DEF Hit, Deliver, p
    <2>3. ASSUME NEW f \in Fibers, call[f].ctx # slot[p.key][e], Coming(f) PROVE Coming(f)'
      <3>1. p.id # Id(f)
        BY <1>0, <1>2, <2>2, <2>3, OwnTrace
      <3> QED
        BY <1>3, <2>3, <3>1
    <2> QED
      BY <1>1, <1>2, <2>1, <2>2, <2>3, AwaitedTrigger
  <1>5. CASE Hit(p) = {}
    <2>1. UNCHANGED <<pc, events, slot>> /\ Misses(p)
      BY <1>5 DEF Deliver, eventVars, p
    <2>2. ASSUME NEW f \in Fibers
          PROVE  /\ pc'[f] \in Unregistered => Coming(f)' \/ Lost(f)'
                 /\ pc'[f] \in Registered => (Registers(f)' /\ Coming(f)') \/ Lost(f)'
      <3>1. Id(f)' = Id(f) /\ (Registers(f)' <=> Registers(f))
        BY <1>1, <2>1 DEF Id, Registers
      <3>2. CASE f \notin Owners({p})
        <4>1. loss'[f] = loss[f]
          BY <2>1, <3>2 DEF Misses
        <4>2. pc[f] \in Unregistered \cup Registered => p.id # Id(f)
          BY <3>2 DEF Owners
        <4> QED
          BY <1>3, <2>1, <3>1, <4>1, <4>2, AwaitedStays
      <3>3. CASE f \in Owners({p}) /\ pc[f] \in Unregistered
        <4>1. loss'[f] = "overtaken" /\ p.id = Id(f)
          BY <2>1, <3>3 DEF Misses, Owners
        <4>2. ~Late
          BY <1>2, <3>3, <4>1 DEF Late
        <4>3. "overtaken" \in Causes
          BY <4>2 DEF Ruled, Causes, Losses
        <4> QED
          BY <2>1, <3>3, <4>1, <4>3, WorldStays DEF Lost
      <3>4. CASE f \in Owners({p}) /\ pc[f] \in Registered /\ call[f].object # p.key
        <4>1. loss'[f] = "strayed" /\ p.id = Id(f)
          BY <2>1, <3>4 DEF Misses, Owners
        <4>2. ~Fixed
          <5>1. Caller(p) = f /\ IsOfLast(p)
            BY <1>0, <1>2, <4>1, OwnTrace
          <5> QED
            BY <1>2, <3>4, <5>1 DEF Fixed
        <4>3. "strayed" \in Causes
          BY <4>2 DEF Ruled, Causes, Losses
        <4> QED
          BY <2>1, <3>4, <4>1, <4>3, WorldStays DEF Lost
      <3>5. CASE f \in Owners({p}) /\ pc[f] \in Registered /\ call[f].object = p.key
        <4>1. loss'[f] = loss[f] /\ p.id = Id(f)
          BY <2>1, <3>5 DEF Misses, Owners
        <4>2. ~Registers(f)
          <5>1. p.ctx = call[f].ctx
            BY <1>0, <1>2, <4>1, OwnTrace
          <5> QED
            BY <1>5, <3>5, <5>1 DEF Hit, Registers
        <4> QED
          BY <2>1, <3>5, <4>1, <4>2, WorldStays DEF Awaited, Lost
      <3> QED
        BY <3>2, <3>3, <3>4, <3>5 DEF Owners
    <2> QED
      BY <2>2 DEF Awaited
  <1> QED
    BY <1>4, <1>5

LEMMA AwaitedNext == Sound /\ Known /\ Ruled /\ Awaited /\ [Next]_vars => Awaited'
  <1> SUFFICES ASSUME Sound, Known, Ruled, Awaited, [Next]_vars PROVE Awaited'
    OBVIOUS
  <1>0. TypeOK
    BY DEF Sound
  <1>1. ASSUME NEW w \in Workers, NEW p \in port, Take(w, p) PROVE Awaited'
    <2>1. /\ UNCHANGED <<inflight, pc, call, events, slot, loss>> /\ port' = port \ {p} /\ hand[w] = None
          /\ hand' = [hand EXCEPT ![w] = p]
      BY <1>1 DEF Take, callVars, eventVars
    <2>2. hand'[w] = p /\ \A v \in Workers \ {w} : hand'[v] = hand[v]
      BY <1>0, <2>1 DEF TypeOK
    <2>3. p # None
      BY <1>0, NoneAssumption DEF TypeOK
    <2>4. Traces \subseteq Traces'
      BY <2>1, <2>2, <2>3 DEF Traces, InHand
    <2> QED
      BY <2>1, <2>4, WorldStays DEF Awaited, Registers, Coming, Lost, Id
  <1>2. CASE UNCHANGED vars
    BY <1>2, WorldStays DEF vars, Awaited, Registers, Coming, Traces, InHand, Lost, Id
  <1> QED
    BY <1>1, <1>2, AwaitedCall, AwaitedCancels, AwaitedClose, AwaitedKernel, AwaitedDeliver DEF Next, WorkerStep

(* A fiber that waits will be scheduled by somebody, unless one of five
   things has happened to its call, and each of them needs its cause.      *)
THEOREM WaitersAreAwaited == Spec => []NobodyForgotten
  <1>1. Init => Sound /\ Known /\ Ruled /\ Awaited
    BY SoundInit, KnownInit, RuledInit, AwaitedInit
  <1>2. Awaited => NobodyForgotten
    BY DEF Awaited, NobodyForgotten, Coming, Traces, Lost
  <1> QED
    BY <1>1, <1>2, SoundNext, KnownNext, RuledNext, AwaitedNext, PTL DEF Spec

-----------------------------------------------------------------------------
(* Where operations neither succeed at once nor are ended by closing the socket, a
   trace is of the call that its fiber waits in, there is one of each
   operation, and a fiber that has been scheduled finds its own length.    *)
Waits(f) == pc[f] \in Unregistered \cup Registered \cup {"dead"}

Owed == \A i \in Traces : Waits(Caller(i)) /\ i.id = Id(Caller(i))

Single ==
    /\ \A i, j \in inflight : i.id = j.id => i = j
    /\ \A p, q \in port : p.id = q.id => p = q
    /\ \A v, w \in Workers : hand[v] # None /\ hand[w] # None /\ hand[v].id = hand[w].id => v = w
    /\ \A i \in inflight, p \in port \cup InHand : i.id # p.id
    /\ \A p \in port, q \in InHand : p.id # q.id

Stored == \A f \in Fibers : pc[f] \in {"hailed", "ready", "leave"} => length[call[f].ctx] = Id(f)

PendsInv == Pends => AllOpen /\ Owed /\ Single /\ Stored

LEMMA PendsSteps ==
    ASSUME Sound, Pends, AllOpen, [Next]_vars
    PROVE  /\ AllOpen' /\ Pends'
           /\ \/ \E f \in Fibers, h \in Handles, kind \in Kinds, c \in Contexts : Begin(f, h, kind, c)
              \/ \E f \in Fibers : \/ IssuePending(f) \/ AddTimer(f) \/ FindContext(f) \/ MakeContext(f)
                                   \/ AddEvent(f) \/ AddEventFails(f) \/ Suspend(f) \/ Resume(f)
                                   \/ Return(f)
              \/ TimerStep
              \/ \E h \in Handles, e \in Events : SocketCancels(h, e)
              \/ \E i \in inflight : Complete(i) \/ Fail(i)
              \/ \E w \in Workers, p \in port : Take(w, p)
              \/ \E w \in Workers : Deliver(w)
              \/ UNCHANGED vars
  <1>1. \A h \in Handles : ~CloseStep(h)
    BY DEF Pends, AllOpen, CloseStep, CancelAll, CloseSocket, Reopen
  <1>2. \A f \in Fibers : ~IssueFails(f) /\ ~IssueSucceeds(f)
    BY DEF Sound, Placed, Pends, AllOpen, IssueFails, IssueSucceeds
  <1>3. UNCHANGED <<world, sock>>
    BY <1>1, <1>2 DEF Next, vars, FiberStep, TimerStep, WorkerStep, Begin, IssuePending, AddTimer, FindContext,
       MakeContext, AddEvent, AddEventFails, Suspend, Resume, Return, TimerExpires, TimerFires, TimerCancels,
       SocketCancels, Complete, Fail, Take, Deliver, kernelVars, restVars
  <1> QED
    BY <1>1, <1>2, <1>3 DEF Next, FiberStep, WorkerStep, AllOpen, Pends

(* A step that adds no trace and wakes nobody that waits.                  *)
LEMMA OwedStay ==
    ASSUME TypeOK, Owed, Traces' \subseteq Traces,
           \A f \in Fibers : Waits(f) => Waits(f)' /\ call'[f].n = call[f].n
    PROVE  Owed'
  <1>1. \A i \in Traces : Caller(i) \in Fibers
    BY TraceTyped
  <1> QED
    BY <1>1 DEF Owed, Id, Caller

LEMMA SingleStay ==
    ASSUME Single, inflight' \subseteq inflight, UNCHANGED <<port, hand>>
    PROVE  Single' /\ Traces' \subseteq Traces
  BY DEF Single, Traces, InHand

LEMMA StoredStay ==
    ASSUME Stored,
           \A f \in Fibers : pc'[f] \in {"hailed", "ready", "leave"} =>
               /\ pc[f] \in {"hailed", "ready", "leave"} /\ call'[f].ctx = call[f].ctx /\ call'[f].n = call[f].n
               /\ length'[call[f].ctx] = length[call[f].ctx]
    PROVE  Stored'
  BY DEF Stored, Id

LEMMA PendsInit == Init => PendsInv
  BY DEF Init, PendsInv, AllOpen, Owed, Single, Stored, Traces, InHand

(* The steps that leave the port, the hands and the lengths alone.         *)
LEMMA PendsStay ==
    ASSUME TypeOK, Owed, Single, Stored,
           inflight' \subseteq inflight, UNCHANGED <<port, hand, length>>,
           \A f \in Fibers :
               /\ Waits(f) => Waits(f)'
               /\ pc'[f] \in {"hailed", "ready", "leave"} => pc[f] \in {"hailed", "ready", "leave"}
               /\ call'[f].n = call[f].n /\ call'[f].ctx = call[f].ctx
    PROVE  Owed' /\ Single' /\ Stored'
  BY OwedStay, SingleStay, StoredStay

LEMMA PendsIssue ==
    ASSUME Sound, Owed, Single, Stored, NEW f \in Fibers, IssuePending(f)
    PROVE  Owed' /\ Single' /\ Stored'
  <1>0. TypeOK
    BY DEF Sound
  <1> DEFINE new == [handle |-> call[f].handle, ctx |-> call[f].ctx, id |-> Id(f)]
  <1>1. /\ inflight' = inflight \cup {new} /\ new.id = Id(f) /\ Caller(new) = f
        /\ UNCHANGED <<call, length, port, hand>> /\ pc[f] = "issue"
    BY DEF IssuePending, restVars, memoryVars, Id, Caller
  <1> HIDE DEF new
  <1>2. pc'[f] \in {"timer", "find"} /\ \A g \in Fibers \ {f} : pc'[g] = pc[g]
    BY <1>0, OneMoves DEF IssuePending
  <1>3. \A g \in Fibers : Waits(g) => Waits(g)'
    BY <1>1, <1>2 DEF Waits
  <1>4. \A i \in Traces : i.id # Id(f)
    <2> SUFFICES ASSUME NEW i \in Traces, i.id = Id(f) PROVE FALSE
      OBVIOUS
    <2>1. Caller(i) = f
      BY DEF Caller, Id
    <2> QED
      BY <1>1, <2>1 DEF Owed, Waits
  <1>5. Traces' = Traces \cup {new} /\ InHand' = InHand /\ inflight \subseteq Traces /\ port \cup InHand \subseteq Traces
    BY <1>1 DEF Traces, InHand
  <1>6. Owed'
    <2>1. \A i \in Traces : Caller(i) \in Fibers
      BY <1>0, TraceTyped
    <2>2. Waits(f)'
      BY <1>2 DEF Waits
    <2> QED
      BY <1>1, <1>3, <1>5, <2>1, <2>2 DEF Owed, Id, Caller
  <1>7. Single'
    BY <1>1, <1>4, <1>5 DEF Single
  <1>8. Stored'
    BY <1>1, <1>2, StoredStay
  <1> QED
    BY <1>6, <1>7, <1>8

LEMMA PendsComplete ==
    ASSUME Sound, Owed, Single, Stored, NEW i \in inflight, Complete(i)
    PROVE  Owed' /\ Single' /\ Stored'
  <1>0. TypeOK
    BY DEF Sound
  <1>1. /\ UNCHANGED <<pc, call, length, hand>> /\ inflight' = inflight \ {i}
        /\ port' = port \cup Packet(i.handle, i.ctx, i.id)
    BY DEF Complete, callVars, memoryVars, restVars
  <1>2. \A p \in Packet(i.handle, i.ctx, i.id) : p.id = i.id
    BY DEF Packet
  <1>3. \A p, q \in Packet(i.handle, i.ctx, i.id) : p = q
    BY DEF Packet
  <1>4. InHand' = InHand
    BY <1>1 DEF InHand
  <1>5. Single'
    BY <1>1, <1>2, <1>3, <1>4 DEF Single
  <1>6. Owed'
    <2>1. ASSUME NEW p \in Traces' PROVE \E t \in Traces : p.id = t.id
      BY <1>1, <1>2, <1>4 DEF Traces
    <2> QED
      BY <1>1, <2>1 DEF Owed, Waits, Caller, Id
  <1>7. Stored'
    BY <1>1, StoredStay
  <1> QED
    BY <1>5, <1>6, <1>7

LEMMA PendsTake ==
    ASSUME Sound, Owed, Single, Stored, NEW w \in Workers, NEW p \in port, Take(w, p)
    PROVE  Owed' /\ Single' /\ Stored'
  <1>0. TypeOK
    BY DEF Sound
  <1>1. /\ UNCHANGED <<pc, call, length, inflight>> /\ port' = port \ {p} /\ hand[w] = None
        /\ hand' = [hand EXCEPT ![w] = p]
    BY DEF Take, callVars, memoryVars
  <1>2. hand'[w] = p /\ \A v \in Workers \ {w} : hand'[v] = hand[v]
    BY <1>0, <1>1 DEF TypeOK
  <1>3. \A q \in InHand' : q = p \/ q \in InHand
    BY <1>2 DEF InHand
  <1>4. p \in PacketType /\ p # None
    BY <1>0, NoneAssumption DEF TypeOK
  <1>5. \A v \in Workers : hand[v] # None => hand[v] \in InHand
    BY DEF InHand
  <1>6. Single'
    <2>1. \A v, x \in Workers : hand'[v] # None /\ hand'[x] # None /\ hand'[v].id = hand'[x].id => v = x
      BY <1>2, <1>5 DEF Single
    <2>2. \A q \in inflight', r \in port' \cup InHand' : q.id # r.id
      BY <1>1, <1>3 DEF Single
    <2>3. \A q \in port', r \in InHand' : q.id # r.id
      BY <1>1, <1>3 DEF Single
    <2> QED
      BY <1>1, <2>1, <2>2, <2>3 DEF Single
  <1>7. Traces' \subseteq Traces
    BY <1>1, <1>3 DEF Traces
  <1>8. Owed'
    BY <1>0, <1>1, <1>7, OwedStay DEF Waits
  <1>9. Stored'
    BY <1>1, StoredStay
  <1> QED
    BY <1>6, <1>8, <1>9

(* The one step that stores a length and may wake a fiber: both are the
   packet's, whose call is the last of its fiber.                          *)
LEMMA PendsDeliver ==
    ASSUME Sound, Known, Owed, Single, Stored, NEW w \in Workers, Deliver(w)
    PROVE  Owed' /\ Single' /\ Stored'
  <1>0. TypeOK /\ Placed /\ OwnContext
    BY DEF Sound
  <1> DEFINE p == hand[w]
  <1>1. /\ UNCHANGED <<call, inflight, port>> /\ p # None /\ hand' = [hand EXCEPT ![w] = None]
        /\ length' = [length EXCEPT ![p.ctx] = p.id]
    BY DEF Deliver, kernelVars
  <1>2. /\ p \in Traces /\ p \in PacketType /\ hand'[w] = None
        /\ \A v \in Workers \ {w} : hand'[v] = hand[v]
    BY <1>0, <1>1 DEF TypeOK, Traces, InHand
  <1> DEFINE g == Caller(p)
  <1>3. /\ g \in Fibers /\ Waits(g) /\ p.id = Id(g) /\ p.ctx = call[g].ctx /\ p.ctx \in Contexts
        /\ p.key \in Objects
    BY <1>0, <1>2, TraceTyped DEF Owed, Known, PacketType
  <1> HIDE DEF g
  <1>4. \A c \in Contexts : length'[c] = IF c = p.ctx THEN p.id ELSE length[c]
    BY <1>0, <1>1 DEF TypeOK
  <1>5. InHand' \subseteq InHand /\ \A q \in InHand' : q.id # p.id
    <2>1. \A q \in InHand' : \E v \in Workers \ {w} : q = hand[v] /\ q # None
      BY <1>2 DEF InHand
    <2> QED
      BY <1>1, <2>1 DEF InHand, Single
  <1>6. Single'
    BY <1>1, <1>2, <1>5 DEF Single
  <1>7. \A q \in Traces' : q \in Traces /\ q.id # p.id
    <2>1. p \in InHand
      BY <1>1 DEF InHand
    <2> QED
      BY <1>1, <1>5, <2>1 DEF Traces, Single
  (* Only the caller of the packet changes its place. *)
  <1>8. /\ \A f \in Fibers \ {g} : pc'[f] = pc[f]
        /\ pc'[g] = pc[g] \/ pc'[g] \in {"hailed", "ready"}
    <2>1. CASE Hit(p) = {}
      BY <2>1 DEF Deliver
    <2>2. CASE Hit(p) # {}
      <3>1. PICK e \in Hit(p) : Trigger(p.key, {e})
        BY <2>2 DEF Deliver
      <3>2. e \in events[p.key] /\ slot[p.key][e] = p.ctx
        BY <3>1 DEF Hit
      <3>3. p.key \in Objects /\ e \in events[p.key] /\ Trigger(p.key, {e})
        BY <1>3, <3>1, <3>2
      <3>4. e = "READ"
        BY <3>3, WakesOne
      <3>5. PICK f \in Fibers : /\ pc[f] \in Registered /\ call[f].ctx = slot[p.key]["READ"] /\ call[f].object = p.key
                                /\ pc' = [pc EXCEPT ![f] = Scheduled(pc[f])]
        BY <3>3, WakesOne
      <3>6. f = g
        BY <1>0, <1>3, <3>2, <3>5, <3>4 DEF OwnContext, Waits
      <3> QED
        BY <1>0, <3>5, <3>6 DEF TypeOK, Scheduled
    <2> QED
      BY <2>1, <2>2
  <1>9. Owed'
    <2>1. ASSUME NEW q \in Traces' PROVE Caller(q) \in Fibers \ {g} /\ Waits(Caller(q)) /\ q.id = Id(Caller(q))
      BY <1>0, <1>3, <1>7, TraceTyped DEF Owed
    <2> QED
      BY <1>1, <1>8, <2>1 DEF Owed, Waits, Id, Caller
  <1>10. Stored'
    <2> SUFFICES ASSUME NEW f \in Fibers, pc'[f] \in {"hailed", "ready", "leave"} PROVE length'[call[f].ctx] = Id(f)
      BY <1>1 DEF Stored, Id
    <2>1. CASE f = g
      BY <1>3, <1>4, <2>1
    <2>2. CASE f # g
      <3>1. pc[f] \in {"hailed", "ready", "leave"} /\ call[f].ctx \in Contexts
        BY <1>0, <1>8, <2>2 DEF Placed
      <3>2. call[f].ctx # p.ctx
        BY <1>0, <1>3, <2>2, <3>1 DEF OwnContext, Waits
      <3> QED
        BY <1>4, <3>1, <3>2 DEF Stored
    <2> QED
      BY <2>1, <2>2
  <1> QED
    BY <1>6, <1>9, <1>10

LEMMA PendsNext == Sound /\ Known /\ PendsInv /\ [Next]_vars => PendsInv'
  <1>a. ASSUME Pends' PROVE ~[Next]_vars \/ Pends
    <2>1. [Next]_vars => world' = world
      BY DEF Next, vars, FiberStep, TimerStep, CloseStep, WorkerStep, Begin, IssueFails, IssueSucceeds,
         IssuePending, AddTimer, FindContext, MakeContext, AddEvent, AddEventFails, Suspend, Resume, Return,
         TimerExpires, TimerFires, TimerCancels, SocketCancels, CancelAll, CloseSocket, Reopen, Complete, Fail,
         Take, Deliver, restVars
    <2> QED
      BY <1>a, <2>1 DEF Pends
  <1> SUFFICES ASSUME Sound, Known, Pends, AllOpen, Owed, Single, Stored, [Next]_vars
               PROVE  AllOpen' /\ Owed' /\ Single' /\ Stored'
    BY <1>a DEF PendsInv
  <1>0. TypeOK /\ Placed
    BY DEF Sound
  <1>1. ASSUME NEW f \in Fibers, NEW h \in Handles, NEW kind \in Kinds, NEW c \in Contexts,
               Begin(f, h, kind, c)
        PROVE  Owed' /\ Single' /\ Stored'
    <2>1. /\ UNCHANGED <<inflight, port, hand>> /\ pc[f] = "none" /\ pc'[f] = "issue"
          /\ \A g \in Fibers \ {f} : pc'[g] = pc[g] /\ call'[g] = call[g]
          /\ length' = [length EXCEPT ![c] = None]
      BY <1>0, <1>1, OneMoves DEF Begin, TypeOK, kernelVars, restVars
    <2>2. \A g \in Fibers \ {f} : pc[g] # "none" => call[g].ctx # c /\ call[g].ctx \in Contexts
      BY <1>0, <1>1 DEF Begin, Live, Placed
    <2>3. \A x \in Contexts \ {c} : length'[x] = length[x]
      BY <1>0, <2>1 DEF TypeOK
    <2>4. Single' /\ Traces' \subseteq Traces
      BY <2>1, SingleStay
    <2>5. Owed'
      BY <1>0, <2>1, <2>4, OwedStay DEF Waits
    <2>6. Stored'
      BY <2>1, <2>2, <2>3, StoredStay
    <2> QED
      BY <2>4, <2>5, <2>6
  <1>2. ASSUME NEW f \in Fibers, \/ AddTimer(f) \/ AddEvent(f) \/ AddEventFails(f)
               \/ Suspend(f) \/ Resume(f) \/ Return(f)
        PROVE  Owed' /\ Single' /\ Stored'
    <2>1. UNCHANGED <<inflight, call, port, hand, length>>
      BY <1>2 DEF AddTimer, AddEvent, AddEventFails, Suspend, Resume, Return, kernelVars, restVars, memoryVars
    <2>2. PICK l \in {"find", "added", "held", "dead", "ready", "leave", "none"} :
             /\ Goto(f, l) /\ (Waits(f) => l \in {"find", "added", "held", "dead"})
             /\ (l = "ready" => pc[f] = "hailed") /\ (l = "leave" => pc[f] = "ready")
      BY <1>2 DEF AddTimer, AddEvent, AddEventFails, Suspend, Resume, Return, Waits
    <2>3. pc'[f] = l /\ \A g \in Fibers \ {f} : pc'[g] = pc[g]
      BY <1>0, <2>2, OneMoves
    <2> QED
      BY <1>0, <2>1, <2>2, <2>3, PendsStay DEF Waits
  <1>3. ASSUME NEW f \in Fibers, FindContext(f) \/ MakeContext(f)
        PROVE  Owed' /\ Single' /\ Stored'
    <2>1. UNCHANGED <<inflight, port, hand, length>>
      BY <1>3 DEF FindContext, MakeContext, kernelVars, restVars, memoryVars
    <2>2. PICK l \in {"make", "add"} : Goto(f, l)
      BY <1>3 DEF FindContext, MakeContext
    <2>3. pc'[f] = l /\ \A g \in Fibers \ {f} : pc'[g] = pc[g]
      BY <1>0, <2>2, OneMoves
    <2>4. \A g \in Fibers : call'[g].n = call[g].n /\ call'[g].ctx = call[g].ctx
      BY <1>0, <1>3, ObjectFound
    <2> QED
      BY <1>0, <2>1, <2>3, <2>4, PendsStay DEF Waits
  <1>4. ASSUME \/ TimerStep \/ \E h \in Handles, e \in Events : SocketCancels(h, e)
               \/ \E i \in inflight : Fail(i)
               \/ UNCHANGED vars
        PROVE  Owed' /\ Single' /\ Stored'
    <2>1. UNCHANGED <<pc, call, port, hand, length>> /\ inflight' \subseteq inflight
      BY <1>4 DEF TimerStep, TimerExpires, TimerFires, TimerCancels, SocketCancels, CancelEvent, Fail, vars, callVars,
         memoryVars, kernelVars, restVars
    <2>2. \A f \in Fibers : Waits(f)' <=> Waits(f)
      BY <2>1 DEF Waits
    <2> QED
      BY <1>0, <2>1, <2>2, PendsStay
  <1> QED
    BY <1>1, <1>2, <1>3, <1>4, PendsSteps, PendsIssue, PendsComplete, PendsTake, PendsDeliver

(* A call that returns a length returns that of its own operation, whatever
   other calls do on the descriptor, unless an operation succeeded at once
   or a socket was closed.                                                 *)
THEOREM OwnLength == Spec => OwnResult
  <1>1. Init => Sound /\ Known /\ PendsInv
    BY SoundInit, KnownInit, PendsInit
  <1>2. PendsInv => [\A f \in Fibers : Pends /\ pc[f] = "ready" /\ pc'[f] = "leave" /\ ~timedOut[f]
                        => length[call[f].ctx] = Id(f)]_vars
    BY DEF PendsInv, Stored
  <1> QED
    BY <1>1, <1>2, SoundNext, KnownNext, PendsNext, PTL DEF Spec, OwnResult
=============================================================================
