------------------------------ MODULE IOManager ------------------------------
(***************************************************************************)
(* Blocking socket calls over the completion port: do_socket (hook.cpp),   *)
(* the event contexts of sylar::IOManager and the delivery of completion   *)
(* packets in IOManager::idle (iomanager.cpp).                             *)
(*                                                                         *)
(* A fiber issues an overlapped operation, arms a timer, registers its     *)
(* event with the FdContext of the descriptor and suspends. A worker that  *)
(* takes the packet of the operation from the port schedules the fiber,    *)
(* which may not have suspended yet. The steps are the calls into the      *)
(* kernel and the critical sections of m_mutex and FdContext::mutex. A     *)
(* fiber that is scheduled runs on after it has suspended; module          *)
(* Scheduler takes that apart.                                             *)
(*                                                                         *)
(* The kernel, external: an operation ends once, by completing or with an  *)
(* error. The packet of a completion is queued if the socket is associated *)
(* with the port by then, and an operation that succeeds at once queues a  *)
(* packet as well. The packet of an error, a cancellation included, is     *)
(* consumed by the inner loop of idle() (iomanager.cpp:318-328) with no    *)
(* effect on anything, which is why no such packet is in the port here.    *)
(***************************************************************************)
EXTENDS Integers, FiniteSets

CONSTANTS
    Fibers,         \* fibers that make calls
    Handles,        \* values of socket descriptors
    Contexts,       \* addresses of EventContext objects
    Workers,        \* threads that run idle()
    Worlds,         \* what may happen: see WorldsAssumption
    None,
    MaxCalls,       \* bound: calls of a fiber
    MaxObjects,     \* bound: FdContext objects of a descriptor
    MaxCloses       \* bound: how often sockets are closed

Happens == {"immediate",    \* an operation succeeds at once
            "early",        \* an operation completes before the event is registered
            "error",        \* an operation ends with an error
            "timeout",      \* calls have a timeout
            "cancel",       \* Socket::cancelRead, cancelWrite, cancelAccept
            "close",        \* s_closesocket, and the descriptor's reuse
            "shared"}       \* a fiber receives while another one sends

(* A world: what may happen, and the descriptors some earlier call has been made
   on. *)
ASSUME WorldsAssumption ==
    \A w \in Worlds : w.env \subseteq Happens /\ w.warm \subseteq Handles

ASSUME BoundAssumption == MaxCalls \in Nat /\ MaxObjects \in Nat \ {0} /\ MaxCloses \in Nat

Events == {"READ", "WRITE"}
Kinds  == {"recv", "send"}

(* The FdContext objects: the i-th one that was made for h is <<h, i>>. *)
Objects == Handles \X (1..MaxObjects)

(* An operation is named by its fiber and the number of the call. *)
Ids == Fibers \X (1..MaxCalls)

(* What the kernel knows of an operation in progress, and a packet. *)
OperationType == [handle : Handles, ctx : Contexts, id : Ids]
PacketType    == [key : Objects, ctx : Contexts, id : Ids]

ASSUME NoneAssumption ==
    None \notin Contexts \cup Fibers \cup Objects \cup PacketType

VARIABLES
    world,
    pc,         \* where each fiber is in do_socket
    call,       \* the arguments and locals of its call
    timer,      \* the timer of its call
    timedOut,   \* timer_info::cancelled of its call
    cancels,    \* timer callbacks between setting it and cancelEvent
    length,     \* EventContext::dwDataLength
    waiter,     \* EventContext::fiber
    table,      \* m_fdContexts
    objects,    \* how many FdContexts have been made for a descriptor
    events,     \* FdContext::events
    slot,       \* FdContext::read and FdContext::write
    pending,    \* m_pendingEventCount
    sock,       \* the socket behind a descriptor
    key,        \* the key it is associated with the port under
    inflight,   \* the kernel's operations in progress
    port,       \* packets in the completion port
    hand,       \* the packet a worker has taken
    closes,     \* sockets closed so far
    failed,     \* has the assertion of addEvent failed?
    loss        \* why nothing will schedule the fiber of a call (history)

vars == <<world, pc, call, timer, timedOut, cancels, length, waiter, table, objects, events, slot,
          pending, sock, key, inflight, port, hand, closes, failed, loss>>

callVars   == <<pc, call, timer, timedOut, cancels>>
memoryVars == <<length, waiter>>
tableVars  == <<table, objects>>
eventVars  == <<events, slot, pending>>
kernelVars == <<sock, key, inflight, port>>
restVars   == <<world, hand, closes, failed>>

NoCall == [handle |-> None, kind |-> "recv", ctx |-> None, object |-> None, isNew |-> FALSE,
           n |-> 0]

Init ==
    /\ world \in Worlds
    /\ pc = [f \in Fibers |-> "none"]
    /\ call = [f \in Fibers |-> NoCall]
    /\ timer = [f \in Fibers |-> "none"]
    /\ timedOut = [f \in Fibers |-> FALSE]
    /\ cancels = {}
    /\ length = [c \in Contexts |-> None]
    /\ waiter = [c \in Contexts |-> None]
    /\ table = [h \in Handles |-> IF h \in world.warm THEN <<h, 1>> ELSE None]
    /\ objects = [h \in Handles |-> IF h \in world.warm THEN 1 ELSE 0]
    /\ events = [o \in Objects |-> {}]
    /\ slot = [o \in Objects |-> [e \in Events |-> None]]
    /\ pending = 0
    /\ sock = [h \in Handles |-> "open"]
    /\ key = table
    /\ inflight = {} /\ port = {}
    /\ hand = [w \in Workers |-> None]
    /\ closes = 0
    /\ failed = FALSE
    /\ loss = [f \in Fibers |-> None]

(* The event a call registers for: s_send passes READ, too (hook.cpp:378). *)
EventOf(kind) == "READ"

Id(f) == <<f, call[f].n>>

(* EventContexts that a call or an FdContext still holds. *)
Live(c) ==
    \/ \E f \in Fibers : pc[f] # "none" /\ call[f].ctx = c
    \/ \E o \in Objects, e \in Events : slot[o][e] = c

Goto(f, l) == pc' = [pc EXCEPT ![f] = l]

(* Between the operation and its registration, and from there to the packet. *)
Unregistered == {"timer", "find", "make", "add"}
Registered   == {"added", "held"}

(* The fibers that wait for one of these operations or packets. *)
Owners(I) == {f \in Fibers : pc[f] \in Unregistered \cup Registered /\ \E i \in I : i.id = Id(f)}

Lose(F, why) == loss' = [f \in Fibers |-> IF f \in F THEN why ELSE loss[f]]

-----------------------------------------------------------------------------
(* do_socket. *)

(* s_recv, s_send: a new EventContext, at any free address. *)
Begin(f, h, kind, c) ==
    /\ pc[f] = "none"
    /\ call[f].n < MaxCalls
    /\ sock[h] # "closed"
    /\ \A g \in Fibers : pc[g] # "none" /\ call[g].handle = h
                          => "shared" \in world.env /\ call[g].kind # kind
    /\ ~Live(c)
    /\ call' = [call EXCEPT ![f] = [handle |-> h, kind |-> kind, ctx |-> c, object |-> None,
                                    isNew |-> FALSE, n |-> @.n + 1]]
    /\ length' = [length EXCEPT ![c] = None]
    /\ waiter' = [waiter EXCEPT ![c] = None]
    /\ timedOut' = [timedOut EXCEPT ![f] = FALSE]
    /\ Goto(f, "issue")
    /\ UNCHANGED <<loss, timer, cancels, tableVars, eventVars, kernelVars, restVars>>

IssueFails(f) ==
    /\ pc[f] = "issue"
    /\ sock[call[f].handle] = "closed"
    /\ Goto(f, "none")
    /\ UNCHANGED <<loss, call, timer, timedOut, cancels, memoryVars, tableVars, eventVars, kernelVars,
                   restVars>>

Packet(h, c, id) == IF key[h] = None THEN {} ELSE {[key |-> key[h], ctx |-> c, id |-> id]}

(* The call returns the size of its buffers, its EventContext is freed. *)
IssueSucceeds(f) ==
    /\ "immediate" \in world.env
    /\ pc[f] = "issue"
    /\ sock[call[f].handle] # "closed"
    /\ port' = port \cup Packet(call[f].handle, call[f].ctx, Id(f))
    /\ Goto(f, "none")
    /\ UNCHANGED <<loss, call, timer, timedOut, cancels, sock, key, inflight, memoryVars, tableVars,
                   eventVars, restVars>>

IssuePending(f) ==
    /\ pc[f] = "issue"
    /\ sock[call[f].handle] # "closed"
    /\ inflight' = inflight \cup {[handle |-> call[f].handle, ctx |-> call[f].ctx, id |-> Id(f)]}
    /\ Goto(f, IF "timeout" \in world.env THEN "timer" ELSE "find")
    /\ UNCHANGED <<loss, call, timer, timedOut, cancels, sock, key, port, memoryVars, tableVars,
                   eventVars, restVars>>

AddTimer(f) ==
    /\ pc[f] = "timer"
    /\ timer' = [timer EXCEPT ![f] = "armed"]
    /\ Goto(f, "find")
    /\ UNCHANGED <<loss, call, timedOut, cancels, memoryVars, tableVars, eventVars, kernelVars, restVars>>

(* addEvent: look the FdContext up under the read lock ... *)
FindContext(f) ==
    LET o == table[call[f].handle] IN
    /\ pc[f] = "find"
    /\ IF o = None
       THEN Goto(f, "make") /\ UNCHANGED call
       ELSE Goto(f, "add") /\ call' = [call EXCEPT ![f].object = o]
    /\ UNCHANGED <<loss, timer, timedOut, cancels, memoryVars, tableVars, eventVars, kernelVars, restVars>>

(* ... and, if there was none, put a new one in under the write lock, without
   looking again. *)
MakeContext(f) ==
    LET h == call[f].handle
        o == <<h, objects[h] + 1>>
    IN
    /\ pc[f] = "make"
    /\ objects[h] < MaxObjects
    /\ table' = [table EXCEPT ![h] = o]
    /\ objects' = [objects EXCEPT ![h] = @ + 1]
    /\ call' = [call EXCEPT ![f].object = o, ![f].isNew = TRUE]
    /\ Goto(f, "add")
    /\ UNCHANGED <<loss, timer, timedOut, cancels, memoryVars, eventVars, kernelVars, restVars>>

(* The rest of addEvent, under the mutex of the FdContext. A socket keeps the key
   it was first associated with. *)
AddEvent(f) ==
    LET o == call[f].object
        h == call[f].handle
        e == EventOf(call[f].kind)
    IN
    /\ pc[f] = "add"
    /\ e \notin events[o]
    /\ events' = [events EXCEPT ![o] = @ \cup {e}]
    /\ slot' = [slot EXCEPT ![o][e] = call[f].ctx]
    /\ waiter' = [waiter EXCEPT ![call[f].ctx] = f]
    /\ key' = IF call[f].isNew /\ key[h] = None /\ sock[h] # "closed"
              THEN [key EXCEPT ![h] = o] ELSE key
    /\ pending' = pending + 1
    /\ Goto(f, "added")
    /\ UNCHANGED <<call, timer, timedOut, cancels, length, sock, inflight, port, tableVars, loss, restVars>>

(* The assertion that the event is not registered yet (iomanager.cpp:123). *)
AddEventFails(f) ==
    /\ pc[f] = "add"
    /\ EventOf(call[f].kind) \in events[call[f].object]
    /\ failed' = TRUE
    /\ Goto(f, "dead")
    /\ UNCHANGED <<loss, call, timer, timedOut, cancels, world, hand, closes, memoryVars, tableVars, eventVars,
                   kernelVars>>

(* YieldToHold, of a fiber that has been scheduled meanwhile or has not. *)
Suspend(f) ==
    /\ \/ pc[f] = "added" /\ Goto(f, "held")
       \/ pc[f] = "hailed" /\ Goto(f, "ready")
    /\ UNCHANGED <<call, timer, timedOut, cancels, memoryVars, tableVars, eventVars, kernelVars, loss,
                   restVars>>

(* The fiber runs again: it cancels the timer, which fails if the callback is
   listed, and decides on ETIMEDOUT or dwDataLength. *)
Resume(f) ==
    /\ pc[f] = "ready"
    /\ timer' = [timer EXCEPT ![f] = IF @ = "armed" THEN "none" ELSE @]
    /\ Goto(f, "leave")
    /\ UNCHANGED <<loss, call, timedOut, cancels, memoryVars, tableVars, eventVars, kernelVars, restVars>>

(* The call returns: a callback that has not run yet will find timer_info
   gone. *)
Return(f) ==
    /\ pc[f] = "leave"
    /\ timer' = [timer EXCEPT ![f] = "none"]
    /\ loss' = [loss EXCEPT ![f] = None]
    /\ Goto(f, "none")
    /\ UNCHANGED <<call, timedOut, cancels, memoryVars, tableVars, eventVars, kernelVars, restVars>>

-----------------------------------------------------------------------------
(* Timers and cancellation. *)

TimerExpires(f) ==
    /\ timer[f] = "armed"
    /\ timer' = [timer EXCEPT ![f] = "listed"]
    /\ UNCHANGED <<loss, pc, call, timedOut, cancels, memoryVars, tableVars, eventVars, kernelVars,
                   restVars>>

(* The callback finds the call still there, marks it and goes on to
   cancelEvent. *)
TimerFires(f) ==
    /\ timer[f] = "listed"
    /\ timer' = [timer EXCEPT ![f] = "none"]
    /\ timedOut' = [timedOut EXCEPT ![f] = TRUE]
    /\ cancels' = cancels \cup {[handle |-> call[f].handle, event |-> EventOf(call[f].kind),
                                 id |-> Id(f)]}
    /\ UNCHANGED <<loss, pc, call, memoryVars, tableVars, eventVars, kernelVars, restVars>>

(* What the lookup in m_fdContexts may have found by the time the caller gets to
   the mutex of the FdContext: it has let the read lock go in between, and an
   FdContext may be replaced in the table, but is never removed. *)
Found(h) == IF table[h] = None THEN {None} ELSE {h} \X (1..objects[h])

IsRegistered(o, e) == o # None /\ e \in events[o]

(* The fiber whose event e of o is. *)
Holder(o, e) == {f \in Fibers : pc[f] \in Registered /\ call[f].ctx = slot[o][e]}

Cancelled(o, e) == {i \in inflight : i.handle = o[1] /\ i.ctx = slot[o][e]}

(* A mutant: cancelEvent that does not count the event off. *)
CancelEventUncounted(o, e) ==
    /\ inflight' = inflight \ Cancelled(o, e)
    /\ events' = [events EXCEPT ![o] = @ \ {e}]
    /\ Lose(Holder(o, e), "cancelled")
    /\ UNCHANGED <<slot, pending>>

(* cancelEvent of a registered event. It clears the bit before it calls
   triggerEvent, which then finds nothing to trigger (iomanager.cpp:46, 212). *)
CancelEvent(o, e) ==
    /\ inflight' = inflight \ Cancelled(o, e)
    /\ events' = [events EXCEPT ![o] = @ \ {e}]
    /\ pending' = pending - 1
    /\ Lose(Holder(o, e), "cancelled")
    /\ UNCHANGED slot

TimerCancels(x) ==
    /\ x \in cancels
    /\ cancels' = cancels \ {x}
    /\ \E o \in Found(x.handle) :
          IF IsRegistered(o, x.event) THEN CancelEvent(o, x.event) ELSE UNCHANGED <<inflight, eventVars, loss>>
    /\ UNCHANGED <<pc, call, timer, timedOut, sock, key, port, memoryVars, tableVars, restVars>>

(* Socket::cancelRead, cancelAccept (READ) and cancelWrite (WRITE). *)
SocketCancels(h, e) ==
    /\ "cancel" \in world.env
    /\ \E o \in Found(h) : IsRegistered(o, e) /\ CancelEvent(o, e)
    /\ UNCHANGED <<sock, key, port, callVars, memoryVars, tableVars, restVars>>

(* The fiber is put into the queue of the scheduler; if it is still on its way to
   YieldToHold it runs on when it has got there. *)
Scheduled(l) == IF l = "added" THEN "hailed" ELSE "ready"

(* A mutant: triggerEvent that leaves the bits set. *)
TriggerKeeps(o, E) ==
    /\ slot' = [slot EXCEPT ![o] = [e \in Events |-> IF e \in E THEN None ELSE @[e]]]
    /\ pending' = pending - Cardinality(E)
    /\ pc' = [f \in Fibers |-> IF \E e \in E : waiter[slot[o][e]] = f THEN Scheduled(pc[f]) ELSE pc[f]]
    /\ waiter' = [c \in Contexts |-> IF \E e \in E : slot[o][e] = c THEN None ELSE waiter[c]]
    /\ UNCHANGED events

(* triggerEvent and resetContext for the events E of o, all registered. *)
Trigger(o, E) ==
    /\ events' = [events EXCEPT ![o] = @ \ E]
    /\ slot' = [slot EXCEPT ![o] = [e \in Events |-> IF e \in E THEN None ELSE @[e]]]
    /\ pending' = pending - Cardinality(E)
    /\ pc' = [f \in Fibers |-> IF \E e \in E : waiter[slot[o][e]] = f THEN Scheduled(pc[f]) ELSE pc[f]]
    /\ waiter' = [c \in Contexts |-> IF \E e \in E : slot[o][e] = c THEN None ELSE waiter[c]]

OperationsOn(h) == {i \in inflight : i.handle = h}

(* s_closesocket: cancelAll ... *)
CancelAll(h) ==
    /\ "close" \in world.env
    /\ closes < MaxCloses
    /\ sock[h] = "open"
    /\ sock' = [sock EXCEPT ![h] = "closing"]
    /\ closes' = closes + 1
    /\ \E o \in Found(h) :
          IF o # None /\ events[o] # {}
          THEN /\ inflight' = inflight \ OperationsOn(h)
               /\ Lose(Owners(OperationsOn(h)), "closed")
               /\ Trigger(o, events[o])
          ELSE UNCHANGED <<inflight, pc, waiter, eventVars, loss>>
    /\ UNCHANGED <<call, timer, timedOut, cancels, length, key, port, world, hand, failed, tableVars>>

(* ... and closesocket, which ends what is still in progress. *)
CloseSocket(h) ==
    /\ sock[h] = "closing"
    /\ sock' = [sock EXCEPT ![h] = "closed"]
    /\ key' = [key EXCEPT ![h] = None]
    /\ inflight' = inflight \ OperationsOn(h)
    /\ Lose(Owners(OperationsOn(h)), "closed")
    /\ UNCHANGED <<port, callVars, memoryVars, tableVars, eventVars, restVars>>

(* s_socket gets the value of a closed descriptor again. *)
Reopen(h) ==
    /\ sock[h] = "closed"
    /\ sock' = [sock EXCEPT ![h] = "open"]
    /\ UNCHANGED <<key, inflight, port, callVars, memoryVars, tableVars, eventVars, loss, restVars>>

-----------------------------------------------------------------------------
(* The kernel and the workers. *)

(* An operation completes; there is no packet while the socket is not associated
   with the port. *)
Complete(i) ==
    /\ i \in inflight
    /\ "early" \in world.env \/ \A f \in Owners({i}) : pc[f] \in Registered
    /\ inflight' = inflight \ {i}
    /\ port' = port \cup Packet(i.handle, i.ctx, i.id)
    /\ Lose(IF key[i.handle] = None THEN Owners({i}) ELSE {}, "strayed")
    /\ UNCHANGED <<sock, key, callVars, memoryVars, tableVars, eventVars, restVars>>

(* An operation ends with an error, as when the peer resets the connection.
   GetQueuedCompletionStatus returns FALSE with its packet, the inner loop of idle()
   goes on, and the registration stays. *)
Fail(i) ==
    /\ "error" \in world.env
    /\ i \in inflight
    /\ inflight' = inflight \ {i}
    /\ Lose(Owners({i}), "error")
    /\ UNCHANGED <<sock, key, port, callVars, memoryVars, tableVars, eventVars, restVars>>

(* idle(): GetQueuedCompletionStatus returns a packet. *)
Take(w, p) ==
    /\ hand[w] = None
    /\ p \in port
    /\ port' = port \ {p}
    /\ hand' = [hand EXCEPT ![w] = p]
    /\ UNCHANGED <<sock, key, inflight, world, closes, failed, callVars, memoryVars, tableVars, eventVars,
                   loss>>

(* A mutant: idle() that does not compare the packet with the registration. *)
HitAny(p) == events[p.key]

(* A mutant: the comparison the wrong way round. *)
HitOthers(p) == {e \in events[p.key] : slot[p.key][e] # p.ctx}

(* The registrations that the packet belongs to. *)
Hit(p) == {e \in events[p.key] : slot[p.key][e] = p.ctx}

(* A packet that nothing is registered for is dropped: it came before the
   registration, or to another FdContext than the one of the registration. *)
Misses(p) ==
    loss' = [f \in Fibers |-> IF f \notin Owners({p}) THEN loss[f]
                              ELSE IF pc[f] \in Unregistered THEN "overtaken"
                              ELSE IF call[f].object # p.key THEN "strayed"
                              ELSE loss[f]]

(* The packet is looked up under the mutex of the FdContext, its length stored
   through the address it carries. *)
Deliver(w) ==
    LET p == hand[w] IN
    /\ p # None
    /\ length' = [length EXCEPT ![p.ctx] = p.id]
    /\ IF Hit(p) # {}
       THEN /\ \E e \in Hit(p) : Trigger(p.key, {e})
            /\ UNCHANGED loss
       ELSE /\ Misses(p)
            /\ UNCHANGED <<pc, waiter, eventVars>>
    /\ hand' = [hand EXCEPT ![w] = None]
    /\ UNCHANGED <<call, timer, timedOut, cancels, world, closes, failed, tableVars, kernelVars>>

-----------------------------------------------------------------------------
FiberStep(f) ==
    \/ IssueFails(f) \/ IssueSucceeds(f) \/ IssuePending(f) \/ AddTimer(f)
    \/ FindContext(f) \/ MakeContext(f) \/ AddEvent(f) \/ AddEventFails(f)
    \/ Suspend(f) \/ Resume(f) \/ Return(f)

TimerStep ==
    \/ \E f \in Fibers : TimerExpires(f) \/ TimerFires(f)
    \/ \E x \in cancels : TimerCancels(x)

CloseStep(h) == CancelAll(h) \/ CloseSocket(h) \/ Reopen(h)

WorkerStep(w) == (\E p \in port : Take(w, p)) \/ Deliver(w)

Next ==
    \/ \E f \in Fibers, h \in Handles, kind \in Kinds, c \in Contexts : Begin(f, h, kind, c)
    \/ \E f \in Fibers : FiberStep(f)
    \/ TimerStep
    \/ \E h \in Handles, e \in Events : SocketCancels(h, e)
    \/ \E h \in Handles : CloseStep(h)
    \/ \E i \in inflight : Complete(i) \/ Fail(i)
    \/ \E w \in Workers : WorkerStep(w)

Spec == Init /\ [][Next]_vars

(* Fibers that can run do run, workers take and deliver packets, timer
   callbacks run to their end, and the peer answers: every operation in
   progress completes. Nobody has to make, cancel or close anything. *)
FairSpec ==
    /\ Spec
    /\ \A f \in Fibers : WF_vars(FiberStep(f))
    /\ \A w \in Workers : WF_vars(WorkerStep(w))
    /\ WF_vars(TimerStep)
    /\ WF_vars(\E i \in inflight : Complete(i))

-----------------------------------------------------------------------------
Places == {"none", "issue", "timer", "find", "make", "add", "added", "hailed", "held", "ready",
           "leave", "dead"}

Losses == {"error", "overtaken", "cancelled", "closed", "strayed"}

CallType ==
    [handle : Handles \cup {None}, kind : Kinds, ctx : Contexts \cup {None},
     object : Objects \cup {None}, isNew : BOOLEAN, n : 0..MaxCalls]

TypeOK ==
    /\ pc \in [Fibers -> Places]
    /\ call \in [Fibers -> CallType]
    /\ timer \in [Fibers -> {"none", "armed", "listed"}] /\ timedOut \in [Fibers -> BOOLEAN]
    /\ cancels \subseteq [handle : Handles, event : Events, id : Ids]
    /\ length \in [Contexts -> Ids \cup {None}]
    /\ waiter \in [Contexts -> Fibers \cup {None}]
    /\ table \in [Handles -> Objects \cup {None}]
    /\ objects \in [Handles -> 0..MaxObjects]
    /\ events \in [Objects -> SUBSET Events]
    /\ slot \in [Objects -> [Events -> Contexts \cup {None}]]
    /\ pending \in Nat
    /\ sock \in [Handles -> {"open", "closing", "closed"}]
    /\ key \in [Handles -> Objects \cup {None}]
    /\ inflight \subseteq OperationType
    /\ port \subseteq PacketType
    /\ hand \in [Workers -> PacketType \cup {None}]
    /\ closes \in 0..MaxCloses /\ failed \in BOOLEAN
    /\ loss \in [Fibers -> Losses \cup {None}]

Registrations == {r \in Objects \X Events : r[2] \in events[r[1]]}

(* stopping() asks m_pendingEventCount whether fibers still wait for events:
   it counts the registrations, those in an FdContext that a second addEvent
   has replaced in the table included, along every path that ends one. *)
PendingExact == pending = Cardinality(Registrations)

(* What is registered belongs to a fiber that is in the call that registered it
   and has not been scheduled since: nobody is scheduled twice for one call, or
   when it has left the call, whichever of packet, timeout, cancellation and close
   comes first (iomanager.cpp:44-69, 201-215, 240-250, 347-353). *)
RegisteredAwaits ==
    \A r \in Registrations : \E f \in Fibers :
        /\ pc[f] \in Registered
        /\ call[f].ctx = slot[r[1]][r[2]]
        /\ call[f].object = r[1]
        /\ waiter[call[f].ctx] = f

(* What may keep a fiber from being scheduled, by what happens in this world: an
   error, a packet that is handled before the registration, cancelEvent, cancelAll
   or closesocket before the registration, and a descriptor that is not associated
   with the FdContext of the registration. *)
Causes ==
    {c \in Losses :
        /\ c = "error" => "error" \in world.env
        /\ c = "overtaken" => "early" \in world.env
        /\ c = "cancelled" => world.env \cap {"cancel", "timeout"} # {}
        /\ c = "closed" => "close" \in world.env
        /\ c = "strayed" => "close" \in world.env \/ world.warm # Handles}

Registers(f) ==
    LET o == call[f].object
        e == EventOf(call[f].kind)
    IN  e \in events[o] /\ slot[o][e] = call[f].ctx

InHand == {hand[w] : w \in {v \in Workers : hand[v] # None}}

(* A fiber that waits is registered and its operation is in progress or its packet
   still to be handled, so that somebody will schedule it, unless one of five things
   has happened to this call, of which each needs its cause: nobody else is
   forgotten (hook.cpp:127-185, iomanager.cpp:96-219, 341-354). *)
NobodyForgotten ==
    \A f \in Fibers : pc[f] \in Registered =>
        \/ Registers(f) /\ \E i \in inflight \cup port \cup InHand : i.id = Id(f)
        \/ loss[f] \in Causes

(* As long as no operation succeeds at once and no socket is closed. *)
Pends == world.env \cap {"immediate", "close"} = {}

(* A call that returns a length returns that of its own operation. *)
OwnResult ==
    [][\A f \in Fibers : Pends /\ pc[f] = "ready" /\ pc'[f] = "leave" /\ ~timedOut[f]
          => length[call[f].ctx] = Id(f)]_vars

(* Under fairness every call returns. *)
CallsReturn == \A f \in Fibers : pc[f] # "none" ~> pc[f] = "none"
=============================================================================
