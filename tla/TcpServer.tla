----------------------------- MODULE TcpServer -----------------------------
(***************************************************************************)
(* The listening side of sylar::TcpServer (tcp_server.cpp): bind, start,   *)
(* stop and the accept loops, over Socket::accept, init and close          *)
(* (socket.cpp), the table of FdCtx (fd_manager.cpp) and the hooks         *)
(* s_socket, s_accept, s_closesocket and s_setsockopt (hook.cpp).          *)
(*                                                                         *)
(* One accept loop per listening socket runs as a fiber of the accept      *)
(* worker; the function that stop() schedules is another one, and the pool *)
(* of main.cpp has two threads, so their steps interleave. A step is a     *)
(* call into the kernel or into a table with a lock of its own.            *)
(*                                                                         *)
(* The kernel, external, hands the values of closed descriptors out again, *)
(* queues clients at listening sockets and completes a pending AcceptEx    *)
(* with one of them; the packet reaches the port if the listening socket   *)
(* is associated with it by then. A packet whose call has been woken       *)
(* already, or succeeded at once, finds nobody registered: such packets    *)
(* are left out here, module IOManager has them. What a client's handler   *)
(* does with it is left to module RequestStream: here it closes it, some   *)
(* time.                                                                   *)
(***************************************************************************)
EXTENDS Integers, Sequences, FiniteSets, SequencesExt

CONSTANTS
    Addrs,          \* the addresses to listen at
    Handles,        \* values of socket descriptors
    Peers,          \* clients, each connects once
    Worlds,         \* what happens: see WorldsAssumption
    None,
    MaxObjects,     \* bound: listening Socket objects
    MaxLoops,       \* bound: accept loops started
    MaxStops        \* bound: calls of stop

(* An orderly caller waits until the server has come to rest before it binds
   or starts it again, a hasty one does not. *)
Manners == {"orderly", "hasty"}

(* A world: the callers' manners, the clients that come, whether an accept that
   pends may end with an error, how many descriptors the process may have, and
   bounds on the calls of bind and stop and the accept loops. *)
ASSUME WorldsAssumption ==
    \A w \in Worlds : /\ w.manners \in Manners /\ w.peers \subseteq Peers
                      /\ w.errors \in BOOLEAN /\ w.limit \in Nat
                      /\ w.binds \in Nat /\ w.loops \in 0..MaxLoops /\ w.stops \in 0..MaxStops

ASSUME ServerBounds ==
    /\ IsFiniteSet(Addrs) /\ MaxObjects \in Nat /\ MaxLoops \in Nat /\ MaxStops \in Nat
    /\ Handles \subseteq Nat /\ None \notin Handles \cup Peers \cup (1..MaxLoops)
    /\ \A recv, stale \in BOOLEAN : None # [recv |-> recv, stale |-> stale]

Objects == 1..MaxObjects
Loops   == 1..MaxLoops
Stops   == 1..MaxStops

VARIABLES
    world,      \* one of Worlds
    isStop,     \* m_isStop
    socks,      \* m_socks: listening Socket objects
    fails,      \* the vector of failed addresses that the caller passes
    sock,       \* m_sock of each listening object
    made,       \* listening objects made so far
    binds,      \* calls of bind so far
    pc,         \* where each accept loop is
    loop,       \* its object, the descriptor it read there, the accepting socket
    stop,       \* the functions scheduled by stop()
    closing,    \* calls of s_closesocket in progress
    datas,      \* FdManager::m_datas
    reg,        \* the accept loop registered for READ at a descriptor
    known,      \* descriptors with an FdContext, which is never removed
    kind,       \* the kernel's socket behind a descriptor
    peer,       \* the client it is connected to
    backlog,    \* clients queued at a listening socket
    inflight,   \* pending AcceptEx
    assoc,      \* sockets associated with the port
    port,       \* packets in the port
    clients,    \* descriptors handed to handleClient and not closed by it
    served,     \* how often each client has been handed over
    phantoms,   \* has a socket without a client been handed over?
    crashed     \* null pointer, failed assertion or invalidated iterator

apiVars    == <<world, isStop, socks, fails, made, binds>>
fdVars     == <<closing, datas>>
eventVars  == <<reg, known>>
kernelVars == <<kind, peer, backlog, inflight, assoc, port>>
handVars   == <<clients, served, phantoms>>
vars == <<apiVars, sock, pc, loop, stop, fdVars, eventVars, kernelVars, handVars, crashed>>

NoLoop == [obj |-> None, lfd |-> None, new |-> None]

Init ==
    /\ world \in Worlds
    /\ isStop = TRUE
    /\ socks = <<>> /\ fails = {}
    /\ sock = [o \in Objects |-> None]
    /\ made = 0 /\ binds = 0
    /\ pc = [a \in Loops |-> "none"]
    /\ loop = [a \in Loops |-> NoLoop]
    /\ stop = [s \in Stops |-> [at |-> "none", left |-> <<>>]]
    /\ closing = {}
    /\ datas = [h \in Handles |-> None]
    /\ reg = [h \in Handles |-> None]
    /\ known = {}
    /\ kind = [h \in Handles |-> "free"]
    /\ peer = [h \in Handles |-> None]
    /\ backlog = [h \in Handles |-> {}]
    /\ inflight = {} /\ assoc = {} /\ port = {}
    /\ clients = {}
    /\ served = [p \in Peers |-> 0]
    /\ phantoms = FALSE
    /\ crashed = FALSE

Free == {h \in Handles : kind[h] = "free" /\ h <= world.limit}

(* The descriptor that the kernel hands out next. *)
NextFree == CHOOSE h \in Free : \A g \in Free : h <= g

Goto(a, l) == pc' = [pc EXCEPT ![a] = l]

Running(a) == pc[a] \notin {"none", "done"}

(* Nothing the server has started is still under way. *)
AtRest ==
    /\ \A a \in Loops : ~Running(a)
    /\ \A s \in Stops : stop[s].at \in {"none", "done"}
    /\ closing = {}

-----------------------------------------------------------------------------
(* The calls of the server's owner. *)

(* FdCtx::init: no timeout is set. stale marks the FdCtx of a socket that the
   kernel has closed. *)
NewCtx == [recv |-> FALSE, stale |-> FALSE]

(* Is a function of stop() going through m_socks? Whoever changes the vector then
   pulls it from under its iterator. *)
Iterating(except) == socks # <<>> /\ \E s \in Stops \ except :
                                          stop[s].at \in {"cancel", "close", "closing"}

(* Every address is bound and listened at, each with a descriptor of its own and
   the FdCtx that is found under it, or a new one. *)
BindSucceeds(passed, fd) ==
    LET new(o) == o - made IN
    /\ binds < world.binds /\ made + Cardinality(Addrs) <= MaxObjects
    /\ passed = {}
    /\ IsInjective(fd)
    /\ binds' = binds + 1
    /\ made' = made + Len(fd)
    /\ fails' = passed
    /\ socks' = socks \o [i \in DOMAIN fd |-> made + i]
    /\ sock' = [o \in Objects |-> IF new(o) \in DOMAIN fd THEN fd[new(o)] ELSE sock[o]]
    /\ kind' = [h \in Handles |-> IF h \in Range(fd) THEN "listening" ELSE kind[h]]
    /\ datas' = [h \in Handles |-> IF h \in Range(fd) /\ datas[h] = None THEN NewCtx
                                   ELSE datas[h]]
    /\ UNCHANGED <<world, isStop, pc, loop, stop, closing, eventVars, peer, backlog, inflight,
                   assoc, port, handVars>>

(* m_socks.clear(): what no loop holds as well is closed by ~Socket. *)
Clear ==
    LET held == {loop[a].obj : a \in {b \in Loops : Running(b)}}
        dropped == {sock[o] : o \in Range(socks) \ held}
    IN
    /\ socks' = <<>>
    /\ sock' = [o \in Objects |-> IF sock[o] \in dropped THEN None ELSE sock[o]]
    /\ kind' = [h \in Handles |-> IF h \in dropped THEN "free" ELSE kind[h]]
    /\ datas' = [h \in Handles |-> IF h \in dropped THEN None ELSE datas[h]]
    /\ backlog' = [h \in Handles |-> IF h \in dropped THEN {} ELSE backlog[h]]
    /\ inflight' = {i \in inflight : i.lfd \notin dropped /\ i.new \notin dropped}
    /\ assoc' = assoc \ dropped

(* An address fails, or has failed in an earlier call with the same vector.
   What this call has opened is closed before it returns. *)
BindFails(F, passed) ==
    /\ binds < world.binds
    /\ passed \cup F # {}
    /\ binds' = binds + 1
    /\ fails' = passed \cup F
    /\ Clear
    /\ UNCHANGED <<world, isStop, made, pc, loop, stop, closing, eventVars, peer, port, handVars>>

Bind ==
    /\ world.manners = "hasty" \/ (isStop /\ AtRest)
    /\ \E passed \in {{}, fails} :
          \/ \E fd \in [1..Cardinality(Addrs) -> Free] : BindSucceeds(passed, fd)
          \/ \E F \in SUBSET Addrs : BindFails(F, passed)
    /\ crashed' = Iterating({})

(* start() schedules a loop per socket, unless the server runs. *)
Start ==
    LET first == Cardinality({a \in Loops : pc[a] # "none"})
        new(a) == a - first
    IN
    /\ isStop
    /\ first + Len(socks) <= world.loops
    /\ world.manners = "hasty" \/ AtRest
    /\ isStop' = FALSE
    /\ pc' = [a \in Loops |-> IF new(a) \in DOMAIN socks THEN "loop" ELSE pc[a]]
    /\ loop' = [a \in Loops |-> IF new(a) \in DOMAIN socks
                                THEN [NoLoop EXCEPT !.obj = socks[new(a)]] ELSE loop[a]]
    /\ UNCHANGED <<world, socks, fails, made, binds, sock, stop, fdVars, eventVars, kernelVars,
                   handVars, crashed>>

(* stop() marks the server and schedules the rest. *)
Stop(s) ==
    /\ stop[s].at = "none" /\ s <= world.stops
    /\ \A t \in Stops : t < s => stop[t].at # "none"
    /\ world.manners = "hasty" \/ ~isStop
    /\ isStop' = TRUE
    /\ stop' = [stop EXCEPT ![s].at = "queued"]
    /\ UNCHANGED <<world, socks, fails, made, binds, sock, pc, loop, fdVars, eventVars,
                   kernelVars, handVars, crashed>>

Crash ==
    /\ crashed' = TRUE
    /\ UNCHANGED <<apiVars, sock, pc, loop, stop, fdVars, eventVars, kernelVars, handVars>>

-----------------------------------------------------------------------------
(* s_closesocket, called by a loop, a function of stop() or a handler. *)

Close(fd, by) == [fd |-> fd, by |-> by, at |-> "cancel"]

(* A mutant: cancelAll that clears the event before it triggers it, as cancelEvent
   does. *)
CancelAllQuietly(fd) ==
    /\ reg' = [h \in Handles |-> IF h = fd THEN None ELSE reg[h]]
    /\ inflight' = {i \in inflight : i.lfd # fd}
    /\ UNCHANGED <<port, pc>>

(* cancelAll: whoever is registered is woken, as by a packet: nothing tells it
   that its operation has been cancelled. *)
CancelAll(fd) ==
    IF fd \in known /\ reg[fd] # None
    THEN /\ inflight' = {i \in inflight : i.lfd # fd}
         /\ port' = {q \in port : q.by # reg[fd]}
         /\ Goto(reg[fd], "init")
         /\ reg' = [reg EXCEPT ![fd] = None]
    ELSE UNCHANGED <<inflight, port, pc, reg>>

(* A mutant: the FdCtx stays in the table. *)
CloseCancelsOnly(c) ==
    /\ c.at = "cancel"
    /\ closing' = (closing \ {c}) \cup {[c EXCEPT !.at = "close"]}
    /\ CancelAll(c.fd)
    /\ UNCHANGED <<apiVars, sock, loop, stop, datas, known, kind, peer, backlog, assoc, handVars,
                   crashed>>

(* The hook does nothing but close the descriptor if it has no FdCtx. *)
CloseCancels(c) ==
    /\ c.at = "cancel"
    /\ IF datas[c.fd] = None
       THEN /\ closing' = (closing \ {c}) \cup {[c EXCEPT !.at = "close"]}
            /\ UNCHANGED <<inflight, port, pc, reg>>
       ELSE /\ closing' = (closing \ {c}) \cup {[c EXCEPT !.at = "del"]}
            /\ CancelAll(c.fd)
    /\ UNCHANGED <<apiVars, sock, loop, stop, datas, known, kind, peer, backlog, assoc, handVars,
                   crashed>>

CloseDeletes(c) ==
    /\ c.at = "del"
    /\ closing' = (closing \ {c}) \cup {[c EXCEPT !.at = "close"]}
    /\ datas' = [datas EXCEPT ![c.fd] = None]
    /\ UNCHANGED <<apiVars, sock, pc, loop, stop, eventVars, kernelVars, handVars, crashed>>

(* closesocket: what is pending ends, without a packet that anybody sees. *)
CloseEnds(c) ==
    /\ c.at = "close"
    /\ closing' = closing \ {c}
    /\ kind' = [kind EXCEPT ![c.fd] = "free"]
    /\ peer' = [peer EXCEPT ![c.fd] = None]
    /\ backlog' = [backlog EXCEPT ![c.fd] = {}]
    /\ inflight' = {i \in inflight : c.fd \notin {i.lfd, i.new}}
    /\ assoc' = assoc \ {c.fd}
    /\ datas' = [datas EXCEPT ![c.fd] = IF @ = None THEN None ELSE [@ EXCEPT !.stale = TRUE]]
    /\ UNCHANGED <<apiVars, sock, pc, loop, stop, eventVars, port, handVars, crashed>>

-----------------------------------------------------------------------------
(* The function that stop() schedules: a range-based loop over m_socks. *)

StopBegins(s) ==
    /\ stop[s].at = "queued"
    /\ stop' = [stop EXCEPT ![s] = [at |-> "cancel", left |-> socks]]
    /\ UNCHANGED <<apiVars, sock, pc, loop, fdVars, eventVars, kernelVars, handVars, crashed>>

(* Socket::cancelAll; the descriptor -1 has no FdContext. *)
StopCancels(s) ==
    LET o == Head(stop[s].left) IN
    /\ stop[s].at = "cancel" /\ stop[s].left # <<>>
    /\ stop' = [stop EXCEPT ![s].at = "close"]
    /\ CancelAll(sock[o])
    /\ UNCHANGED <<apiVars, sock, loop, fdVars, known, kind, peer, backlog, assoc, handVars,
                   crashed>>

(* Socket::close ... *)
StopCloses(s) ==
    LET o == Head(stop[s].left) IN
    /\ stop[s].at = "close"
    /\ IF sock[o] = None
       THEN /\ stop' = [stop EXCEPT ![s].at = "cancel", ![s].left = Tail(@)]
            /\ UNCHANGED closing
       ELSE /\ stop' = [stop EXCEPT ![s].at = "closing"]
            /\ closing' = closing \cup {Close(sock[o], <<"stop", s>>)}
    /\ UNCHANGED <<apiVars, sock, pc, loop, datas, eventVars, kernelVars, handVars, crashed>>

(* ... which forgets the descriptor after it has closed it. *)
StopForgets(s) ==
    /\ stop[s].at = "closing"
    /\ ~\E c \in closing : c.by = <<"stop", s>>
    /\ sock' = [sock EXCEPT ![Head(stop[s].left)] = None]
    /\ stop' = [stop EXCEPT ![s].at = "cancel", ![s].left = Tail(@)]
    /\ UNCHANGED <<apiVars, pc, loop, fdVars, eventVars, kernelVars, handVars, crashed>>

StopEnds(s) ==
    /\ stop[s].at = "cancel" /\ stop[s].left = <<>>
    /\ stop' = [stop EXCEPT ![s] = [at |-> "done", left |-> <<>>]]
    /\ Clear
    /\ crashed' = Iterating({s})
    /\ UNCHANGED <<world, isStop, fails, made, binds, pc, loop, closing, eventVars, peer, port,
                   handVars>>

-----------------------------------------------------------------------------
(* startAccept. *)

(* The locals of a loop between two calls of accept. *)
Between(a) == [NoLoop EXCEPT !.obj = loop[a].obj]

(* A loop that holds the last reference of its Socket takes it along: ~Socket
   closes it. *)
LastHolder(a) ==
    LET o == loop[a].obj IN
    /\ o \notin Range(socks) /\ sock[o] # None
    /\ \A b \in Loops \ {a} : Running(b) => loop[b].obj # o

Leave(a) ==
    LET o == loop[a].obj IN
    /\ pc[a] = "loop" /\ isStop
    /\ IF LastHolder(a)
       THEN /\ closing' = closing \cup {Close(sock[o], <<"loop", a>>)}
            /\ sock' = [sock EXCEPT ![o] = None]
       ELSE UNCHANGED <<closing, sock>>
    /\ Goto(a, "done")
    /\ UNCHANGED <<apiVars, loop, stop, datas, eventVars, kernelVars, handVars, crashed>>

(* Socket::accept: s_socket, which returns -1 if there is no descriptor left. *)
NewSocket(a) ==
    /\ pc[a] = "loop" /\ ~isStop
    /\ \/ /\ Free # {}
          /\ loop' = [loop EXCEPT ![a].new = NextFree]
          /\ kind' = [kind EXCEPT ![NextFree] = "plain"]
          /\ Goto(a, "ctx")
       \/ /\ Free = {}
          /\ loop' = [loop EXCEPT ![a].new = None, ![a].lfd = sock[loop[a].obj]]
          /\ Goto(a, "find")
          /\ UNCHANGED kind
    /\ UNCHANGED <<apiVars, sock, stop, fdVars, eventVars, peer, backlog, inflight, assoc, port,
                   handVars, crashed>>

(* FdManager::get(newsock, true) looks under the read lock and keeps an FdCtx it
   finds; with the write lock, taken next, it looks no more. Then m_sock is read
   for the call of s_accept. *)
Proceed(a) ==
    /\ loop' = [loop EXCEPT ![a].lfd = sock[loop[a].obj]]
    /\ Goto(a, "find")

KeepCtx(a) ==
    /\ pc[a] = "ctx" /\ datas[loop[a].new] # None
    /\ Proceed(a)
    /\ UNCHANGED <<apiVars, sock, stop, fdVars, eventVars, kernelVars, handVars, crashed>>

MissCtx(a) ==
    /\ pc[a] = "ctx" /\ datas[loop[a].new] = None
    /\ Goto(a, "fill")
    /\ UNCHANGED <<apiVars, sock, loop, stop, fdVars, eventVars, kernelVars, handVars, crashed>>

MakeCtx(a) ==
    /\ pc[a] = "fill"
    /\ datas' = [datas EXCEPT ![loop[a].new] = NewCtx]
    /\ Proceed(a)
    /\ UNCHANGED <<apiVars, sock, stop, closing, eventVars, kernelVars, handVars, crashed>>

NoCtx(h) == h \notin {g \in Handles : datas[g] # None}

(* s_accept: FdManager::get of the listening socket. *)
FindCtx(a) ==
    /\ pc[a] = "find" /\ ~NoCtx(loop[a].lfd)
    /\ Goto(a, "issue")
    /\ UNCHANGED <<apiVars, sock, loop, stop, fdVars, eventVars, kernelVars, handVars, crashed>>

(* It is called through without a test. *)
FindsNone(a) == pc[a] = "find" /\ NoCtx(loop[a].lfd) /\ Crash

CanAccept(a) ==
    /\ loop[a].new # None /\ kind[loop[a].new] = "plain"
    /\ kind[loop[a].lfd] = "listening"

(* A mutant: a failed accept does not close the socket it has made. *)
AcceptFailsOpen(a) ==
    /\ pc[a] = "issue" /\ ~CanAccept(a)
    /\ Goto(a, "closing")
    /\ UNCHANGED <<apiVars, sock, loop, stop, fdVars, eventVars, kernelVars, handVars, crashed>>

AcceptFails(a) ==
    /\ pc[a] = "issue" /\ ~CanAccept(a)
    /\ closing' = closing \cup (IF loop[a].new = None THEN {} ELSE {Close(loop[a].new, <<"loop", a>>)})
    /\ Goto(a, "closing")
    /\ UNCHANGED <<apiVars, sock, loop, stop, datas, eventVars, kernelVars, handVars, crashed>>

(* A mutant: a failed accept ends the loop. *)
AcceptBreaks(a) ==
    /\ pc[a] = "closing"
    /\ ~\E c \in closing : c.by = <<"loop", a>>
    /\ Goto(a, "done")
    /\ UNCHANGED <<apiVars, sock, loop, stop, fdVars, eventVars, kernelVars, handVars, crashed>>

(* s_closesocket has returned; that of -1 does nothing. *)
AcceptReturns(a) ==
    /\ pc[a] = "closing"
    /\ ~\E c \in closing : c.by = <<"loop", a>>
    /\ loop' = [loop EXCEPT ![a] = Between(a)]
    /\ Goto(a, "loop")
    /\ UNCHANGED <<apiVars, sock, stop, fdVars, eventVars, kernelVars, handVars, crashed>>

Connected(new, p, lfd) ==
    /\ kind' = [kind EXCEPT ![new] = "connected"]
    /\ peer' = [peer EXCEPT ![new] = p]
    /\ backlog' = [backlog EXCEPT ![lfd] = @ \ {p}]

AcceptSucceeds(a) ==
    /\ pc[a] = "issue" /\ CanAccept(a)
    /\ \E p \in backlog[loop[a].lfd] : Connected(loop[a].new, p, loop[a].lfd)
    /\ Goto(a, "init")
    /\ UNCHANGED <<apiVars, sock, loop, stop, fdVars, eventVars, inflight, assoc, port, handVars,
                   crashed>>

AcceptPends(a) ==
    /\ pc[a] = "issue" /\ CanAccept(a)
    /\ inflight' = inflight \cup {[lfd |-> loop[a].lfd, new |-> loop[a].new, by |-> a]}
    /\ Goto(a, "add")
    /\ UNCHANGED <<apiVars, sock, loop, stop, fdVars, eventVars, kind, peer, backlog, assoc, port,
                   handVars, crashed>>

(* addEvent and the yield. Only the first registration of a descriptor's value
   associates the socket with the port (iomanager.cpp:147). *)
AddEvent(a) ==
    LET l == loop[a].lfd IN
    /\ pc[a] = "add" /\ reg[l] = None
    /\ reg' = [reg EXCEPT ![l] = a]
    /\ assoc' = IF l \notin known /\ kind[l] # "free" THEN assoc \cup {l} ELSE assoc
    /\ known' = known \cup {l}
    /\ Goto(a, "held")
    /\ UNCHANGED <<apiVars, sock, loop, stop, fdVars, kind, peer, backlog, inflight, port,
                   handVars, crashed>>

AddEventFails(a) == pc[a] = "add" /\ reg[loop[a].lfd] # None /\ Crash

(* Socket::init: with the FdCtx of the new socket, its receive timeout is set and
   handleClient scheduled; without it, accept returns a null pointer. *)
HandOver(a) ==
    LET h == loop[a].new IN
    /\ pc[a] = "init"
    /\ IF datas[h] = None
       THEN UNCHANGED <<datas, handVars>>
       ELSE /\ datas' = [datas EXCEPT ![h].recv = TRUE]
            /\ clients' = clients \cup {h}
            /\ phantoms' = (phantoms \/ peer[h] = None)
            /\ served' = [p \in Peers |-> IF peer[h] = p THEN served[p] + 1 ELSE served[p]]
    /\ loop' = [loop EXCEPT ![a] = Between(a)]
    /\ Goto(a, "loop")
    /\ UNCHANGED <<apiVars, sock, stop, closing, eventVars, kernelVars, crashed>>

-----------------------------------------------------------------------------
(* Clients, their handlers, the kernel and the workers. *)

Connect(p, h) ==
    /\ p \in world.peers /\ kind[h] = "listening" /\ served[p] = 0
    /\ \A g \in Handles : p \notin backlog[g] /\ peer[g] # p
    /\ backlog' = [backlog EXCEPT ![h] = @ \cup {p}]
    /\ UNCHANGED <<apiVars, sock, pc, loop, stop, fdVars, eventVars, kind, peer, inflight, assoc,
                   port, handVars, crashed>>

Complete(i, p) ==
    /\ i \in inflight /\ p \in backlog[i.lfd]
    /\ Connected(i.new, p, i.lfd)
    /\ inflight' = inflight \ {i}
    /\ port' = IF i.lfd \in assoc THEN port \cup {[fd |-> i.lfd, by |-> i.by]} ELSE port
    /\ UNCHANGED <<apiVars, sock, pc, loop, stop, fdVars, eventVars, assoc, handVars, crashed>>

(* The connection is gone before AcceptEx has it: idle() takes the packet of an
   operation that has failed and wakes nobody. *)
CompleteFails(i, p) ==
    /\ world.errors
    /\ i \in inflight /\ p \in backlog[i.lfd]
    /\ backlog' = [backlog EXCEPT ![i.lfd] = @ \ {p}]
    /\ inflight' = inflight \ {i}
    /\ UNCHANGED <<apiVars, sock, pc, loop, stop, fdVars, eventVars, kind, peer, assoc, port,
                   handVars, crashed>>

(* idle(): the packet wakes the loop if it is registered. *)
Deliver(q) ==
    /\ q \in port
    /\ port' = port \ {q}
    /\ IF reg[q.fd] = q.by
       THEN Goto(q.by, "init") /\ reg' = [reg EXCEPT ![q.fd] = None]
       ELSE UNCHANGED <<pc, reg>>
    /\ UNCHANGED <<apiVars, sock, loop, stop, fdVars, known, kind, peer, backlog, inflight, assoc,
                   handVars, crashed>>

HandlerCloses(h) ==
    /\ h \in clients
    /\ clients' = clients \ {h}
    /\ closing' = closing \cup {Close(h, <<"handler", h>>)}
    /\ UNCHANGED <<apiVars, sock, pc, loop, stop, datas, eventVars, kernelVars, served, phantoms,
                   crashed>>

-----------------------------------------------------------------------------
CloseStep == \E c \in closing : CloseCancels(c) \/ CloseDeletes(c) \/ CloseEnds(c)

StopStep(s) ==
    \/ StopBegins(s) \/ StopCancels(s) \/ StopCloses(s) \/ StopForgets(s)
    \/ StopEnds(s)

LoopStep(a) ==
    \/ Leave(a) \/ NewSocket(a) \/ KeepCtx(a) \/ MissCtx(a) \/ MakeCtx(a)
    \/ FindCtx(a) \/ FindsNone(a) \/ AcceptFails(a) \/ AcceptReturns(a) \/ AcceptSucceeds(a) \/ AcceptPends(a)
    \/ AddEvent(a) \/ AddEventFails(a) \/ HandOver(a)

KernelStep ==
    \/ \E i \in inflight, p \in Peers : Complete(i, p) \/ CompleteFails(i, p)
    \/ \E q \in port : Deliver(q)

Next ==
    /\ ~crashed
    /\ \/ Bind
       \/ Start
       \/ \E s \in Stops : Stop(s) \/ StopStep(s)
       \/ \E a \in Loops : LoopStep(a)
       \/ CloseStep
       \/ KernelStep
       \/ \E p \in Peers, h \in Handles : Connect(p, h)
       \/ \E h \in Handles : HandlerCloses(h)

Spec == Init /\ [][Next]_vars

(* Fibers that can run do run, the kernel completes what it can and workers
   take packets. Nobody has to call the server, connect, or end a client. *)
FairSpec ==
    /\ Spec
    /\ \A a \in Loops : WF_vars(~crashed /\ LoopStep(a))
    /\ \A s \in Stops : WF_vars(~crashed /\ StopStep(s))
    /\ WF_vars(~crashed /\ CloseStep)
    /\ WF_vars(~crashed /\ KernelStep)

-----------------------------------------------------------------------------
(* Descriptors some part of the server will still close or hand over. *)
Owned ==
    {sock[o] : o \in Range(socks) \cup {loop[a].obj : a \in {b \in Loops : Running(b)}}}
    \cup {loop[a].new : a \in Loops} \cup clients \cup {c.fd : c \in closing}

(* No descriptor is lost: whatever happens to an accept, a bind or a stop, every
   open socket is in the hands of somebody who will use or close it. *)
NothingLeaks == \A h \in Handles : kind[h] # "free" => h \in Owned

(* The FdCtx found under a descriptor is the one of the socket behind it: a
   value that is handed out again never comes with the timeouts, or without
   the FdCtx, of the socket before; and a client that has been handed over has
   its receive timeout; unless two functions of stop() go through the sockets at
   the same time and close one descriptor twice. While nobody stops the server it
   never looks for an FdCtx that is gone, and hands over nothing that is not a
   client. *)
KnowsItsSockets ==
    /\ ~crashed /\ (world.manners = "orderly" \/ world.stops <= 1) =>
          \A h \in Handles :
             /\ datas[h] # None => ~datas[h].stale
             /\ kind[h] # "free" => \/ datas[h] # None \/ h \in {c.fd : c \in closing}
                                   \/ \E a \in Loops : pc[a] \in {"ctx", "fill"} /\ loop[a].new = h
             /\ h \in clients => datas[h] # None /\ datas[h].recv
    /\ (\A s \in Stops : stop[s].at = "none") => ~crashed /\ ~phantoms

(* A loop that waits in accept when its socket is about to be closed by stop()
   is woken. *)
StopWakes ==
    \A a \in Loops :
       (/\ world.manners = "orderly" /\ pc[a] = "held" /\ loop[a].obj \in Range(socks)
        /\ \E s \in Stops : stop[s].at = "queued")
       ~> (pc[a] # "held" \/ crashed)

(* A loop that is registered for an operation that is over, and whose packet is
   gone: it has come while the socket was not associated yet, or before the
   loop was registered, or it was the packet of an error. *)
Forgotten(a) ==
    pc[a] = "held" /\ (\A i \in inflight : i.by # a) /\ (\A q \in port : q.by # a)

(* A client queued at a socket that has been waited on is handed over, if the
   owner of the server is orderly, unless the server is stopped or out of
   descriptors, or the race of addEvent with the completion, or an error,
   has left a loop forgotten. *)
ServesTheQueue ==
    \A p \in Peers :
       (world.manners = "orderly" /\ (\E h \in assoc : p \in backlog[h]) /\ ~isStop)
       ~> (\/ served[p] = 1 \/ isStop \/ crashed \/ Free = {}
           \/ \E a \in Loops : Forgotten(a))
=============================================================================
