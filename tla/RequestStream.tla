---------------------------- MODULE RequestStream ----------------------------
(***************************************************************************)
(* A RockStream (rock/rock_stream.cpp) on its AsyncSocketStream            *)
(* (stream/async_socket_stream.cpp): fibers call request() and are woken   *)
(* by the response, by the timer of the call or by the end of the          *)
(* connection; one fiber reads the connection, one writes it, and start()  *)
(* connects again once both have gone.                                     *)
(*                                                                         *)
(* Every step is what runs between two places where another thread can     *)
(* come in: a lock, an atomic, a semaphore, a send or receive. The fibers  *)
(* are scheduled as in module Scheduler, the semaphores are those of       *)
(* module FiberSemaphore, the alarms those of module TimerManager. The     *)
(* peer (any program that speaks the protocol) answers in any order, late  *)
(* or never, sends requests and notifications, and may go away.            *)
(***************************************************************************)
EXTENDS Integers, Sequences, FiniteSets

CONSTANTS
    Calls,      \* the calls of request(), each by a fiber of its own
    Requests,   \* requests of the peer
    Notices,    \* notifications of the peer
    MaxSn,      \* bound: m_sn counts modulo MaxSn + 1, as uint32_t modulo 2^32
    Worlds,     \* what the users and the peer may do: which object each call passes,
                \* named by a call (a retry passes that of another call), which
                \* messages the peer sends, whether the peer may leave and the user
                \* close, how often start() runs, and the number that the next
                \* new object gets (calls were made before)
    NoCall

ASSUME NoCallAssumption ==
    /\ NoCall \notin Calls \cup Requests \cup Notices
    /\ Calls \cap (Requests \cup Notices) = {}
    /\ {"reader", "writer", "starter"} \cap Calls = {}
    /\ Requests \cap Notices = {}

ASSUME BoundsAssumption == MaxSn \in Nat 

ASSUME WorldsAssumption ==
    \A w \in Worlds : /\ DOMAIN w.object \subseteq Calls
                      /\ \A c \in DOMAIN w.object : w.object[c] \in DOMAIN w.object
                      /\ w.messages \subseteq Requests \cup Notices
                      /\ w.leaves \in BOOLEAN /\ w.closes \in BOOLEAN
                      /\ w.starts \in Nat /\ w.sn \in 0..MaxSn

(* The sides of the stream, and the fibers that may end a call: each call  *)
(* also names the callback of its own timer.                               *)
Sides == {"reader", "writer", "starter"}
Enders == Sides \cup Calls
Inbound == Requests \cup Notices
Closers == Inbound \cup {"user"}

VARIABLES
    world,       \* one of Worlds; never changes
    up,          \* isConnected()
    peer,        \* the other end of the connection is there
    m_autoConnect,
    m_sn,        \* RockStream::m_sn
    objSn,       \* the number in each request object, named by its first call
    call,        \* where each call of request() is
    ctx,         \* its RockCtx
    alarm,       \* its timer in the IOManager: "none", "armed" or "off"
    m_ctxs,      \* the calls by number
    m_queue,     \* what is to be sent: calls, or replies named by the request
    m_sem,       \* permits of m_sem and of m_waitSem
    m_waitSem,
    at,          \* where each ender is
    back,        \* where innerClose() returns to, "none" outside of it
    cur,         \* the call that an ender is ending
    todo,        \* calls that an innerClose() has yet to end
    outgoing,    \* the list that the writer took from m_queue
    got,         \* the call whose response the reader holds
    wire,        \* requests that reached the peer and have no answer
    inbox,       \* messages that the peer sent
    handler,     \* where each request or notification of the peer is
    closing,     \* where each call of close() is
    timers,      \* pending calls of start(): "m_timer", "read", "first"
    starts,      \* runs of start() so far
    result       \* what each call of request() returned

connVars == <<world, up, peer, wire, inbox>>
callVars == <<m_sn, objSn, call, result>>
ctxVars == <<ctx, alarm, m_ctxs>>
sendVars == <<m_queue, m_sem, outgoing>>
enderVars == <<at, back, cur, todo, got>>
startVars == <<m_autoConnect, m_waitSem, timers, starts>>
peerVars == <<handler, closing>>
vars == <<connVars, callVars, ctxVars, sendVars, enderVars, startVars, peerVars>>

(* The request object of a call.                                           *)
Object(c) == world.object[c]

Numbers == 0..MaxSn

(* AsyncSocketStream::Ctx::Ctx(). woken counts scd->schedule(&fiber), and  *)
(* ioError keeps that an innerClose() has marked the call (history).       *)
NewCtx == [sn |-> 0, scheduler |-> FALSE, timed |-> FALSE, result |-> "ok", response |-> NoCall,
           timer |-> FALSE, woken |-> 0, ioError |-> FALSE]

(* RockConnection TRUE, RockSession FALSE.                                 *)
AutoConnect == {TRUE, FALSE}

(* The socket is connected before start(): accepted, or by connect().      *)
Init ==
    /\ world \in Worlds
    /\ up = TRUE /\ peer = TRUE
    /\ m_autoConnect \in AutoConnect
    /\ m_sn = world.sn
    /\ objSn = [c \in Calls |-> 0]
    /\ call = [c \in Calls |-> "idle"]
    /\ ctx = [c \in Calls |-> NewCtx]
    /\ alarm = [c \in Calls |-> "none"]
    /\ m_ctxs = [n \in Numbers |-> NoCall]
    /\ m_queue = <<>> /\ m_sem = 0 /\ m_waitSem = 2
    /\ at = [e \in Enders |-> "off"]
    /\ back = [s \in Sides |-> "none"]
    /\ cur = [e \in Enders |-> NoCall]
    /\ todo = [s \in Sides |-> {}]
    /\ outgoing = <<>> /\ got = NoCall
    /\ wire = {} /\ inbox = {}
    /\ handler = [m \in Inbound |-> "unsent"]
    /\ closing = [x \in Closers |-> "off"]
    /\ timers = {"first"} /\ starts = 0
    /\ result = [c \in Calls |-> "nothing"]

Goto(e, l) == at' = [at EXCEPT ![e] = l]

CallGoto(c, l) == call' = [call EXCEPT ![c] = l]

(* addCtx() inserts, and keeps what is there under the same number;        *)
(* getAndDelCtx() and onTimeOut() erase; enqueue() appends.                *)
AddCtx(c) == m_ctxs' = [m_ctxs EXCEPT ![ctx[c].sn] = IF @ = NoCall THEN c ELSE @]

EraseCtx(k) == m_ctxs' = [m_ctxs EXCEPT ![k] = NoCall]

PushBack(i) == m_queue' = Append(m_queue, i)

-----------------------------------------------------------------------------
(* request(), on the fiber of the caller.                                  *)

(* Mutant: the number is read, not taken.                                  *)
SameSn(n) == n

NextSn(n) == (n + 1) % (MaxSn + 1)

(* isConnected(), the number, and the context with fiber and scheduler.    *)
Begin(c) ==
    /\ call[c] = "idle"
    /\ c \in DOMAIN world.object
    /\ Object(c) # c => call[Object(c)] = "done"
    /\ \/ /\ up
          /\ \/ /\ objSn[Object(c)] = 0
                /\ objSn' = [objSn EXCEPT ![Object(c)] = m_sn]
                /\ m_sn' = NextSn(m_sn)
             \/ /\ objSn[Object(c)] # 0
                /\ UNCHANGED <<objSn, m_sn>>
          /\ ctx' = [ctx EXCEPT ![c].sn = objSn'[Object(c)], ![c].scheduler = TRUE]
          /\ CallGoto(c, "add")
          /\ UNCHANGED result
       \/ /\ ~up
          /\ result' = [result EXCEPT ![c] = "not_connect"]
          /\ CallGoto(c, "done")
          /\ UNCHANGED <<m_sn, objSn, ctx>>
    /\ UNCHANGED <<connVars, alarm, m_ctxs, sendVars, enderVars, startVars, peerVars>>

(* Mutant: a call without a timer.                                         *)
RegisterOnly(c) ==
    /\ call[c] = "add"
    /\ AddCtx(c)
    /\ CallGoto(c, "push")
    /\ UNCHANGED <<connVars, m_sn, objSn, result, ctx, alarm, sendVars, enderVars, startVars,
                   peerVars>>

(* The context is added and a timer made, which an end of the call does    *)
(* not see before it is assigned.                                          *)
Register(c) ==
    /\ call[c] = "add"
    /\ AddCtx(c)
    /\ alarm' = [alarm EXCEPT ![c] = "armed"]
    /\ CallGoto(c, "push")
    /\ UNCHANGED <<connVars, m_sn, objSn, result, ctx, sendVars, enderVars, startVars, peerVars>>

(* Mutant: the notification for the wrong queue.                           *)
EnqueueInverted(c) ==
    /\ call[c] = "push"
    /\ ctx' = [ctx EXCEPT ![c].timer = TRUE]
    /\ PushBack(c)
    /\ CallGoto(c, IF m_queue # <<>> THEN "notify" ELSE "parked")
    /\ UNCHANGED <<connVars, m_sn, objSn, result, alarm, m_ctxs, m_sem, outgoing, enderVars,
                   startVars, peerVars>>

(* Now ctx->timer is assigned. Then enqueue(): under the lock, and a       *)
(* notification if the queue was empty.                                    *)
Enqueue(c) ==
    /\ call[c] = "push"
    /\ ctx' = [ctx EXCEPT ![c].timer = TRUE]
    /\ PushBack(c)
    /\ CallGoto(c, IF m_queue = <<>> THEN "notify" ELSE "parked")
    /\ UNCHANGED <<connVars, m_sn, objSn, result, alarm, m_ctxs, m_sem, outgoing, enderVars,
                   startVars, peerVars>>

NotifySem(c) ==
    /\ call[c] = "notify"
    /\ m_sem' = m_sem + 1
    /\ CallGoto(c, "parked")
    /\ UNCHANGED <<connVars, m_sn, objSn, result, ctxVars, m_queue, outgoing, enderVars,
                   startVars, peerVars>>

(* The fiber runs again after YieldToHold().                               *)
Return(c) ==
    /\ call[c] = "parked"
    /\ ctx[c].woken > 0
    /\ result' = [result EXCEPT ![c] = ctx[c].result]
    /\ CallGoto(c, "done")
    /\ UNCHANGED <<connVars, m_sn, objSn, ctxVars, sendVars, enderVars, startVars, peerVars>>

-----------------------------------------------------------------------------
(* Ctx::doRsp(), by any ender e for the call cur[e].                       *)

AfterRsp(e) ==
    IF e \in Calls THEN "off" ELSE IF back[e] # "none" THEN "each" ELSE "top"

(* Cancel the timer if it has been assigned; timed decides; schedule.      *)
EndCall(e) ==
    LET c == cur[e] IN
    /\ alarm' = [alarm EXCEPT ![c] = IF ctx[c].timer /\ @ = "armed" THEN "off" ELSE @]
    /\ ctx' = [ctx EXCEPT ![c].scheduler = FALSE,
                          ![c].timer = FALSE,
                          ![c].result = IF ctx[c].timed THEN "timeout" ELSE @,
                          ![c].woken = @ + 1]

(* Mutant: no compare_exchange, whoever comes wakes the fiber.             *)
DoRspUnchecked(e) ==
    /\ at[e] = "rsp"
    /\ EndCall(e)
    /\ Goto(e, AfterRsp(e))
    /\ cur' = [cur EXCEPT ![e] = NoCall]
    /\ UNCHANGED <<connVars, callVars, m_ctxs, sendVars, back, todo, got, startVars, peerVars>>

(* load and compare_exchange_strong: who finds the scheduler goes on, the  *)
(* others return. What follows the exchange commutes with their steps.     *)
DoRsp(e) ==
    /\ at[e] = "rsp"
    /\ \/ ctx[cur[e]].scheduler /\ EndCall(e)
       \/ ~ctx[cur[e]].scheduler /\ UNCHANGED <<ctx, alarm>>
    /\ Goto(e, AfterRsp(e))
    /\ cur' = [cur EXCEPT ![e] = NoCall]
    /\ UNCHANGED <<connVars, callVars, m_ctxs, sendVars, back, todo, got, startVars, peerVars>>

-----------------------------------------------------------------------------
(* onTimeOut(), the callback of the timer of call c.                       *)

Fire(c) ==
    /\ alarm[c] = "armed"
    /\ alarm' = [alarm EXCEPT ![c] = "off"]
    /\ Goto(c, "erase")
    /\ cur' = [cur EXCEPT ![c] = c]
    /\ UNCHANGED <<connVars, callVars, ctx, m_ctxs, sendVars, back, todo, got, startVars,
                   peerVars>>

(* Whatever call is registered under the number goes.                      *)
TimeOut(c) ==
    /\ at[c] = "erase"
    /\ EraseCtx(ctx[c].sn)
    /\ ctx' = [ctx EXCEPT ![c].timed = TRUE]
    /\ Goto(c, "rsp")
    /\ UNCHANGED <<connVars, callVars, alarm, sendVars, back, cur, todo, got, startVars,
                   peerVars>>

-----------------------------------------------------------------------------
(* innerClose(), by the side s.                                            *)

InnerClose(s, l) ==
    /\ Goto(s, "cut")
    /\ back' = [back EXCEPT ![s] = l]

(* disconnectCb, onClose, SocketStream::close().                           *)
Cut(s) ==
    /\ at[s] = "cut"
    /\ up' = FALSE
    /\ Goto(s, "post")
    /\ UNCHANGED <<world, peer, wire, inbox, callVars, ctxVars, sendVars, back, cur, todo, got,
                   startVars, peerVars>>

Post(s) ==
    /\ at[s] = "post"
    /\ m_sem' = m_sem + 1
    /\ Goto(s, "swap")
    /\ UNCHANGED <<connVars, callVars, ctxVars, m_queue, outgoing, back, cur, todo, got,
                   startVars, peerVars>>

Swap(s) ==
    /\ at[s] = "swap"
    /\ todo' = [todo EXCEPT ![s] = {m_ctxs[n] : n \in Numbers} \ {NoCall}]
    /\ m_ctxs' = [n \in Numbers |-> NoCall]
    /\ Goto(s, "drop")
    /\ UNCHANGED <<connVars, callVars, ctx, alarm, sendVars, back, cur, got, startVars, peerVars>>

Drop(s) ==
    /\ at[s] = "drop"
    /\ m_queue' = <<>>
    /\ Goto(s, "each")
    /\ UNCHANGED <<connVars, callVars, ctxVars, m_sem, outgoing, back, cur, todo, got, startVars,
                   peerVars>>

Each(s) ==
    /\ at[s] = "each"
    /\ \/ \E c \in todo[s] :
              /\ ctx' = [ctx EXCEPT ![c].result = "io_error", ![c].ioError = TRUE]
              /\ todo' = [todo EXCEPT ![s] = @ \ {c}]
              /\ cur' = [cur EXCEPT ![s] = c]
              /\ Goto(s, "rsp")
              /\ UNCHANGED back
       \/ /\ todo[s] = {}
          /\ Goto(s, back[s])
          /\ back' = [back EXCEPT ![s] = "none"]
          /\ UNCHANGED <<ctx, todo, cur>>
    /\ UNCHANGED <<connVars, callVars, alarm, m_ctxs, sendVars, got, startVars, peerVars>>

-----------------------------------------------------------------------------
(* doRead() and doRecv(), on the reader's fiber.                           *)

ReadTop ==
    /\ at["reader"] = "top"
    /\ \/ up /\ Goto("reader", "recv") /\ UNCHANGED back
       \/ ~up /\ InnerClose("reader", "leave")
    /\ UNCHANGED <<connVars, callVars, ctxVars, sendVars, cur, todo, got, startVars, peerVars>>

(* parseFrom() has a response: getAndDelCtx(). The call may be gone.       *)
RecvResponse ==
    /\ at["reader"] = "recv" /\ up
    /\ \E m \in inbox :
        /\ m.type = "response"
        /\ inbox' = inbox \ {m}
        /\ EraseCtx(m.sn)
        /\ \/ /\ m_ctxs[m.sn] # NoCall
              /\ cur' = [cur EXCEPT !["reader"] = m_ctxs[m.sn]]
              /\ got' = m.of
              /\ Goto("reader", "fill")
           \/ /\ m_ctxs[m.sn] = NoCall
              /\ Goto("reader", "top")
              /\ UNCHANGED <<cur, got>>
    /\ UNCHANGED <<world, up, peer, wire, callVars, ctx, alarm, sendVars, back, todo, startVars,
                   peerVars>>

Fill ==
    /\ at["reader"] = "fill"
    /\ ctx' = [ctx EXCEPT ![cur["reader"]].result = "ok", ![cur["reader"]].response = got]
    /\ got' = NoCall
    /\ Goto("reader", "rsp")
    /\ UNCHANGED <<connVars, callVars, alarm, m_ctxs, sendVars, back, cur, todo, startVars,
                   peerVars>>

(* A request or a notification: its handler is scheduled on m_worker.      *)
RecvInbound ==
    /\ at["reader"] = "recv" /\ up
    /\ \E m \in inbox :
        /\ m.type = "inbound"
        /\ inbox' = inbox \ {m}
        /\ handler' = [handler EXCEPT ![m.of] = "scheduled"]
    /\ Goto("reader", "top")
    /\ UNCHANGED <<world, up, peer, wire, callVars, ctxVars, sendVars, back, cur, todo, got, startVars,
                   closing>>

(* The socket is closed, or the peer has gone: parseFrom() has nothing.    *)
RecvFails ==
    /\ at["reader"] = "recv"
    /\ ~up \/ ~peer
    /\ InnerClose("reader", "top")
    /\ UNCHANGED <<connVars, callVars, ctxVars, sendVars, cur, todo, got, startVars, peerVars>>

(* The token for start(), and if m_autoConnect still says so a timer of    *)
(* 10 ms for it, which nobody keeps.                                       *)
ReadLeave ==
    /\ at["reader"] = "leave"
    /\ m_waitSem' = m_waitSem + 1
    /\ timers' = IF m_autoConnect THEN timers \cup {"read"} ELSE timers
    /\ Goto("reader", "off")
    /\ UNCHANGED <<connVars, callVars, ctxVars, sendVars, back, cur, todo, got, m_autoConnect,
                   starts, peerVars>>

-----------------------------------------------------------------------------
(* doWrite(), on the writer's fiber.                                       *)

WriteTop ==
    /\ at["writer"] = "top"
    /\ Goto("writer", IF up THEN "wait" ELSE "clear")
    /\ UNCHANGED <<connVars, callVars, ctxVars, sendVars, back, cur, todo, got, startVars,
                   peerVars>>

(* m_sem.wait(), and the queue is swapped out.                             *)
WriteWait ==
    /\ at["writer"] = "wait"
    /\ m_sem > 0
    /\ m_sem' = m_sem - 1
    /\ outgoing' = m_queue
    /\ m_queue' = <<>>
    /\ Goto("writer", IF m_queue = <<>> THEN "top" ELSE "send")
    /\ UNCHANGED <<connVars, callVars, ctxVars, back, cur, todo, got, startVars, peerVars>>

(* doSend() of the next: a request carries the number its object has now.  *)
(* What is sent to a peer that has gone may still go well.                 *)
WriteSend ==
    /\ at["writer"] = "send"
    /\ LET i == Head(outgoing) IN
       \/ /\ up
          /\ wire' = IF i \in Calls /\ peer THEN wire \cup {[sn |-> objSn[Object(i)], of |-> i]} ELSE wire
          /\ outgoing' = Tail(outgoing)
          /\ Goto("writer", IF Tail(outgoing) = <<>> THEN "top" ELSE "send")
          /\ UNCHANGED back
       \/ /\ ~up \/ ~peer
          /\ InnerClose("writer", "top")
          /\ outgoing' = <<>>
          /\ UNCHANGED wire
    /\ UNCHANGED <<world, up, peer, inbox, callVars, ctxVars, m_queue, m_sem, cur, todo, got, startVars,
                   peerVars>>

WriteLeave ==
    /\ at["writer"] = "clear"
    /\ m_queue' = <<>>
    /\ m_waitSem' = m_waitSem + 1
    /\ Goto("writer", "off")
    /\ UNCHANGED <<connVars, callVars, ctxVars, m_sem, outgoing, back, cur, todo, got,
                   m_autoConnect, timers, starts, peerVars>>

-----------------------------------------------------------------------------
(* start(), called once by the user and then by its timers.                *)

StartBegin(k) ==
    /\ k \in timers
    /\ at["starter"] = "off"
    /\ starts < world.starts
    /\ starts' = starts + 1
    /\ timers' = timers \ {k}
    /\ Goto("starter", "wait")
    /\ UNCHANGED <<connVars, callVars, ctxVars, sendVars, back, cur, todo, got, m_autoConnect,
                   m_waitSem, peerVars>>

(* Mutant: only one fiber of the connection before is waited for.          *)
StartWaitOne ==
    /\ at["starter"] = "wait"
    /\ m_waitSem > 0
    /\ m_waitSem' = m_waitSem - 1
    /\ Goto("starter", "check")
    /\ UNCHANGED <<connVars, callVars, ctxVars, sendVars, back, cur, todo, got, m_autoConnect,
                   timers, starts, peerVars>>

(* waitFiber(): the reader and the writer of the connection before.        *)
StartWait ==
    /\ at["starter"] = "wait"
    /\ m_waitSem > 1
    /\ m_waitSem' = m_waitSem - 2
    /\ Goto("starter", "check")
    /\ UNCHANGED <<connVars, callVars, ctxVars, sendVars, back, cur, todo, got, m_autoConnect,
                   timers, starts, peerVars>>

(* The pending timer is cancelled; reconnect() if the socket is closed.    *)
StartCheck ==
    /\ at["starter"] = "check"
    /\ timers' = timers \ {"m_timer"}
    /\ \/ /\ up
          /\ Goto("starter", "call")
          /\ UNCHANGED <<connVars, back>>
       \/ /\ ~up
          /\ up' = TRUE /\ peer' = TRUE
          /\ wire' = {} /\ inbox' = {}
          /\ UNCHANGED world
          /\ Goto("starter", "call")
          /\ UNCHANGED back
       \/ /\ ~up
          /\ InnerClose("starter", "free")
          /\ UNCHANGED connVars
    /\ UNCHANGED <<callVars, ctxVars, sendVars, cur, todo, got, m_autoConnect, m_waitSem, starts,
                   peerVars>>

(* m_connectCb, if there is one, says whether to go on.                    *)
StartCall ==
    /\ at["starter"] = "call"
    /\ \/ Goto("starter", "launch") /\ UNCHANGED back
       \/ InnerClose("starter", "free")
    /\ UNCHANGED <<connVars, callVars, ctxVars, sendVars, cur, todo, got, startVars, peerVars>>

(* startRead() and startWrite().                                           *)
StartLaunch ==
    /\ at["starter"] = "launch"
    /\ at' = [at EXCEPT !["reader"] = "top", !["writer"] = "top", !["starter"] = "off"]
    /\ UNCHANGED <<connVars, callVars, ctxVars, sendVars, back, cur, todo, got, startVars,
                   peerVars>>

(* A start that failed gives both tokens back and tries again later.       *)
StartFails ==
    /\ at["starter"] = "free"
    /\ m_waitSem' = m_waitSem + 2
    /\ timers' = IF m_autoConnect THEN timers \cup {"m_timer"} ELSE timers
    /\ Goto("starter", "off")
    /\ UNCHANGED <<connVars, callVars, ctxVars, sendVars, back, cur, todo, got, m_autoConnect,
                   starts, peerVars>>

-----------------------------------------------------------------------------
(* handleRequest() and handleNotify(), on the worker.                      *)

HandlerGoto(m, l) == handler' = [handler EXCEPT ![m] = l]

(* The handler of a request may ask to close; the reply is sent anyway     *)
(* (sendMessage), if isConnected().                                        *)
HandleRequest(m) ==
    /\ handler[m] = "scheduled"
    /\ m \in Requests
    /\ \E l \in {"reply", "replyclose"} :
        HandlerGoto(m, IF up THEN l ELSE IF l = "reply" THEN "done" ELSE "close")
    /\ UNCHANGED <<connVars, callVars, ctxVars, sendVars, enderVars, startVars, closing>>

(* enqueue() of the reply.                                                 *)
Reply(m) ==
    /\ handler[m] \in {"reply", "replyclose"}
    /\ PushBack(m)
    /\ HandlerGoto(m, IF m_queue # <<>>
                      THEN IF handler[m] = "reply" THEN "done" ELSE "close"
                      ELSE IF handler[m] = "reply" THEN "notify" ELSE "notifyclose")
    /\ UNCHANGED <<connVars, callVars, ctxVars, m_sem, outgoing, enderVars, startVars, closing>>

NotifyReply(m) ==
    /\ handler[m] \in {"notify", "notifyclose"}
    /\ m_sem' = m_sem + 1
    /\ HandlerGoto(m, IF handler[m] = "notify" THEN "done" ELSE "close")
    /\ UNCHANGED <<connVars, callVars, ctxVars, m_queue, outgoing, enderVars, startVars, closing>>

HandleNotify(m) ==
    /\ handler[m] = "scheduled"
    /\ m \in Notices
    /\ \E l \in {"done", "close"} : HandlerGoto(m, l)
    /\ UNCHANGED <<connVars, callVars, ctxVars, sendVars, enderVars, startVars, closing>>

-----------------------------------------------------------------------------
(* close(), by the user or by a handler.                                   *)

CloseBegin(x) ==
    /\ closing[x] = "off"
    /\ IF x = "user" THEN world.closes /\ UNCHANGED handler
       ELSE handler[x] = "close" /\ HandlerGoto(x, "done")
    /\ m_autoConnect' = FALSE
    /\ closing' = [closing EXCEPT ![x] = "socket"]
    /\ UNCHANGED <<connVars, callVars, ctxVars, sendVars, enderVars, m_waitSem, timers, starts>>

(* After the switch to m_iomanager: m_timer goes, the timer of the reader  *)
(* stays, the socket is closed.                                            *)
CloseSocket(x) ==
    /\ closing[x] = "socket"
    /\ timers' = timers \ {"m_timer"}
    /\ up' = FALSE
    /\ closing' = [closing EXCEPT ![x] = "done"]
    /\ UNCHANGED <<world, peer, wire, inbox, callVars, ctxVars, sendVars, enderVars, m_autoConnect,
                   m_waitSem, starts, handler>>

-----------------------------------------------------------------------------
(* The peer.                                                               *)

(* createResponse() copies the number.                                     *)
Response(r) == [type |-> "response", sn |-> r.sn, of |-> r.of]

PeerAnswers ==
    /\ up /\ peer
    /\ \E r \in wire :
        /\ wire' = wire \ {r}
        /\ inbox' = inbox \cup {Response(r)}
    /\ UNCHANGED <<world, up, peer, callVars, ctxVars, sendVars, enderVars, startVars, peerVars>>

PeerSends(m) ==
    /\ up /\ peer
    /\ m \in world.messages
    /\ handler[m] = "unsent"
    /\ HandlerGoto(m, "sent")
    /\ inbox' = inbox \cup {[type |-> "inbound", sn |-> 0, of |-> m]}
    /\ UNCHANGED <<world, up, peer, wire, callVars, ctxVars, sendVars, enderVars, startVars, closing>>

PeerLeaves ==
    /\ up /\ peer /\ world.leaves
    /\ peer' = FALSE
    /\ UNCHANGED <<world, up, wire, inbox, callVars, ctxVars, sendVars, enderVars, startVars, peerVars>>

-----------------------------------------------------------------------------
Caller(c) ==
    \/ Begin(c) \/ Register(c) \/ Enqueue(c) \/ NotifySem(c) \/ Return(c)

OnTimeOut(c) == Fire(c) \/ TimeOut(c) \/ DoRsp(c)

Closing(s) == Cut(s) \/ Post(s) \/ Swap(s) \/ Drop(s) \/ Each(s) \/ DoRsp(s)

DoRead ==
    \/ ReadTop \/ RecvResponse \/ Fill \/ RecvInbound \/ RecvFails \/ ReadLeave
    \/ Closing("reader")

DoWrite ==
    \/ WriteTop \/ WriteWait \/ WriteSend \/ WriteLeave \/ Closing("writer")

Start ==
    \/ \E k \in timers : StartBegin(k)
    \/ StartWait \/ StartCheck \/ StartCall \/ StartLaunch \/ StartFails
    \/ Closing("starter")

Handle(m) == HandleRequest(m) \/ Reply(m) \/ NotifyReply(m) \/ HandleNotify(m)

Close(x) == CloseBegin(x) \/ CloseSocket(x)

Peer == PeerAnswers \/ PeerLeaves \/ \E m \in Inbound : PeerSends(m)

(* What goes on by itself: a call once made, close() once called, the      *)
(* fibers of the stream, its timers and the handlers.                      *)
System ==
    \/ \E c \in Calls : (call[c] # "idle" /\ Caller(c)) \/ OnTimeOut(c)
    \/ DoRead \/ DoWrite \/ Start
    \/ \E m \in Inbound : Handle(m)
    \/ \E x \in Closers : closing[x] # "off" /\ Close(x)

Next ==
    \/ \E c \in Calls : Caller(c) \/ OnTimeOut(c)
    \/ DoRead \/ DoWrite \/ Start
    \/ \E m \in Inbound : Handle(m)
    \/ \E x \in Closers : Close(x)
    \/ Peer

Spec == Init /\ [][Next]_vars

(* Scheduled fibers run and timers fire (modules Scheduler, TimerManager). *)
(* A user need not call or close, and the peer owes nothing. One condition *)
(* is enough: each step uses up a message, a call or a start, so a system  *)
(* that goes on ends where none of its parts has a step left.              *)
FairSpec == Spec /\ WF_vars(System)

-----------------------------------------------------------------------------
PhaseOf(c) ==
    CASE ctx[c].woken > 1 -> "woken twice"
      [] ctx[c].woken <= 1 /\ call[c] = "idle" -> "idle"
      [] ctx[c].woken <= 1 /\ call[c] = "done" -> "returned"
      [] ctx[c].woken = 1 /\ call[c] \notin {"idle", "done"} -> "woken"
      [] OTHER -> "waiting"

CausesOf(c) ==
    (IF ctx[c].response # NoCall THEN {"ok"} ELSE {})
    \cup (IF ctx[c].timed THEN {"timeout"} ELSE {})
    \cup (IF ctx[c].ioError THEN {"io_error"} ELSE {})

Promise == INSTANCE RequestPromise WITH
    phase <- [c \in Calls |-> PhaseOf(c)],
    causes <- [c \in Calls |-> CausesOf(c)],
    reported <- result

(* rock_stream.cpp:65-95: whatever the response, the timer and the end of  *)
(* the connection do and in whatever order, a call comes back once, woken  *)
(* once, and reports something that happened to it.                        *)
KeepsPromise == Promise!Spec

(* rock_stream.cpp:125: a response ends a call for the object it answers,  *)
(* never another one's.                                                    *)
OwnResponse ==
    \A c \in Calls : ctx[c].response # NoCall => Object(ctx[c].response) = Object(c)

(* async_socket_stream.cpp:64: start() gets the connection to itself: it   *)
(* reconnects after both fibers of the connection before have left.        *)
StartsAlone ==
    at["starter"] \in {"check", "call", "launch"} => at["reader"] = "off" /\ at["writer"] = "off"

(* async_socket_stream.cpp:284: the notification that enqueue() leaves out *)
(* when the queue is not empty is never missing.                           *)
Waking ==
    \/ m_sem > 0
    \/ \E c \in Calls : call[c] = "notify"
    \/ \E m \in Inbound : handler[m] \in {"notify", "notifyclose"}

NothingStuck == m_queue # <<>> => Waking

(* rock_stream.cpp:83: every call comes back, whatever the peer does.      *)
CallsReturn == \A c \in Calls : call[c] # "idle" ~> call[c] = "done"

(* Every variable in its type.                                             *)
CtxType ==
    [sn : Numbers, scheduler : BOOLEAN, timed : BOOLEAN, result : {"ok", "timeout", "io_error"},
     response : Calls \cup {NoCall}, timer : BOOLEAN, woken : Nat, ioError : BOOLEAN]

ClosePlaces == {"cut", "post", "swap", "drop", "each"}

Places ==
    {"off", "rsp", "erase", "top", "recv", "fill", "leave", "wait", "send", "clear", "check",
     "call", "launch", "free"} \cup ClosePlaces

WireType  == [sn : Numbers, of : Calls]
InboxType == [type : {"response"}, sn : Numbers, of : Calls]
             \cup [type : {"inbound"}, sn : {0}, of : Inbound]

ConnTypes ==
    /\ world \in Worlds /\ up \in BOOLEAN /\ peer \in BOOLEAN
    /\ wire \subseteq WireType /\ inbox \subseteq InboxType

CallTypes ==
    /\ m_sn \in Numbers
    /\ objSn \in [Calls -> Numbers]
    /\ call \in [Calls -> {"idle", "add", "push", "notify", "parked", "done"}]
    /\ result \in [Calls -> {"nothing", "ok", "timeout", "io_error", "not_connect"}]

CtxTypes ==
    /\ ctx \in [Calls -> CtxType]
    /\ alarm \in [Calls -> {"none", "armed", "off"}]
    /\ m_ctxs \in [Numbers -> Calls \cup {NoCall}]

SendTypes ==
    /\ m_queue \in Seq(Calls \cup Requests) /\ outgoing \in Seq(Calls \cup Requests)
    /\ m_sem \in Nat

EnderTypes ==
    /\ at \in [Enders -> Places] /\ back \in [Sides -> {"none", "top", "leave", "free"}]
    /\ cur \in [Enders -> Calls \cup {NoCall}]
    /\ todo \in [Sides -> SUBSET Calls]
    /\ got \in Calls \cup {NoCall}

StartTypes ==
    /\ m_autoConnect \in BOOLEAN /\ m_waitSem \in Nat
    /\ timers \subseteq {"m_timer", "read", "first"} /\ starts \in Nat

PeerTypes ==
    /\ handler \in [Inbound -> {"unsent", "sent", "scheduled", "reply", "replyclose", "notify",
                               "notifyclose", "close", "done"}]
    /\ closing \in [Closers -> {"off", "socket", "done"}]

TypeOK ==
    /\ ConnTypes /\ CallTypes /\ CtxTypes /\ SendTypes /\ EnderTypes /\ StartTypes /\ PeerTypes
=============================================================================
