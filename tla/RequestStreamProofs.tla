------------------------- MODULE RequestStreamProofs -------------------------
(***************************************************************************)
(* RequestStream for every set of calls and messages and every world:      *)
(* start() is alone when it connects again, no wake-up of the writer is    *)
(* lost, a call is ended once and reports what happened to it, and a       *)
(* response reaches a call for the object that it answers.                 *)
(***************************************************************************)
EXTENDS RequestStream, FiniteSetTheorems, TLAPS

(* Where the fibers of the stream are, and where innerClose() returns to.  *)
Lanes ==
    /\ at["reader"] \in {"off", "top", "recv", "fill", "rsp", "leave"} \cup ClosePlaces
    /\ at["writer"] \in {"off", "top", "wait", "send", "clear", "rsp"} \cup ClosePlaces
    /\ at["starter"] \in {"off", "wait", "check", "call", "launch", "free", "rsp"} \cup ClosePlaces
    /\ \A c \in Calls : at[c] \in {"off", "erase", "rsp"}
    /\ back["reader"] \in {"none", "top", "leave"}
    /\ back["writer"] \in {"none", "top"}
    /\ back["starter"] \in {"none", "free"}
    /\ \A s \in Sides : /\ at[s] \in ClosePlaces => back[s] # "none"
                        /\ at[s] \notin ClosePlaces \cup {"rsp"} => back[s] = "none"
    /\ at["writer"] = "rsp" => back["writer"] # "none"
    /\ at["starter"] = "rsp" => back["starter"] # "none"
    /\ at["writer"] = "send" => outgoing # <<>>

(* The two tokens of m_waitSem: each fiber of a connection takes one with it
   when it starts, start() both while it makes the connection.             *)
Taken(s) == IF at[s] = "off" THEN 0 ELSE 1
TakenByStart == IF at["starter"] \in {"off", "wait"} THEN 0 ELSE 2

Tokens == m_waitSem + Taken("reader") + Taken("writer") + TakenByStart = 2

(* A call that has been made on a connected stream.                        *)
Entered(c) == call[c] # "idle" /\ result[c] # "not_connect"

(* Only a call that has been made has a context, a timer, something queued,
   and enders that work for it.                                            *)
Calling ==
    \A c \in Calls :
        /\ call[c] # "done" => result[c] = "nothing"
        /\ Entered(c) => c \in DOMAIN world.object
        /\ ~Entered(c) => ctx[c].woken = 0 /\ ~ctx[c].scheduler /\ alarm[c] = "none"

Serving ==
    /\ \A e \in Enders : at[e] \in {"erase", "fill", "rsp"} => cur[e] \in Calls /\ Entered(cur[e])
    /\ \A c \in Calls : at[c] = "erase" => cur[c] = c
    /\ at["reader"] = "fill" => got \in Calls
    /\ \A k \in Numbers : m_ctxs[k] # NoCall => Entered(m_ctxs[k])
    /\ \A s \in Sides : \A c \in todo[s] : Entered(c)

Queued ==
    /\ \A i \in 1..Len(m_queue) : m_queue[i] \in Calls => Entered(m_queue[i])
    /\ \A i \in 1..Len(outgoing) : outgoing[i] \in Calls => Entered(outgoing[i])

Replying ==
    \A m \in Inbound : handler[m] \in {"reply", "replyclose", "notify", "notifyclose"} => m \in Requests

Working == Calling /\ Serving /\ Queued /\ Replying

Sound == TypeOK /\ Lanes /\ Tokens /\ Working

-----------------------------------------------------------------------------
USE DEF ClosePlaces

LEMMA SidesAndCalls ==
    /\ \A s \in Sides : s \in Enders /\ s \notin Calls
    /\ \A c \in Calls : c \in Enders /\ c \notin Sides /\ c # NoCall
    /\ "reader" \in Sides /\ "writer" \in Sides /\ "starter" \in Sides
  BY NoCallAssumption DEF Sides, Enders

LEMMA ObjectIsCall ==
    ASSUME TypeOK, NEW c \in DOMAIN world.object
    PROVE  c \in Calls /\ Object(c) \in Calls /\ Object(c) \in DOMAIN world.object
  BY WorldsAssumption DEF TypeOK, ConnTypes, Object

LEMMA NextSnIs ==
    ASSUME NEW k \in Numbers
    PROVE  NextSn(k) = (IF k = MaxSn THEN 0 ELSE k + 1) /\ NextSn(k) \in Numbers
  <1>1. MaxSn \in Nat /\ k \in 0..MaxSn
    BY BoundsAssumption DEF Numbers
  <1>2. CASE k = MaxSn
    BY <1>1, <1>2 DEF NextSn, Numbers
  <1>3. CASE k # MaxSn
    <2>1. k + 1 \in 0..MaxSn
      BY <1>1, <1>3
    <2> QED
      BY <1>1, <1>3, <2>1 DEF NextSn, Numbers
  <1> QED
    BY <1>2, <1>3

LEMMA Moves ==
    ASSUME TypeOK, NEW e \in Enders, NEW l, Goto(e, l)
    PROVE  at'[e] = l /\ \A x \in Enders \ {e} : at'[x] = at[x]
  BY DEF TypeOK, EnderTypes, Goto

LEMMA CallMoves ==
    ASSUME TypeOK, NEW c \in Calls, NEW l, CallGoto(c, l)
    PROVE  call'[c] = l /\ \A d \in Calls \ {c} : call'[d] = call[d]
  BY DEF TypeOK, CallTypes, CallGoto

(* What doRsp() changes of a context.                                      *)
LEMMA Ends ==
    ASSUME TypeOK, NEW e \in Enders, cur[e] \in Calls, EndCall(e)
    PROVE  LET c == cur[e] IN
           /\ ctx' \in [Calls -> CtxType] /\ alarm' \in [Calls -> {"none", "armed", "off"}]
           /\ \A d \in Calls \ {c} : ctx'[d] = ctx[d] /\ alarm'[d] = alarm[d]
           /\ ctx'[c].sn = ctx[c].sn /\ ctx'[c].timed = ctx[c].timed
           /\ ctx'[c].response = ctx[c].response /\ ctx'[c].ioError = ctx[c].ioError
           /\ ctx'[c].scheduler = FALSE /\ ctx'[c].woken = ctx[c].woken + 1
           /\ ctx'[c].result = IF ctx[c].timed THEN "timeout" ELSE ctx[c].result
  <1> DEFINE c == cur[e]
  <1>1. ctx \in [Calls -> CtxType] /\ alarm \in [Calls -> {"none", "armed", "off"}]
    BY DEF TypeOK, CtxTypes
  <1>2. /\ ctx'[c] = [ctx[c] EXCEPT !.scheduler = FALSE, !.timer = FALSE,
                                    !.result = IF ctx[c].timed THEN "timeout" ELSE @,
                                    !.woken = @ + 1]
        /\ \A d \in Calls \ {c} : ctx'[d] = ctx[d]
        /\ DOMAIN ctx' = Calls /\ ctx' = [d \in Calls |-> ctx'[d]]
    BY <1>1 DEF EndCall
  <1>3. ctx[c] \in CtxType
    BY <1>1
  <1>4. ctx'[c] \in CtxType
    <2> DEFINE r == IF ctx[c].timed THEN "timeout" ELSE ctx[c].result
    <2>1. /\ ctx[c].sn \in Numbers /\ ctx[c].timed \in BOOLEAN /\ ctx[c].ioError \in BOOLEAN
          /\ ctx[c].response \in Calls \cup {NoCall} /\ ctx[c].woken \in Nat
      BY <1>3 DEF CtxType
    <2>2. r \in {"ok", "timeout", "io_error"}
      BY <1>3 DEF CtxType
    <2>3. ctx'[c] = [sn |-> ctx[c].sn, scheduler |-> FALSE, timed |-> ctx[c].timed, result |-> r,
                     response |-> ctx[c].response, timer |-> FALSE, woken |-> ctx[c].woken + 1,
                     ioError |-> ctx[c].ioError]
      BY <1>2, <1>3 DEF CtxType
    <2> HIDE DEF r
    <2>4. ctx[c].woken + 1 \in Nat
      BY <2>1
    <2> QED
      BY <2>1, <2>2, <2>3, <2>4 DEF CtxType
  <1>5. ctx' \in [Calls -> CtxType]
    BY <1>1, <1>2, <1>4
  <1>6. alarm' \in [Calls -> {"none", "armed", "off"}] /\ \A d \in Calls \ {c} : alarm'[d] = alarm[d]
    BY <1>1 DEF EndCall
  <1> QED
    BY <1>2, <1>3, <1>5, <1>6 DEF CtxType

(* What the other steps change of it.                                      *)
LEMMA Begins ==
    ASSUME TypeOK, NEW c \in Calls, Begin(c), up
    PROVE  /\ ctx' \in [Calls -> CtxType]
           /\ \A d \in Calls \ {c} : ctx'[d] = ctx[d]
           /\ ctx'[c].sn = objSn'[Object(c)]
           /\ ctx'[c].scheduler = TRUE
           /\ ctx'[c].timed = ctx[c].timed /\ ctx'[c].result = ctx[c].result
           /\ ctx'[c].response = ctx[c].response /\ ctx'[c].timer = ctx[c].timer
           /\ ctx'[c].woken = ctx[c].woken /\ ctx'[c].ioError = ctx[c].ioError
  <1>1. ctx \in [Calls -> CtxType] /\ ctx[c] \in CtxType
    BY DEF TypeOK, CtxTypes
  <1>2. /\ ctx'[c] = [ctx[c] EXCEPT !.sn = objSn'[Object(c)], !.scheduler = TRUE]
        /\ \A d \in Calls \ {c} : ctx'[d] = ctx[d]
        /\ ctx' = [d \in Calls |-> ctx'[d]]
    BY <1>1 DEF Begin
  <1>3. ctx'[c] = [sn |-> objSn'[Object(c)], scheduler |-> TRUE, timed |-> ctx[c].timed, result |-> ctx[c].result, response |-> ctx[c].response, timer |-> ctx[c].timer, woken |-> ctx[c].woken, ioError |-> ctx[c].ioError]
    BY <1>1, <1>2 DEF CtxType
  <1>4. objSn'[Object(c)] \in Numbers
    <2>1. Object(c) \in Calls
      BY ObjectIsCall DEF Begin
    <2>2. objSn'[Object(c)] = m_sn \/ objSn' = objSn
      BY <2>1 DEF Begin, TypeOK, CallTypes
    <2> QED
      BY <2>1, <2>2 DEF TypeOK, CallTypes
  <1>5. ctx'[c] \in CtxType
    BY <1>1, <1>3, <1>4 DEF CtxType
  <1> QED
    BY <1>1, <1>2, <1>3, <1>5

LEMMA Enqueues ==
    ASSUME TypeOK, NEW c \in Calls, Enqueue(c)
    PROVE  /\ ctx' \in [Calls -> CtxType]
           /\ \A d \in Calls \ {c} : ctx'[d] = ctx[d]
           /\ ctx'[c].timer = TRUE
           /\ ctx'[c].sn = ctx[c].sn /\ ctx'[c].scheduler = ctx[c].scheduler
           /\ ctx'[c].timed = ctx[c].timed /\ ctx'[c].result = ctx[c].result
           /\ ctx'[c].response = ctx[c].response /\ ctx'[c].woken = ctx[c].woken
           /\ ctx'[c].ioError = ctx[c].ioError
  <1>1. ctx \in [Calls -> CtxType] /\ ctx[c] \in CtxType
    BY DEF TypeOK, CtxTypes
  <1>2. /\ ctx'[c] = [ctx[c] EXCEPT !.timer = TRUE]
        /\ \A d \in Calls \ {c} : ctx'[d] = ctx[d]
        /\ ctx' = [d \in Calls |-> ctx'[d]]
    BY <1>1 DEF Enqueue
  <1>3. ctx'[c] = [sn |-> ctx[c].sn, scheduler |-> ctx[c].scheduler, timed |-> ctx[c].timed, result |-> ctx[c].result, response |-> ctx[c].response, timer |-> TRUE, woken |-> ctx[c].woken, ioError |-> ctx[c].ioError]
    BY <1>1, <1>2 DEF CtxType
  <1>4. TRUE \in BOOLEAN
    OBVIOUS
  <1>5. ctx'[c] \in CtxType
    BY <1>1, <1>3, <1>4 DEF CtxType
  <1> QED
    BY <1>1, <1>2, <1>3, <1>5

LEMMA TimesOut ==
    ASSUME TypeOK, NEW c \in Calls, TimeOut(c)
    PROVE  /\ ctx' \in [Calls -> CtxType]
           /\ \A d \in Calls \ {c} : ctx'[d] = ctx[d]
           /\ ctx'[c].timed = TRUE
           /\ ctx'[c].sn = ctx[c].sn /\ ctx'[c].scheduler = ctx[c].scheduler
           /\ ctx'[c].result = ctx[c].result /\ ctx'[c].response = ctx[c].response
           /\ ctx'[c].timer = ctx[c].timer /\ ctx'[c].woken = ctx[c].woken
           /\ ctx'[c].ioError = ctx[c].ioError
  <1>1. ctx \in [Calls -> CtxType] /\ ctx[c] \in CtxType
    BY DEF TypeOK, CtxTypes
  <1>2. /\ ctx'[c] = [ctx[c] EXCEPT !.timed = TRUE]
        /\ \A d \in Calls \ {c} : ctx'[d] = ctx[d]
        /\ ctx' = [d \in Calls |-> ctx'[d]]
    BY <1>1 DEF TimeOut
  <1>3. ctx'[c] = [sn |-> ctx[c].sn, scheduler |-> ctx[c].scheduler, timed |-> TRUE, result |-> ctx[c].result, response |-> ctx[c].response, timer |-> ctx[c].timer, woken |-> ctx[c].woken, ioError |-> ctx[c].ioError]
    BY <1>1, <1>2 DEF CtxType
  <1>4. TRUE \in BOOLEAN
    OBVIOUS
  <1>5. ctx'[c] \in CtxType
    BY <1>1, <1>3, <1>4 DEF CtxType
  <1> QED
    BY <1>1, <1>2, <1>3, <1>5

LEMMA Fills ==
    ASSUME TypeOK, NEW c \in Calls, cur["reader"] = c, Fill
    PROVE  /\ ctx' \in [Calls -> CtxType]
           /\ \A d \in Calls \ {c} : ctx'[d] = ctx[d]
           /\ ctx'[c].result = "ok"
           /\ ctx'[c].response = got
           /\ ctx'[c].sn = ctx[c].sn /\ ctx'[c].scheduler = ctx[c].scheduler
           /\ ctx'[c].timed = ctx[c].timed /\ ctx'[c].timer = ctx[c].timer
           /\ ctx'[c].woken = ctx[c].woken /\ ctx'[c].ioError = ctx[c].ioError
  <1>1. ctx \in [Calls -> CtxType] /\ ctx[c] \in CtxType
    BY DEF TypeOK, CtxTypes
  <1>2. /\ ctx'[c] = [ctx[c] EXCEPT !.result = "ok", !.response = got]
        /\ \A d \in Calls \ {c} : ctx'[d] = ctx[d]
        /\ ctx' = [d \in Calls |-> ctx'[d]]
    BY <1>1 DEF Fill
  <1>3. ctx'[c] = [sn |-> ctx[c].sn, scheduler |-> ctx[c].scheduler, timed |-> ctx[c].timed, result |-> "ok", response |-> got, timer |-> ctx[c].timer, woken |-> ctx[c].woken, ioError |-> ctx[c].ioError]
    BY <1>1, <1>2 DEF CtxType
  <1>4. got \in Calls \cup {NoCall}
    BY DEF TypeOK, EnderTypes
  <1>5. ctx'[c] \in CtxType
    BY <1>1, <1>3, <1>4 DEF CtxType
  <1> QED
    BY <1>1, <1>2, <1>3, <1>5

(* The first disjunct of Each.                                             *)
EachOne(s, c) ==
    /\ at[s] = "each" /\ c \in todo[s]
    /\ ctx' = [ctx EXCEPT ![c].result = "io_error", ![c].ioError = TRUE]
    /\ todo' = [todo EXCEPT ![s] = @ \ {c}]
    /\ cur' = [cur EXCEPT ![s] = c]
    /\ Goto(s, "rsp")
    /\ UNCHANGED <<back, connVars, callVars, alarm, m_ctxs, sendVars, got, startVars, peerVars>>

EachNone(s) ==
    /\ at[s] = "each" /\ todo[s] = {}
    /\ Goto(s, back[s])
    /\ back' = [back EXCEPT ![s] = "none"]
    /\ UNCHANGED <<ctx, todo, cur, connVars, callVars, alarm, m_ctxs, sendVars, got, startVars, peerVars>>

LEMMA EachIs ==
    ASSUME NEW s \in Sides, Each(s)
    PROVE  (\E c \in todo[s] : EachOne(s, c)) \/ EachNone(s)
  BY DEF Each, EachOne, EachNone

LEMMA Marks ==
    ASSUME TypeOK, NEW s \in Sides, NEW c \in Calls, EachOne(s, c)
    PROVE  /\ ctx' \in [Calls -> CtxType]
           /\ \A d \in Calls \ {c} : ctx'[d] = ctx[d]
           /\ ctx'[c].result = "io_error"
           /\ ctx'[c].ioError = TRUE
           /\ ctx'[c].sn = ctx[c].sn /\ ctx'[c].scheduler = ctx[c].scheduler
           /\ ctx'[c].timed = ctx[c].timed /\ ctx'[c].response = ctx[c].response
           /\ ctx'[c].timer = ctx[c].timer /\ ctx'[c].woken = ctx[c].woken
  <1>1. ctx \in [Calls -> CtxType] /\ ctx[c] \in CtxType
    BY DEF TypeOK, CtxTypes
  <1>2. /\ ctx'[c] = [ctx[c] EXCEPT !.result = "io_error", !.ioError = TRUE]
        /\ \A d \in Calls \ {c} : ctx'[d] = ctx[d]
        /\ ctx' = [d \in Calls |-> ctx'[d]]
    BY <1>1 DEF EachOne
  <1>3. ctx'[c] = [sn |-> ctx[c].sn, scheduler |-> ctx[c].scheduler, timed |-> ctx[c].timed, result |-> "io_error", response |-> ctx[c].response, timer |-> ctx[c].timer, woken |-> ctx[c].woken, ioError |-> TRUE]
    BY <1>1, <1>2 DEF CtxType
  <1>4. TRUE \in BOOLEAN
    OBVIOUS
  <1>5. ctx'[c] \in CtxType
    BY <1>1, <1>3, <1>4 DEF CtxType
  <1> QED
    BY <1>1, <1>2, <1>3, <1>5
-----------------------------------------------------------------------------
(* Every variable keeps its type.                                          *)
LEMMA TypesStay ==
    /\ ConnTypes /\ UNCHANGED connVars => ConnTypes'
    /\ CallTypes /\ UNCHANGED callVars => CallTypes'
    /\ CtxTypes /\ UNCHANGED ctxVars => CtxTypes'
    /\ SendTypes /\ UNCHANGED sendVars => SendTypes'
    /\ EnderTypes /\ UNCHANGED enderVars => EnderTypes'
    /\ StartTypes /\ UNCHANGED startVars => StartTypes'
    /\ PeerTypes /\ UNCHANGED peerVars => PeerTypes'
  BY DEF ConnTypes, CallTypes, CtxTypes, SendTypes, EnderTypes, Places, StartTypes, PeerTypes,
         connVars, callVars, ctxVars, sendVars, enderVars, startVars, peerVars

LEMMA TypeCaller ==
    ASSUME TypeOK, NEW c \in Calls, Caller(c) PROVE TypeOK'
  <1>1. CASE Begin(c)
    <2>1. CASE up
      <3>1. m_sn' \in Numbers
        BY <1>1, NextSnIs DEF Begin, TypeOK, CallTypes
      <3>2. objSn' \in [Calls -> Numbers] /\ call' \in [Calls -> {"idle", "add", "push", "notify", "parked", "done"}]
        BY <1>1, <2>1 DEF Begin, TypeOK, CallTypes, CallGoto
      <3> QED
        BY <1>1, <2>1, <3>1, <3>2, Begins, TypesStay DEF Begin, TypeOK, CallTypes, CtxTypes
    <2>2. CASE ~up
      BY <1>1, <2>2, TypesStay DEF Begin, TypeOK, CallTypes, CtxTypes, CallGoto
    <2> QED
      BY <2>1, <2>2
  <1>2. CASE Register(c)
    BY <1>2, TypesStay DEF Register, CallGoto, AddCtx, TypeOK, CallTypes, CtxTypes
  <1>3. CASE Enqueue(c)
    <2>1. CallTypes' /\ SendTypes'
      BY <1>3 DEF Enqueue, CallGoto, PushBack, TypeOK, CallTypes, SendTypes
    <2>2. CtxTypes'
      BY <1>3, Enqueues DEF Enqueue, TypeOK, CtxTypes
    <2> QED
      BY <1>3, <2>1, <2>2, TypesStay DEF Enqueue, TypeOK
  <1>4. CASE NotifySem(c)
    BY <1>4, TypesStay DEF NotifySem, CallGoto, TypeOK, CallTypes, SendTypes
  <1>5. CASE Return(c)
    <2>1. ctx[c].result \in {"ok", "timeout", "io_error"}
      BY DEF TypeOK, CtxTypes, CtxType
    <2> QED
      BY <1>5, <2>1, TypesStay DEF Return, CallGoto, TypeOK, CallTypes
  <1> QED
    BY <1>1, <1>2, <1>3, <1>4, <1>5 DEF Caller

LEMMA TypeDoRsp ==
    ASSUME TypeOK, Working, NEW e \in Enders, DoRsp(e) PROVE TypeOK'
  <1>1. cur[e] \in Calls
    BY DEF DoRsp, Working, Serving
  <1>2. ctx' \in [Calls -> CtxType] /\ alarm' \in [Calls -> {"none", "armed", "off"}]
    BY <1>1, Ends, TypesStay DEF DoRsp, TypeOK, CtxTypes, EnderTypes, Places
  <1>3. at' \in [Enders -> Places] /\ cur' \in [Enders -> Calls \cup {NoCall}]
    BY DEF DoRsp, Goto, AfterRsp, TypeOK, EnderTypes, Places
  <1> QED
    BY <1>2, <1>3, TypesStay DEF DoRsp, TypeOK, CtxTypes, EnderTypes, Places

LEMMA TypeOnTimeOut ==
    ASSUME TypeOK, NEW c \in Calls, Fire(c) \/ TimeOut(c) PROVE TypeOK'
  <1>0. c \in Enders
    BY SidesAndCalls
  <1>1. CASE Fire(c)
    BY <1>0, <1>1, TypesStay DEF Fire, Goto, TypeOK, CtxTypes, EnderTypes, Places
  <1>2. CASE TimeOut(c)
    BY <1>0, <1>2, TimesOut, TypesStay DEF TimeOut, Goto, EraseCtx, TypeOK, CtxTypes, EnderTypes, Places
  <1> QED
    BY <1>1, <1>2

LEMMA TypeClosing ==
    ASSUME TypeOK, Lanes, NEW s \in Sides, Cut(s) \/ Post(s) \/ Swap(s) \/ Drop(s) \/ Each(s)
    PROVE  TypeOK'
  <1>0. s \in Enders
    BY SidesAndCalls
  <1>1. CASE Cut(s)
    BY <1>0, <1>1, TypesStay DEF Cut, Goto, TypeOK, ConnTypes, EnderTypes, Places
  <1>2. CASE Post(s)
    BY <1>0, <1>2, TypesStay DEF Post, Goto, TypeOK, SendTypes, EnderTypes, Places
  <1>3. CASE Swap(s)
    BY <1>0, <1>3, TypesStay DEF Swap, Goto, TypeOK, CtxTypes, EnderTypes, Places
  <1>4. CASE Drop(s)
    BY <1>0, <1>4, TypesStay DEF Drop, Goto, TypeOK, SendTypes, EnderTypes, Places
  <1>5. ASSUME NEW c \in todo[s], EachOne(s, c) PROVE TypeOK'
    <2>1. c \in Calls
      BY DEF TypeOK, EnderTypes, Places
    <2> QED
      BY <1>0, <1>5, <2>1, Marks, TypesStay DEF EachOne, Goto, TypeOK, CtxTypes, EnderTypes, Places
  <1>6. CASE EachNone(s)
    <2>1. back[s] \in {"top", "leave", "free"}
      BY <1>0, <1>6 DEF EachNone, Lanes, TypeOK, EnderTypes
    <2> QED
      BY <1>0, <1>6, <2>1, TypesStay DEF EachNone, Goto, TypeOK, CtxTypes, EnderTypes, Places
  <1> QED
    BY <1>1, <1>2, <1>3, <1>4, <1>5, <1>6, EachIs

LEMMA TypeDoRead ==
    ASSUME TypeOK, Working, ReadTop \/ RecvResponse \/ Fill \/ RecvInbound \/ RecvFails \/ ReadLeave
    PROVE  TypeOK'
  <1>0. "reader" \in Enders /\ "reader" \in Sides
    BY SidesAndCalls
  <1>1. CASE ReadTop
    BY <1>0, <1>1, TypesStay DEF ReadTop, Goto, InnerClose, TypeOK, EnderTypes, Places
  <1>2. ASSUME RecvResponse PROVE TypeOK'
    <2>1. PICK m \in inbox :
             /\ m.type = "response"
             /\ inbox' = inbox \ {m}
             /\ EraseCtx(m.sn)
             /\ \/ /\ m_ctxs[m.sn] # NoCall
                   /\ cur' = [cur EXCEPT !["reader"] = m_ctxs[m.sn]]
                   /\ got' = m.of
                   /\ Goto("reader", "fill")
                \/ /\ m_ctxs[m.sn] = NoCall
                   /\ Goto("reader", "top")
                   /\ UNCHANGED <<cur, got>>
      BY <1>2 DEF RecvResponse
    <2>2. m.sn \in Numbers /\ m.of \in Calls
      BY <2>1 DEF TypeOK, ConnTypes, InboxType
    <2> QED
      BY <1>0, <1>2, <2>1, <2>2, TypesStay DEF RecvResponse, Goto, EraseCtx, TypeOK, ConnTypes, CtxTypes, EnderTypes, Places
  <1>3. CASE Fill
    <2>1. cur["reader"] \in Calls
      BY <1>0, <1>3 DEF Fill, Working, Serving
    <2> QED
      BY <1>0, <1>3, <2>1, Fills, TypesStay DEF Fill, Goto, TypeOK, CtxTypes, EnderTypes, Places
  <1>4. CASE RecvInbound
    BY <1>0, <1>4, TypesStay DEF RecvInbound, Goto, TypeOK, ConnTypes, EnderTypes, Places, PeerTypes
  <1>5. CASE RecvFails
    BY <1>0, <1>5, TypesStay DEF RecvFails, Goto, InnerClose, TypeOK, EnderTypes, Places
  <1>6. CASE ReadLeave
    BY <1>0, <1>6, TypesStay DEF ReadLeave, Goto, TypeOK, EnderTypes, Places, StartTypes
  <1> QED
    BY <1>1, <1>2, <1>3, <1>4, <1>5, <1>6

LEMMA TypeDoWrite ==
    ASSUME TypeOK, Lanes, Working, WriteTop \/ WriteWait \/ WriteSend \/ WriteLeave
    PROVE  TypeOK'
  <1>0. "writer" \in Enders /\ "writer" \in Sides
    BY SidesAndCalls
  <1>1. CASE WriteTop
    BY <1>0, <1>1, TypesStay DEF WriteTop, Goto, TypeOK, EnderTypes, Places
  <1>2. CASE WriteWait
    <2>1. SendTypes'
      BY <1>2 DEF WriteWait, TypeOK, SendTypes
    <2>2. EnderTypes'
      BY <1>0, <1>2 DEF WriteWait, Goto, TypeOK, EnderTypes, Places
    <2> QED
      BY <1>2, <2>1, <2>2, TypesStay DEF WriteWait, TypeOK
  <1>3. CASE WriteSend
    <2>1. outgoing # <<>> /\ outgoing \in Seq(Calls \cup Requests)
      BY <1>3 DEF WriteSend, Lanes, TypeOK, SendTypes
    <2>2. SendTypes'
      <3> DEFINE S == Calls \cup Requests
      <3>1. Tail(outgoing) \in Seq(S) /\ <<>> \in Seq(S)
        BY <2>1
      <3>2. outgoing' \in {Tail(outgoing), <<>>} /\ UNCHANGED <<m_queue, m_sem>>
        BY <1>3 DEF WriteSend
      <3> QED
        BY <3>1, <3>2 DEF TypeOK, SendTypes
    <2>3. EnderTypes'
      BY <1>0, <1>3 DEF WriteSend, Goto, InnerClose, TypeOK, EnderTypes, Places
    <2>4. Head(outgoing) \in Calls => objSn[Object(Head(outgoing))] \in Numbers
      <3>1. Head(outgoing) = outgoing[1] /\ 1 \in 1..Len(outgoing)
        BY <2>1
      <3> QED
        BY <3>1, ObjectIsCall DEF Working, Calling, Queued, TypeOK, CallTypes
    <2>5. ConnTypes'
      BY <1>3, <2>4 DEF WriteSend, TypeOK, ConnTypes, WireType
    <2> QED
      BY <1>3, <2>2, <2>3, <2>5, TypesStay DEF WriteSend, TypeOK
  <1>4. CASE WriteLeave
    BY <1>0, <1>4, TypesStay DEF WriteLeave, Goto, TypeOK, SendTypes, EnderTypes, Places, StartTypes
  <1> QED
    BY <1>1, <1>2, <1>3, <1>4

LEMMA TypeStart ==
    ASSUME TypeOK, (\E k \in timers : StartBegin(k)) \/ StartWait \/ StartCheck \/ StartCall \/ StartLaunch
                   \/ StartFails
    PROVE  TypeOK'
  <1>0. "starter" \in Enders /\ "starter" \in Sides
    BY SidesAndCalls
  <1>1. CASE \E k \in timers : StartBegin(k)
    BY <1>0, <1>1, TypesStay DEF StartBegin, Goto, TypeOK, EnderTypes, Places, StartTypes
  <1>2. CASE StartWait
    BY <1>0, <1>2, TypesStay DEF StartWait, Goto, TypeOK, EnderTypes, Places, StartTypes
  <1>3. CASE StartCheck
    BY <1>0, <1>3, TypesStay DEF StartCheck, Goto, InnerClose, TypeOK, ConnTypes, EnderTypes, Places, StartTypes
  <1>4. CASE StartCall
    BY <1>0, <1>4, TypesStay DEF StartCall, Goto, InnerClose, TypeOK, EnderTypes, Places
  <1>5. CASE StartLaunch
    BY <1>0, <1>5, TypesStay DEF StartLaunch, TypeOK, EnderTypes, Places
  <1>6. CASE StartFails
    BY <1>0, <1>6, TypesStay DEF StartFails, Goto, TypeOK, EnderTypes, Places, StartTypes
  <1> QED
    BY <1>1, <1>2, <1>3, <1>4, <1>5, <1>6

LEMMA TypeOthers ==
    ASSUME TypeOK, Working, (\E m \in Inbound : Handle(m)) \/ (\E x \in Closers : Close(x)) \/ Peer
    PROVE  TypeOK'
  <1>1. ASSUME NEW m \in Inbound, Handle(m) PROVE TypeOK'
    <2>1. CASE HandleRequest(m)
      BY <2>1, TypesStay DEF HandleRequest, HandlerGoto, TypeOK, PeerTypes
    <2>2. CASE Reply(m)
      <3>1. m \in Requests
        BY <2>2 DEF Reply, Working, Replying
      <3> QED
        BY <2>2, <3>1, TypesStay DEF Reply, HandlerGoto, PushBack, TypeOK, SendTypes, PeerTypes
    <2>3. CASE NotifyReply(m)
      BY <2>3, TypesStay DEF NotifyReply, HandlerGoto, TypeOK, SendTypes, PeerTypes
    <2>4. CASE HandleNotify(m)
      BY <2>4, TypesStay DEF HandleNotify, HandlerGoto, TypeOK, PeerTypes
    <2> QED
      BY <1>1, <2>1, <2>2, <2>3, <2>4 DEF Handle
  <1>2. ASSUME NEW x \in Closers, Close(x) PROVE TypeOK'
    <2>1. CASE CloseBegin(x)
      BY <2>1, TypesStay DEF CloseBegin, HandlerGoto, TypeOK, StartTypes, PeerTypes
    <2>2. CASE CloseSocket(x)
      BY <2>2, TypesStay DEF CloseSocket, TypeOK, ConnTypes, StartTypes, PeerTypes
    <2> QED
      BY <1>2, <2>1, <2>2 DEF Close
  <1>3. CASE PeerAnswers
    BY <1>3, TypesStay DEF PeerAnswers, Response, WireType, InboxType, TypeOK, ConnTypes
  <1>4. CASE PeerLeaves
    BY <1>4, TypesStay DEF PeerLeaves, TypeOK, ConnTypes
  <1>5. ASSUME NEW m \in Inbound, PeerSends(m) PROVE TypeOK'
    BY <1>5, TypesStay DEF PeerSends, HandlerGoto, InboxType, TypeOK, ConnTypes, PeerTypes
  <1> QED
    BY <1>1, <1>2, <1>3, <1>4, <1>5 DEF Peer

LEMMA TypeNext == TypeOK /\ Lanes /\ Working /\ [Next]_vars => TypeOK'
  <1> SUFFICES ASSUME TypeOK, Lanes, Working, [Next]_vars PROVE TypeOK'
    OBVIOUS
  <1>1. CASE UNCHANGED vars
    BY <1>1, TypesStay DEF vars, TypeOK
  <1>2. ASSUME NEW s \in Sides, Closing(s) PROVE TypeOK'
    BY <1>2, TypeClosing, TypeDoRsp, SidesAndCalls DEF Closing
  <1>3. ASSUME NEW c \in Calls, Caller(c) \/ OnTimeOut(c) PROVE TypeOK'
    BY <1>3, TypeCaller, TypeOnTimeOut, TypeDoRsp, SidesAndCalls DEF OnTimeOut
  <1>4. CASE DoRead
    BY <1>2, <1>4, TypeDoRead, SidesAndCalls DEF DoRead
  <1>5. CASE DoWrite
    BY <1>2, <1>5, TypeDoWrite, SidesAndCalls DEF DoWrite
  <1>6. CASE Start
    BY <1>2, <1>6, TypeStart, SidesAndCalls DEF Start
  <1> QED
    BY <1>1, <1>3, <1>4, <1>5, <1>6, TypeOthers DEF Next

-----------------------------------------------------------------------------
(* The fibers of the stream stay in their lanes.                           *)
LEMMA LanesStay ==
    ASSUME Lanes, UNCHANGED <<at, back, outgoing>> PROVE Lanes'
  BY DEF Lanes

LEMMA LaunchAlone == TypeOK /\ Tokens => StartsAlone
  BY DEF TypeOK, StartTypes, Tokens, Taken, TakenByStart, StartsAlone

LEMMA LanesNext == TypeOK /\ Lanes /\ Tokens /\ [Next]_vars => Lanes'
  <1> SUFFICES ASSUME TypeOK, Lanes, Tokens, [Next]_vars PROVE Lanes'
    OBVIOUS
  <1> USE SidesAndCalls
  <1>1. CASE UNCHANGED vars
    BY <1>1, LanesStay DEF vars, enderVars, sendVars
  <1>2. ASSUME NEW c \in Calls, Caller(c) PROVE Lanes'
    BY <1>2, LanesStay DEF Caller, Begin, Register, Enqueue, NotifySem, Return, enderVars, sendVars
  <1>3. ASSUME NEW c \in Calls, Fire(c) \/ TimeOut(c) \/ DoRsp(c) PROVE Lanes'
    <2>1. PICK l \in {"off", "erase", "rsp"} : Goto(c, l)
      BY <1>3 DEF Fire, TimeOut, DoRsp, AfterRsp
    <2>2. UNCHANGED <<back, outgoing>>
      BY <1>3 DEF Fire, TimeOut, DoRsp, sendVars
    <2>3. at'[c] = l /\ \A x \in Enders \ {c} : at'[x] = at[x]
      BY <2>1, Moves
    <2> QED
      BY <2>2, <2>3 DEF Lanes
  <1>4. ASSUME NEW s \in Sides, Closing(s) PROVE Lanes'
    <2>1. CASE DoRsp(s)
      <3>1. at'[s] = AfterRsp(s) /\ at[s] = "rsp" /\ \A x \in Enders \ {s} : at'[x] = at[x]
        BY <2>1, Moves DEF DoRsp
      <3>2. UNCHANGED <<back, outgoing>>
        BY <2>1 DEF DoRsp, sendVars
      <3> QED
        BY <3>1, <3>2 DEF Lanes, AfterRsp, Sides
    <2>2. CASE Cut(s) \/ Post(s) \/ Swap(s) \/ Drop(s)
      <3>1. PICK l \in ClosePlaces : Goto(s, l)
        BY <2>2 DEF Cut, Post, Swap, Drop
      <3>2. UNCHANGED <<back, outgoing>> /\ at[s] \in ClosePlaces
        BY <2>2 DEF Cut, Post, Swap, Drop, sendVars
      <3>3. at'[s] = l /\ \A x \in Enders \ {s} : at'[x] = at[x]
        BY <3>1, Moves
      <3> QED
        BY <3>2, <3>3 DEF Lanes, Sides
    <2>3. CASE \E c \in todo[s] : EachOne(s, c)
      <3>1. at'[s] = "rsp" /\ at[s] = "each" /\ \A x \in Enders \ {s} : at'[x] = at[x]
        BY <2>3, Moves DEF EachOne
      <3>2. UNCHANGED <<back, outgoing>>
        BY <2>3 DEF EachOne, sendVars
      <3> QED
        BY <3>1, <3>2 DEF Lanes, Sides
    <2>4. CASE EachNone(s)
      <3>1. at'[s] = back[s] /\ at[s] = "each" /\ \A x \in Enders \ {s} : at'[x] = at[x]
        BY <2>4, Moves DEF EachNone
      <3>2. back'[s] = "none" /\ (\A x \in Sides \ {s} : back'[x] = back[x]) /\ outgoing' = outgoing
        BY <2>4 DEF EachNone, sendVars, TypeOK, EnderTypes
      <3> QED
        BY <3>1, <3>2 DEF Lanes, Sides
    <2> QED
      BY <1>4, <2>1, <2>2, <2>3, <2>4, EachIs DEF Closing
  <1>5. ASSUME ReadTop \/ RecvResponse \/ Fill \/ RecvInbound \/ RecvFails \/ ReadLeave PROVE Lanes'
    <2>1. outgoing' = outgoing
      BY <1>5 DEF ReadTop, RecvResponse, Fill, RecvInbound, RecvFails, ReadLeave, sendVars
    <2>2. at[("reader")] \notin ClosePlaces \cup {"rsp"}
      BY <1>5 DEF ReadTop, RecvResponse, Fill, RecvInbound, RecvFails, ReadLeave
    <2>3. \/ \E l \in {"recv", "top", "fill", "rsp", "off"} : Goto("reader", l) /\ back' = back
          \/ \E l \in {"leave", "top"} : InnerClose("reader", l)
      BY <1>5 DEF ReadTop, RecvResponse, Fill, RecvInbound, RecvFails, ReadLeave
    <2>4. CASE \E l \in {"recv", "top", "fill", "rsp", "off"} : Goto("reader", l) /\ back' = back
      <3>1. at'["reader"] \in {"recv", "top", "fill", "rsp", "off"} /\ \A x \in Enders \ {"reader"} : at'[x] = at[x]
        BY <2>4, Moves
      <3> QED
        BY <2>1, <2>2, <2>4, <3>1 DEF Lanes, Sides
    <2>5. ASSUME NEW l \in {"leave", "top"}, InnerClose("reader", l) PROVE Lanes'
      <3>1. at'["reader"] = "cut" /\ \A x \in Enders \ {"reader"} : at'[x] = at[x]
        BY <2>5, Moves DEF InnerClose
      <3>2. back'["reader"] = l /\ \A x \in Sides \ {"reader"} : back'[x] = back[x]
        BY <2>5 DEF InnerClose, TypeOK, EnderTypes
      <3> QED
        BY <2>1, <2>5, <3>1, <3>2 DEF Lanes, Sides
    <2> QED
      BY <2>3, <2>4, <2>5
  <1>6. ASSUME WriteTop \/ WriteWait \/ WriteSend \/ WriteLeave PROVE Lanes'
    <2>1. at["writer"] \notin ClosePlaces \cup {"rsp"}
      BY <1>6 DEF WriteTop, WriteWait, WriteSend, WriteLeave
    <2>2. \/ \E l \in {"wait", "clear", "top", "send", "off"} :
                Goto("writer", l) /\ back' = back /\ (l = "send" => outgoing' # <<>>)
          \/ InnerClose("writer", "top")
      BY <1>6 DEF WriteTop, WriteWait, WriteSend, WriteLeave
    <2>3. ASSUME NEW l \in {"wait", "clear", "top", "send", "off"},
                 Goto("writer", l), back' = back, l = "send" => outgoing' # <<>>
          PROVE  Lanes'
      <3>1. at'["writer"] = l /\ \A x \in Enders \ {"writer"} : at'[x] = at[x]
        BY <2>3, Moves
      <3> QED
        BY <2>1, <2>3, <3>1 DEF Lanes, Sides
    <2>4. CASE InnerClose("writer", "top")
      <3>1. at'["writer"] = "cut" /\ \A x \in Enders \ {"writer"} : at'[x] = at[x]
        BY <2>4, Moves DEF InnerClose
      <3>2. back'["writer"] = "top" /\ \A x \in Sides \ {"writer"} : back'[x] = back[x]
        BY <2>4 DEF InnerClose, TypeOK, EnderTypes
      <3> QED
        BY <3>1, <3>2 DEF Lanes, Sides
    <2> QED
      BY <2>2, <2>3, <2>4
  <1>7. ASSUME (\E k \in timers : StartBegin(k)) \/ StartWait \/ StartCheck \/ StartCall \/ StartFails
        PROVE  Lanes'
    <2>1. outgoing' = outgoing
      BY <1>7 DEF StartBegin, StartWait, StartCheck, StartCall, StartFails, sendVars
    <2>2. at["starter"] \notin ClosePlaces \cup {"rsp"}
      BY <1>7 DEF StartBegin, StartWait, StartCheck, StartCall, StartFails
    <2>3. \/ \E l \in {"wait", "check", "call", "launch", "off"} : Goto("starter", l) /\ back' = back
          \/ InnerClose("starter", "free")
      BY <1>7 DEF StartBegin, StartWait, StartCheck, StartCall, StartFails
    <2>4. CASE \E l \in {"wait", "check", "call", "launch", "off"} : Goto("starter", l) /\ back' = back
      <3>1. at'["starter"] \in {"wait", "check", "call", "launch", "off"} /\ \A x \in Enders \ {"starter"} : at'[x] = at[x]
        BY <2>4, Moves
      <3> QED
        BY <2>1, <2>2, <2>4, <3>1 DEF Lanes, Sides
    <2>5. CASE InnerClose("starter", "free")
      <3>1. at'["starter"] = "cut" /\ \A x \in Enders \ {"starter"} : at'[x] = at[x]
        BY <2>5, Moves DEF InnerClose
      <3>2. back'["starter"] = "free" /\ \A x \in Sides \ {"starter"} : back'[x] = back[x]
        BY <2>5 DEF InnerClose, TypeOK, EnderTypes
      <3> QED
        BY <2>1, <2>5, <3>1, <3>2 DEF Lanes, Sides
    <2> QED
      BY <2>3, <2>4, <2>5
  <1>8. ASSUME StartLaunch PROVE Lanes'
    <2>0. at["reader"] = "off" /\ at["writer"] = "off"
      BY <1>8, LaunchAlone DEF StartLaunch, StartsAlone
    <2>1. /\ at'["reader"] = "top" /\ at'["writer"] = "top" /\ at'["starter"] = "off"
          /\ \A c \in Calls : at'[c] = at[c]
      BY <1>8 DEF StartLaunch, TypeOK, EnderTypes
    <2> QED
      BY <1>8, <2>0, <2>1 DEF StartLaunch, Lanes, Sides, sendVars
  <1>9. CASE (\E m \in Inbound : Handle(m)) \/ (\E x \in Closers : Close(x)) \/ Peer
    BY <1>9, LanesStay DEF Handle, HandleRequest, Reply, NotifyReply, HandleNotify, Close, CloseBegin, CloseSocket,
       Peer, PeerAnswers, PeerLeaves, PeerSends, enderVars, sendVars
  <1> QED
    BY <1>1, <1>2, <1>3, <1>4, <1>5, <1>6, <1>7, <1>8, <1>9 DEF Next, OnTimeOut, DoRead, DoWrite, Start

LEMMA TokensStay ==
    ASSUME Tokens, m_waitSem' = m_waitSem,
           at'["reader"] = "off" <=> at["reader"] = "off",
           at'["writer"] = "off" <=> at["writer"] = "off",
           at'["starter"] \in {"off", "wait"} <=> at["starter"] \in {"off", "wait"}
    PROVE  Tokens'
  BY DEF Tokens, Taken, TakenByStart

LEMMA TokensNext == TypeOK /\ Lanes /\ Tokens /\ [Next]_vars => Tokens'
  <1> SUFFICES ASSUME TypeOK, Lanes, Tokens, [Next]_vars PROVE Tokens'
    OBVIOUS
  <1> USE SidesAndCalls
  <1>0. m_waitSem \in Nat
    BY DEF TypeOK, StartTypes
  <1>1. CASE UNCHANGED vars
    BY <1>1, TokensStay DEF vars, enderVars, startVars
  <1>2. ASSUME NEW c \in Calls, Caller(c) PROVE Tokens'
    BY <1>2, TokensStay DEF Caller, Begin, Register, Enqueue, NotifySem, Return, enderVars, startVars
  <1>3. ASSUME NEW c \in Calls, Fire(c) \/ TimeOut(c) \/ DoRsp(c) PROVE Tokens'
    <2>1. PICK l \in {"off", "erase", "rsp"} : Goto(c, l)
      BY <1>3 DEF Fire, TimeOut, DoRsp, AfterRsp
    <2>2. \A x \in Enders \ {c} : at'[x] = at[x]
      BY <2>1, Moves
    <2>3. m_waitSem' = m_waitSem
      BY <1>3 DEF Fire, TimeOut, DoRsp, startVars
    <2> QED
      BY <2>2, <2>3, TokensStay
  (* An ender that is at neither end of its way. *)
  <1>a. ASSUME NEW s \in Sides, NEW l \in Places \ {"off", "wait"},
               Goto(s, l), at[s] \notin {"off", "wait"}, m_waitSem' = m_waitSem
        PROVE  Tokens'
    <2>1. at'[s] = l /\ \A x \in Enders \ {s} : at'[x] = at[x]
      BY <1>a, Moves
    <2> QED
      BY <1>a, <2>1, TokensStay DEF Sides
  <1>4. ASSUME NEW s \in Sides, Closing(s) PROVE Tokens'
    <2>1. m_waitSem' = m_waitSem /\ at[s] \in ClosePlaces \cup {"rsp"}
      BY <1>4 DEF Closing, Cut, Post, Swap, Drop, Each, DoRsp, startVars
    <2>2. at[s] = "each" => back[s] \in {"top", "leave", "free"}
      BY DEF Lanes, TypeOK, EnderTypes
    <2>3. PICK l \in Places \ {"off", "wait"} : Goto(s, l)
      <3>1. CASE DoRsp(s)
        <4>1. AfterRsp(s) \in {"each", "top"} /\ Goto(s, AfterRsp(s))
          BY <3>1 DEF DoRsp, AfterRsp
        <4> QED
          BY <4>1 DEF Places
      <3>2. CASE Cut(s) \/ Post(s) \/ Swap(s) \/ Drop(s)
        BY <3>2 DEF Cut, Post, Swap, Drop, Places
      <3>3. CASE \E c \in todo[s] : EachOne(s, c)
        BY <3>3 DEF EachOne, Places
      <3>4. CASE EachNone(s)
        BY <2>2, <3>4 DEF EachNone, Places
      <3> QED
        BY <1>4, <3>1, <3>2, <3>3, <3>4, EachIs DEF Closing
    <2> QED
      BY <1>a, <2>1, <2>3
  <1>5. ASSUME ReadTop \/ RecvResponse \/ Fill \/ RecvInbound \/ RecvFails PROVE Tokens'
    <2>1. m_waitSem' = m_waitSem /\ at["reader"] \notin {"off", "wait"}
      BY <1>5 DEF ReadTop, RecvResponse, Fill, RecvInbound, RecvFails, startVars
    <2>2. PICK l \in Places \ {"off", "wait"} : Goto("reader", l)
      BY <1>5 DEF ReadTop, RecvResponse, Fill, RecvInbound, RecvFails, InnerClose, Places
    <2> QED
      BY <1>a, <2>1, <2>2
  <1>6. CASE ReadLeave
    <2>1. /\ at["reader"] = "leave" /\ at'["reader"] = "off" /\ \A x \in Enders \ {"reader"} : at'[x] = at[x]
          /\ m_waitSem' = m_waitSem + 1
      BY <1>6, Moves DEF ReadLeave
    <2> QED
      BY <1>0, <2>1 DEF Tokens, Taken, TakenByStart
  <1>7. ASSUME WriteTop \/ WriteWait \/ WriteSend PROVE Tokens'
    <2>1. m_waitSem' = m_waitSem /\ at["writer"] # "off"
      BY <1>7 DEF WriteTop, WriteWait, WriteSend, startVars
    <2>2. PICK l \in Places \ {"off"} : Goto("writer", l)
      BY <1>7 DEF WriteTop, WriteWait, WriteSend, InnerClose, Places
    <2>3. at'["writer"] = l /\ \A x \in Enders \ {"writer"} : at'[x] = at[x]
      BY <2>2, Moves
    <2> QED
      BY <2>1, <2>3, TokensStay
  <1>8. CASE WriteLeave
    <2>1. /\ at["writer"] = "clear" /\ at'["writer"] = "off" /\ \A x \in Enders \ {"writer"} : at'[x] = at[x]
          /\ m_waitSem' = m_waitSem + 1
      BY <1>8, Moves DEF WriteLeave
    <2> QED
      BY <1>0, <2>1 DEF Tokens, Taken, TakenByStart
  <1>9. ASSUME NEW k \in timers, StartBegin(k) PROVE Tokens'
    <2>1. /\ at["starter"] = "off" /\ at'["starter"] = "wait" /\ \A x \in Enders \ {"starter"} : at'[x] = at[x]
          /\ m_waitSem' = m_waitSem
      BY <1>9, Moves DEF StartBegin
    <2> QED
      BY <2>1, TokensStay
  <1>10. CASE StartWait
    <2>1. /\ at["starter"] = "wait" /\ at'["starter"] = "check" /\ \A x \in Enders \ {"starter"} : at'[x] = at[x]
          /\ m_waitSem' = m_waitSem - 2
      BY <1>10, Moves DEF StartWait
    <2> QED
      BY <1>0, <2>1 DEF Tokens, Taken, TakenByStart
  <1>11. ASSUME StartCheck \/ StartCall PROVE Tokens'
    <2>1. m_waitSem' = m_waitSem /\ at["starter"] \notin {"off", "wait"}
      BY <1>11 DEF StartCheck, StartCall, startVars
    <2>2. PICK l \in Places \ {"off", "wait"} : Goto("starter", l)
      BY <1>11 DEF StartCheck, StartCall, InnerClose, Places
    <2> QED
      BY <1>a, <2>1, <2>2
  <1>12. CASE StartLaunch
    <2>1. /\ at["starter"] = "launch" /\ at["reader"] = "off" /\ at["writer"] = "off"
          /\ at'["reader"] = "top" /\ at'["writer"] = "top" /\ at'["starter"] = "off"
          /\ m_waitSem' = m_waitSem
      BY <1>12, LaunchAlone DEF StartLaunch, TypeOK, EnderTypes, StartsAlone, startVars
    <2> QED
      BY <1>0, <2>1 DEF Tokens, Taken, TakenByStart
  <1>13. CASE StartFails
    <2>1. /\ at["starter"] = "free" /\ at'["starter"] = "off" /\ \A x \in Enders \ {"starter"} : at'[x] = at[x]
          /\ m_waitSem' = m_waitSem + 2
      BY <1>13, Moves DEF StartFails
    <2> QED
      BY <1>0, <2>1 DEF Tokens, Taken, TakenByStart
  <1>14. CASE (\E m \in Inbound : Handle(m)) \/ (\E x \in Closers : Close(x)) \/ Peer
    BY <1>14, TokensStay DEF Handle, HandleRequest, Reply, NotifyReply, HandleNotify, Close, CloseBegin, CloseSocket,
       Peer, PeerAnswers, PeerLeaves, PeerSends, enderVars, startVars
  <1> QED
    BY <1>1, <1>2, <1>3, <1>4, <1>5, <1>6, <1>7, <1>8, <1>9, <1>10, <1>11, <1>12, <1>13, <1>14
       DEF Next, OnTimeOut, DoRead, DoWrite, Start

-----------------------------------------------------------------------------
(* Enders work for calls that have been made.                              *)
LEMMA OnlyCallers ==
    ASSUME [Next]_vars
    PROVE  (\E c \in Calls : Caller(c)) \/ UNCHANGED <<world, m_sn, objSn, call, result>>
  <1> USE DEF connVars, callVars
  <1>1. \A e \in Enders : DoRsp(e) => UNCHANGED <<world, callVars>>
    BY DEF DoRsp
  <1>2. \A c \in Calls : OnTimeOut(c) => UNCHANGED <<world, callVars>>
    BY <1>1, SidesAndCalls DEF OnTimeOut, Fire, TimeOut
  <1>3. \A s \in Sides : Closing(s) => UNCHANGED <<world, callVars>>
    BY <1>1, SidesAndCalls DEF Closing, Cut, Post, Swap, Drop, Each
  <1>4. DoRead => UNCHANGED <<world, callVars>>
    BY <1>3, SidesAndCalls DEF DoRead, ReadTop, RecvResponse, Fill, RecvInbound, RecvFails, ReadLeave
  <1>5. DoWrite => UNCHANGED <<world, callVars>>
    BY <1>3, SidesAndCalls DEF DoWrite, WriteTop, WriteWait, WriteSend, WriteLeave
  <1>6. Start => UNCHANGED <<world, callVars>>
    BY <1>3, SidesAndCalls DEF Start, StartBegin, StartWait, StartCheck, StartCall, StartLaunch, StartFails
  <1>7. (\E m \in Inbound : Handle(m)) \/ (\E x \in Closers : Close(x)) \/ Peer => UNCHANGED <<world, callVars>>
    BY DEF Handle, HandleRequest, Reply, NotifyReply, HandleNotify, Close, CloseBegin, CloseSocket,
       Peer, PeerAnswers, PeerLeaves, PeerSends
  <1> QED
    BY <1>2, <1>4, <1>5, <1>6, <1>7 DEF Next, vars

LEMMA EnteredStays ==
    ASSUME TypeOK, Calling, [Next]_vars, NEW c \in Calls, Entered(c) PROVE Entered(c)'
  <1>1. ASSUME NEW d \in Calls, Caller(d) PROVE Entered(c)'
    <2>1. ctx[d].result # "not_connect"
      BY DEF TypeOK, CtxTypes, CtxType
    <2> QED
      BY <1>1, <2>1, CallMoves DEF Caller, Begin, Register, Enqueue, NotifySem, Return, Entered, TypeOK, CallTypes
  <1>2. CASE UNCHANGED <<world, m_sn, objSn, call, result>>
    BY <1>2 DEF Entered
  <1> QED
    BY <1>1, <1>2, OnlyCallers

LEMMA CallingStay ==
    ASSUME Calling, UNCHANGED <<world, call, result>>,
           \A c \in Calls : ~Entered(c) => /\ ctx'[c].woken = ctx[c].woken
                                           /\ ctx'[c].scheduler = ctx[c].scheduler
                                           /\ alarm'[c] = alarm[c]
    PROVE  Calling'
  BY DEF Calling, Entered

LEMMA CallingOfCaller ==
    ASSUME TypeOK, Calling, NEW c \in Calls, Caller(c) PROVE Calling'
  <1>0. world' = world
    BY DEF Caller, Begin, Register, Enqueue, NotifySem, Return, connVars
  <1>1. CASE Begin(c) /\ up
    <2>1. /\ call[c] = "idle" /\ call'[c] = "add" /\ c \in DOMAIN world.object
          /\ \A d \in Calls \ {c} : call'[d] = call[d]
          /\ UNCHANGED <<result, alarm>>
      BY <1>1, CallMoves DEF Begin
    <2>2. \A d \in Calls \ {c} : ctx'[d] = ctx[d]
      BY <1>1, Begins
    <2> QED
      BY <1>0, <2>1, <2>2 DEF Calling, Entered
  <1>2. CASE Begin(c) /\ ~up
    <2>1. /\ call[c] = "idle" /\ call'[c] = "done" /\ result'[c] = "not_connect"
          /\ \A d \in Calls \ {c} : call'[d] = call[d] /\ result'[d] = result[d]
          /\ UNCHANGED <<ctx, alarm>>
      BY <1>2, CallMoves DEF Begin, TypeOK, CallTypes
    <2> QED
      BY <1>0, <2>1 DEF Calling, Entered
  <1>3. CASE Register(c) \/ Enqueue(c) \/ NotifySem(c)
    <2>1. PICK l \in {"push", "notify", "parked"} : CallGoto(c, l)
      BY <1>3 DEF Register, Enqueue, NotifySem
    <2>2. call'[c] = l /\ call[c] \notin {"idle", "done"} /\ (\A d \in Calls \ {c} : call'[d] = call[d]) /\ result' = result
      BY <1>3, <2>1, CallMoves DEF Register, Enqueue, NotifySem
    <2>3. \A d \in Calls \ {c} : ctx'[d] = ctx[d] /\ alarm'[d] = alarm[d]
      BY <1>3, Enqueues DEF Register, Enqueue, NotifySem, TypeOK, CtxTypes, ctxVars
    <2> QED
      BY <1>0, <2>2, <2>3 DEF Calling, Entered
  <1>4. CASE Return(c)
    <2>1. /\ call[c] = "parked" /\ call'[c] = "done" /\ result'[c] = ctx[c].result
          /\ \A d \in Calls \ {c} : call'[d] = call[d] /\ result'[d] = result[d]
          /\ UNCHANGED <<ctx, alarm>>
      BY <1>4, CallMoves DEF Return, TypeOK, CallTypes, ctxVars
    <2>2. ctx[c].result # "not_connect"
      BY DEF TypeOK, CtxTypes, CtxType
    <2> QED
      BY <1>0, <2>1, <2>2 DEF Calling, Entered
  <1> QED
    BY <1>1, <1>2, <1>3, <1>4 DEF Caller

(* What the others do to the contexts and timers: only to those of calls
   that have been made.                                                    *)
LEMMA CallingOfEnder ==
    ASSUME TypeOK, Calling, Serving, [Next]_vars, UNCHANGED <<world, m_sn, objSn, call, result>>,
           ~\E c \in Calls : Caller(c)
    PROVE  Calling'
  <1>1. ASSUME NEW e \in Enders, DoRsp(e) PROVE Calling'
    <2>1. cur[e] \in Calls /\ Entered(cur[e])
      BY <1>1 DEF DoRsp, Serving
    <2>2. \A d \in Calls \ {cur[e]} : ctx'[d] = ctx[d] /\ alarm'[d] = alarm[d]
      BY <1>1, <2>1, Ends DEF DoRsp
    <2> QED
      BY <2>1, <2>2, CallingStay
  <1>2. ASSUME NEW c \in Calls, Fire(c) PROVE Calling'
    <2>1. Entered(c) /\ ctx' = ctx /\ \A d \in Calls \ {c} : alarm'[d] = alarm[d]
      BY <1>2 DEF Fire, Calling, TypeOK, CtxTypes
    <2> QED
      BY <2>1, CallingStay
  <1>3. ASSUME NEW c \in Calls, TimeOut(c) PROVE Calling'
    BY <1>3, TimesOut, CallingStay DEF TimeOut
  <1>4. ASSUME NEW s \in Sides, Closing(s) PROVE Calling'
    <2>1. ASSUME NEW c \in todo[s], EachOne(s, c) PROVE Calling'
      <3>1. c \in Calls
        BY DEF TypeOK, EnderTypes
      <3> QED
        BY <2>1, <3>1, Marks, CallingStay DEF EachOne
    <2>2. CASE Cut(s) \/ Post(s) \/ Swap(s) \/ Drop(s) \/ EachNone(s)
      <3>1. UNCHANGED <<ctx, alarm>>
        BY <2>2 DEF Cut, Post, Swap, Drop, EachNone, ctxVars
      <3> QED
        BY <3>1, CallingStay
    <2> QED
      BY <1>1, <1>4, <2>1, <2>2, EachIs, SidesAndCalls DEF Closing
  <1>5. CASE Fill
    <2>1. cur["reader"] \in Calls
      BY <1>5, SidesAndCalls DEF Fill, Serving
    <2> QED
      BY <1>5, <2>1, Fills, CallingStay DEF Fill
  <1>6. ASSUME \/ ReadTop \/ RecvResponse \/ RecvInbound \/ RecvFails \/ ReadLeave
               \/ WriteTop \/ WriteWait \/ WriteSend \/ WriteLeave
               \/ (\E k \in timers : StartBegin(k)) \/ StartWait \/ StartCheck \/ StartCall \/ StartLaunch \/ StartFails
               \/ (\E m \in Inbound : Handle(m)) \/ (\E x \in Closers : Close(x)) \/ Peer \/ UNCHANGED vars
        PROVE  UNCHANGED <<ctx, alarm>>
    BY <1>6 DEF ReadTop, RecvResponse, RecvInbound, RecvFails, ReadLeave, WriteTop, WriteWait, WriteSend, WriteLeave,
       StartBegin, StartWait, StartCheck, StartCall, StartLaunch, StartFails, Handle, HandleRequest, Reply,
       NotifyReply, HandleNotify, Close, CloseBegin, CloseSocket, Peer, PeerAnswers, PeerLeaves, PeerSends, vars,
       ctxVars
  <1>7. CASE UNCHANGED <<ctx, alarm>>
    BY <1>7, CallingStay
  <1> QED
    BY <1>1, <1>2, <1>3, <1>4, <1>5, <1>6, <1>7, SidesAndCalls DEF Next, OnTimeOut, DoRead, DoWrite, Start

LEMMA CallingNext == TypeOK /\ Calling /\ Serving /\ [Next]_vars => Calling'
  BY CallingOfCaller, CallingOfEnder, OnlyCallers

LEMMA ServingStay ==
    ASSUME TypeOK, Calling, [Next]_vars,
           \A e \in Enders : at'[e] \in {"erase", "fill", "rsp"} => cur'[e] \in Calls /\ Entered(cur'[e]),
           \A c \in Calls : at'[c] = "erase" => cur'[c] = c,
           at'["reader"] = "fill" => got' \in Calls,
           \A k \in Numbers : m_ctxs'[k] # NoCall => m_ctxs'[k] \in Calls /\ Entered(m_ctxs'[k]),
           \A s \in Sides : \A c \in todo'[s] : c \in Calls /\ Entered(c)
    PROVE  Serving'
  <1>1. \A c \in Calls : Entered(c) => Entered(c)'
    BY EnteredStays
  <1> HIDE DEF Entered
  <1>2. \A c : (Entered(c)' <=> (call'[c] # "idle" /\ result'[c] # "not_connect"))
    BY DEF Entered
  <1>3. \A e \in Enders : at'[e] \in {"erase", "fill", "rsp"} => cur'[e] \in Calls /\ call'[cur'[e]] # "idle" /\ result'[cur'[e]] # "not_connect"
    BY <1>1, <1>2
  <1>4. \A k \in Numbers : m_ctxs'[k] # NoCall => call'[m_ctxs'[k]] # "idle" /\ result'[m_ctxs'[k]] # "not_connect"
    BY <1>1, <1>2
  <1>5. \A s \in Sides : \A c \in todo'[s] : call'[c] # "idle" /\ result'[c] # "not_connect"
    BY <1>1, <1>2
  <1> QED
    BY <1>3, <1>4, <1>5 DEF Serving, Entered

(* Most steps give an ender no new work.                                   *)
LEMMA ServingQuiet ==
    ASSUME TypeOK, Calling, Serving, [Next]_vars, UNCHANGED <<cur, todo, got, m_ctxs>>,
           \A e \in Enders : at'[e] \in {"erase", "fill", "rsp"} => at'[e] = at[e]
    PROVE  Serving'
  <1>1. \A s \in Sides : todo[s] \subseteq Calls
    BY DEF TypeOK, EnderTypes
  <1>2. \A k \in Numbers : m_ctxs[k] \in Calls \cup {NoCall}
    BY DEF TypeOK, CtxTypes
  <1> QED
    BY <1>1, <1>2, ServingStay, SidesAndCalls DEF Serving

LEMMA ServingNext == TypeOK /\ Lanes /\ Calling /\ Serving /\ [Next]_vars => Serving'
  <1> SUFFICES ASSUME TypeOK, Lanes, Calling, Serving, [Next]_vars PROVE Serving'
    OBVIOUS
  <1> USE SidesAndCalls
  <1> DEFINE Busy == {"erase", "fill", "rsp"}
  <1>t. /\ \A s \in Sides : todo[s] \subseteq Calls
        /\ \A k \in Numbers : m_ctxs[k] \in Calls \cup {NoCall}
        /\ m_ctxs \in [Numbers -> Calls \cup {NoCall}] /\ cur \in [Enders -> Calls \cup {NoCall}]
        /\ todo \in [Sides -> SUBSET Calls]
    BY DEF TypeOK, EnderTypes, CtxTypes
  <1>s. /\ \A e \in Enders : at[e] \in Busy => cur[e] \in Calls /\ Entered(cur[e])
        /\ \A k \in Numbers : m_ctxs[k] # NoCall => m_ctxs[k] \in Calls /\ Entered(m_ctxs[k])
        /\ \A s \in Sides : \A c \in todo[s] : c \in Calls /\ Entered(c)
    BY <1>t DEF Serving
  (* One ender goes somewhere where it has no work. *)
  <1>q. ASSUME NEW e \in Enders, NEW l, l \notin Busy, Goto(e, l), UNCHANGED <<cur, todo, got, m_ctxs>>
        PROVE  Serving'
    BY <1>q, Moves, ServingQuiet
  <1>1. CASE UNCHANGED vars
    BY <1>1, ServingQuiet DEF vars, enderVars, ctxVars
  <1>2. ASSUME NEW c \in Calls, Caller(c) PROVE Serving'
    <2>1. CASE Register(c)
      <3>1. ctx[c].sn \in Numbers
        BY DEF TypeOK, CtxTypes, CtxType
      <3>2. Entered(c)
        BY <2>1 DEF Register, Entered, Calling
      <3>3. \A k \in Numbers : m_ctxs'[k] = m_ctxs[k] \/ m_ctxs'[k] = c
        BY <2>1, <3>1, <1>t DEF Register, AddCtx
      <3>4. UNCHANGED <<at, cur, todo, got>>
        BY <2>1 DEF Register, enderVars
      <3> QED
        BY <1>s, <3>2, <3>3, <3>4, ServingStay DEF Serving
    <2>2. CASE Begin(c) \/ Enqueue(c) \/ NotifySem(c) \/ Return(c)
      BY <2>2, ServingQuiet DEF Begin, Enqueue, NotifySem, Return, enderVars, ctxVars
    <2> QED
      BY <1>2, <2>1, <2>2 DEF Caller
  <1>3. ASSUME NEW e \in Enders, DoRsp(e) PROVE Serving'
    <2>1. Goto(e, AfterRsp(e)) /\ AfterRsp(e) \notin Busy
      BY <1>3 DEF DoRsp, AfterRsp
    <2>2. (\A x \in Enders \ {e} : at'[x] = at[x]) /\ at'[e] \notin Busy
      BY <2>1, Moves
    <2>3. (\A x \in Enders \ {e} : cur'[x] = cur[x]) /\ UNCHANGED <<todo, got, m_ctxs>>
      BY <1>3, <1>t DEF DoRsp
    <2> QED
      BY <1>s, <2>2, <2>3, ServingStay DEF Serving
  <1>4. ASSUME NEW c \in Calls, Fire(c) PROVE Serving'
    <2>1. at'[c] = "erase" /\ \A x \in Enders \ {c} : at'[x] = at[x]
      BY <1>4, Moves DEF Fire
    <2>2. cur'[c] = c /\ \A x \in Enders \ {c} : cur'[x] = cur[x]
      BY <1>4, <1>t DEF Fire
    <2>3. Entered(c) /\ UNCHANGED <<todo, got, m_ctxs>>
      BY <1>4 DEF Fire, Calling
    <2> QED
      BY <1>s, <2>1, <2>2, <2>3, ServingStay DEF Serving
  <1>5. ASSUME NEW c \in Calls, TimeOut(c) PROVE Serving'
    <2>1. at[c] = "erase" /\ at'[c] = "rsp" /\ \A x \in Enders \ {c} : at'[x] = at[x]
      BY <1>5, Moves DEF TimeOut
    <2>2. \A k \in Numbers : m_ctxs'[k] = m_ctxs[k] \/ m_ctxs'[k] = NoCall
      BY <1>5, <1>t DEF TimeOut, EraseCtx
    <2>3. UNCHANGED <<cur, todo, got>>
      BY <1>5 DEF TimeOut
    <2> QED
      BY <1>s, <2>1, <2>2, <2>3, ServingStay DEF Serving
  <1>6. ASSUME NEW s \in Sides, Closing(s) PROVE Serving'
    <2>1. CASE Cut(s) \/ Post(s) \/ Drop(s)
      <3>1. PICK l \in {"post", "swap", "each"} : Goto(s, l)
        BY <2>1 DEF Cut, Post, Drop
      <3>2. UNCHANGED <<cur, todo, got, m_ctxs>>
        BY <2>1 DEF Cut, Post, Drop, ctxVars
      <3> QED
        BY <3>1, <3>2, <1>q
    <2>2. CASE Swap(s)
      <3>1. at'[s] = "drop" /\ \A x \in Enders \ {s} : at'[x] = at[x]
        BY <2>2, Moves DEF Swap
      <3>2. UNCHANGED <<cur, got>> /\ \A k \in Numbers : m_ctxs'[k] = NoCall
        BY <2>2 DEF Swap
      <3>3. todo'[s] = {m_ctxs[n] : n \in Numbers} \ {NoCall} /\ \A x \in Sides \ {s} : todo'[x] = todo[x]
        BY <2>2, <1>t DEF Swap
      <3>4. \A x \in Sides : \A c \in todo'[x] : c \in Calls /\ Entered(c)
        BY <1>s, <3>3
      <3> QED
        BY <1>s, <3>1, <3>2, <3>4, ServingStay DEF Serving
    <2>3. ASSUME NEW c \in todo[s], EachOne(s, c) PROVE Serving'
      <3>1. at'[s] = "rsp" /\ \A x \in Enders \ {s} : at'[x] = at[x]
        BY <2>3, Moves DEF EachOne
      <3>2. cur'[s] = c /\ \A x \in Enders \ {s} : cur'[x] = cur[x]
        BY <2>3, <1>t DEF EachOne
      <3>3. UNCHANGED <<got, m_ctxs>> /\ \A x \in Sides : todo'[x] \subseteq todo[x]
        BY <2>3, <1>t DEF EachOne
      <3> QED
        BY <1>s, <3>1, <3>2, <3>3, ServingStay DEF Serving
    <2>4. CASE EachNone(s)
      <3>1. back[s] \notin Busy
        BY DEF TypeOK, EnderTypes
      <3> QED
        BY <2>4, <3>1, <1>q DEF EachNone
    <2> QED
      BY <1>3, <1>6, <2>1, <2>2, <2>3, <2>4, EachIs DEF Closing
  <1>7. CASE RecvResponse
    <2>1. PICK m \in inbox :
              /\ m.type = "response"
              /\ EraseCtx(m.sn)
              /\ \/ /\ m_ctxs[m.sn] # NoCall
                    /\ cur' = [cur EXCEPT !["reader"] = m_ctxs[m.sn]]
                    /\ got' = m.of
                    /\ Goto("reader", "fill")
                 \/ /\ m_ctxs[m.sn] = NoCall
                    /\ Goto("reader", "top")
                    /\ UNCHANGED <<cur, got>>
      BY <1>7 DEF RecvResponse
    <2>2. m \in InboxType
      BY DEF TypeOK, ConnTypes
    <2>3. m.sn \in Numbers /\ m.of \in Calls
      BY <2>1, <2>2 DEF InboxType
    <2>4. todo' = todo /\ \A k \in Numbers : m_ctxs'[k] = m_ctxs[k] \/ m_ctxs'[k] = NoCall
      BY <1>7, <2>1, <2>3, <1>t DEF RecvResponse, EraseCtx
    <2>5. CASE m_ctxs[m.sn] # NoCall
      <3>1. at'["reader"] = "fill" /\ \A x \in Enders \ {"reader"} : at'[x] = at[x]
        BY <2>1, <2>5, Moves
      <3>2. cur'["reader"] = m_ctxs[m.sn] /\ \A x \in Enders \ {"reader"} : cur'[x] = cur[x]
        BY <2>1, <2>5, <1>t
      <3>3. got' \in Calls
        BY <2>1, <2>3, <2>5
      <3> QED
        BY <1>s, <2>3, <2>4, <2>5, <3>1, <3>2, <3>3, ServingStay DEF Serving
    <2>6. CASE m_ctxs[m.sn] = NoCall
      <3>1. at'["reader"] = "top" /\ \A x \in Enders \ {"reader"} : at'[x] = at[x]
        BY <2>1, <2>6, Moves
      <3> QED
        BY <1>s, <2>1, <2>4, <2>6, <3>1, ServingStay DEF Serving
    <2> QED
      BY <2>5, <2>6
  <1>8. CASE Fill
    <2>1. at["reader"] = "fill" /\ at'["reader"] = "rsp" /\ \A x \in Enders \ {"reader"} : at'[x] = at[x]
      BY <1>8, Moves DEF Fill
    <2>2. UNCHANGED <<cur, todo, m_ctxs>>
      BY <1>8 DEF Fill
    <2> QED
      BY <1>s, <2>1, <2>2, ServingStay DEF Serving
  <1>9. ASSUME ReadTop \/ RecvInbound \/ RecvFails \/ ReadLeave PROVE Serving'
    <2>1. PICK l \in Places \ Busy : Goto("reader", l)
      BY <1>9 DEF ReadTop, RecvInbound, RecvFails, ReadLeave, InnerClose, Places
    <2>2. UNCHANGED <<cur, todo, got, m_ctxs>>
      BY <1>9 DEF ReadTop, RecvInbound, RecvFails, ReadLeave, ctxVars
    <2> QED
      BY <2>1, <2>2, <1>q
  <1>10. ASSUME WriteTop \/ WriteWait \/ WriteSend \/ WriteLeave PROVE Serving'
    <2>1. PICK l \in Places \ Busy : Goto("writer", l)
      BY <1>10 DEF WriteTop, WriteWait, WriteSend, WriteLeave, InnerClose, Places
    <2>2. UNCHANGED <<cur, todo, got, m_ctxs>>
      BY <1>10 DEF WriteTop, WriteWait, WriteSend, WriteLeave, ctxVars
    <2> QED
      BY <2>1, <2>2, <1>q
  <1>11. ASSUME (\E k \in timers : StartBegin(k)) \/ StartWait \/ StartCheck \/ StartCall \/ StartFails PROVE Serving'
    <2>1. PICK l \in Places \ Busy : Goto("starter", l)
      BY <1>11 DEF StartBegin, StartWait, StartCheck, StartCall, StartFails, InnerClose, Places
    <2>2. UNCHANGED <<cur, todo, got, m_ctxs>>
      BY <1>11 DEF StartBegin, StartWait, StartCheck, StartCall, StartFails, ctxVars
    <2> QED
      BY <2>1, <2>2, <1>q
  <1>12. CASE StartLaunch
    <2>1. /\ at'["reader"] = "top" /\ at'["writer"] = "top" /\ at'["starter"] = "off"
          /\ \A x \in Enders \ Sides : at'[x] = at[x]
      BY <1>12 DEF StartLaunch, TypeOK, EnderTypes, Sides
    <2>2. UNCHANGED <<cur, todo, got, m_ctxs>>
      BY <1>12 DEF StartLaunch, ctxVars
    <2> QED
      BY <2>1, <2>2, ServingQuiet DEF Sides
  <1>13. CASE (\E m \in Inbound : Handle(m)) \/ (\E x \in Closers : Close(x)) \/ Peer
    BY <1>13, ServingQuiet DEF Handle, HandleRequest, Reply, NotifyReply, HandleNotify, Close, CloseBegin, CloseSocket,
       Peer, PeerAnswers, PeerLeaves, PeerSends, enderVars, ctxVars
  <1> QED
    BY <1>1, <1>2, <1>3, <1>4, <1>5, <1>6, <1>7, <1>8, <1>9, <1>10, <1>11, <1>12, <1>13
       DEF Next, OnTimeOut, DoRead, DoWrite, Start

(* What waits to be sent belongs to calls that have been made.             *)
LEMMA QueuedNext == TypeOK /\ Lanes /\ Calling /\ Queued /\ Replying /\ [Next]_vars => Queued'
  <1> SUFFICES ASSUME TypeOK, Lanes, Calling, Queued, Replying, [Next]_vars PROVE Queued'
    OBVIOUS
  <1> DEFINE Item == Calls \cup Requests
             Fine(q) == \A i \in 1..Len(q) : q[i] \in Calls => Entered(q[i])
  <1>t. m_queue \in Seq(Item) /\ outgoing \in Seq(Item)
    BY DEF TypeOK, SendTypes
  <1>s. Fine(m_queue) /\ Fine(outgoing)
    BY DEF Queued
  <1>e. \A c \in Calls : Entered(c) => call'[c] # "idle" /\ result'[c] # "not_connect"
    BY EnteredStays DEF Entered
  (* What either queue holds afterwards. *)
  <1>q. ASSUME Fine(m_queue'), Fine(outgoing') PROVE Queued'
    BY <1>q, <1>e DEF Queued, Entered
  <1>n. Fine(<<>>)
    OBVIOUS
  <1>1. CASE UNCHANGED <<m_queue, outgoing>>
    BY <1>1, <1>s, <1>q
  <1>2. ASSUME NEW x \in Item, x \in Calls => Entered(x), PushBack(x), outgoing' = outgoing PROVE Queued'
    <2>1. Len(m_queue') = Len(m_queue) + 1 /\ \A i \in 1..Len(m_queue') : m_queue'[i] = IF i <= Len(m_queue) THEN m_queue[i] ELSE x
      BY <1>2, <1>t DEF PushBack
    <2>2. Len(m_queue) \in Nat
      BY <1>t
    <2>3. Fine(m_queue')
      BY <1>2, <1>s, <2>1, <2>2
    <2> QED
      BY <1>2, <1>s, <1>q, <2>3
  <1>3. ASSUME NEW c \in Calls, Enqueue(c) PROVE Queued'
    <2>1. Entered(c) /\ PushBack(c) /\ outgoing' = outgoing
      BY <1>3 DEF Enqueue, Entered, Calling
    <2> QED
      BY <1>2, <2>1
  <1>4. ASSUME NEW m \in Inbound, Reply(m) PROVE Queued'
    BY <1>2, <1>4, NoCallAssumption DEF Reply, Replying, Inbound
  <1>5. CASE m_queue' = <<>> /\ outgoing' \in {m_queue, outgoing}
    BY <1>5, <1>s, <1>n, <1>q
  <1>6. CASE WriteSend
    <2>1. at["writer"] = "send" /\ m_queue' = m_queue /\ outgoing' \in {Tail(outgoing), <<>>}
      BY <1>6 DEF WriteSend
    <2>2. CASE outgoing' = <<>>
      BY <2>1, <2>2, <1>s, <1>n, <1>q
    <2>3. CASE outgoing' = Tail(outgoing) /\ outgoing # <<>>
      <3>1. Len(outgoing') = Len(outgoing) - 1 /\ Len(outgoing) \in Nat /\ \A i \in 1..Len(outgoing') : outgoing'[i] = outgoing[i + 1]
        BY <2>3, <1>t
      <3>2. \A i \in 1..Len(outgoing') : i + 1 \in 1..Len(outgoing)
        BY <3>1
      <3>3. Fine(outgoing')
        BY <1>s, <3>1, <3>2
      <3> QED
        BY <2>1, <3>3, <1>s, <1>q
    <2> QED
      BY <2>1, <2>2, <2>3 DEF Lanes
  <1>7. \A e \in Enders : DoRsp(e) => UNCHANGED <<m_queue, outgoing>>
    BY DEF DoRsp, sendVars
  <1>8. ASSUME NEW s \in Sides, Closing(s)
        PROVE  UNCHANGED <<m_queue, outgoing>> \/ (m_queue' = <<>> /\ outgoing' \in {m_queue, outgoing})
    BY <1>7, <1>8, SidesAndCalls DEF Closing, Cut, Post, Swap, Drop, Each, sendVars
  <1>9. WriteWait \/ WriteLeave => m_queue' = <<>> /\ outgoing' \in {m_queue, outgoing}
    BY DEF WriteWait, WriteLeave
  <1>10. \/ UNCHANGED vars \/ (\E c \in Calls : OnTimeOut(c))
         \/ (\E c \in Calls : Begin(c) \/ Register(c) \/ NotifySem(c) \/ Return(c))
         \/ ReadTop \/ RecvResponse \/ Fill \/ RecvInbound \/ RecvFails \/ ReadLeave \/ WriteTop
         \/ (\E k \in timers : StartBegin(k)) \/ StartWait \/ StartCheck \/ StartCall \/ StartLaunch \/ StartFails
         \/ (\E m \in Inbound : HandleRequest(m) \/ NotifyReply(m) \/ HandleNotify(m))
         \/ (\E x \in Closers : Close(x)) \/ Peer
         => UNCHANGED <<m_queue, outgoing>>
    BY <1>7, SidesAndCalls DEF vars, OnTimeOut, Fire, TimeOut, Begin, Register, NotifySem, Return, ReadTop, RecvResponse,
       Fill, RecvInbound, RecvFails, ReadLeave, WriteTop, StartBegin, StartWait, StartCheck, StartCall, StartLaunch,
       StartFails, HandleRequest, NotifyReply, HandleNotify, Close, CloseBegin, CloseSocket, Peer, PeerAnswers,
       PeerLeaves, PeerSends, sendVars
  <1> QED
    BY <1>1, <1>3, <1>4, <1>5, <1>6, <1>8, <1>9, <1>10, SidesAndCalls
       DEF Next, Caller, DoRead, DoWrite, Start, Handle

(* Only requests of the peer are replied to.                               *)
LEMMA ReplyingNext == TypeOK /\ Replying /\ [Next]_vars => Replying'
  <1> SUFFICES ASSUME TypeOK, Replying, [Next]_vars PROVE Replying'
    OBVIOUS
  <1> DEFINE Mid == {"reply", "replyclose", "notify", "notifyclose"}
  <1>t. handler \in [Inbound -> {"unsent", "sent", "scheduled", "reply", "replyclose", "notify", "notifyclose", "close", "done"}]
    BY DEF TypeOK, PeerTypes
  <1>1. ASSUME NEW m \in Inbound, NEW l, handler' = [handler EXCEPT ![m] = l], l \in Mid => m \in Requests
        PROVE  Replying'
    BY <1>1, <1>t DEF Replying
  <1>2. ASSUME NEW m \in Inbound, Handle(m) PROVE Replying'
    <2>1. CASE HandleRequest(m)
      BY <1>1, <2>1 DEF HandleRequest, HandlerGoto
    <2>2. CASE Reply(m) \/ NotifyReply(m)
      BY <1>1, <2>2 DEF Reply, NotifyReply, HandlerGoto, Replying
    <2>3. CASE HandleNotify(m)
      BY <1>1, <2>3 DEF HandleNotify, HandlerGoto
    <2> QED
      BY <1>2, <2>1, <2>2, <2>3 DEF Handle
  <1>3. ASSUME RecvInbound PROVE Replying'
    <2>1. PICK m \in inbox : m.type = "inbound" /\ handler' = [handler EXCEPT ![m.of] = "scheduled"]
      BY <1>3 DEF RecvInbound
    <2>2. m.of \in Inbound
      BY <2>1 DEF TypeOK, ConnTypes, InboxType
    <2> QED
      BY <1>1, <2>1, <2>2
  <1>4. ASSUME NEW x \in Closers, Close(x) PROVE Replying'
    <2>1. CASE handler' = handler
      BY <2>1 DEF Replying
    <2>2. CASE x \in Inbound /\ HandlerGoto(x, "done")
      BY <1>1, <2>2 DEF HandlerGoto
    <2> QED
      BY <1>4, <2>1, <2>2 DEF Close, CloseBegin, CloseSocket, Closers
  <1>5. ASSUME Peer PROVE Replying'
    <2>1. CASE handler' = handler
      BY <2>1 DEF Replying
    <2>2. CASE \E m \in Inbound : HandlerGoto(m, "sent")
      BY <1>1, <2>2 DEF HandlerGoto
    <2> QED
      BY <1>5, <2>1, <2>2 DEF Peer, PeerAnswers, PeerLeaves, PeerSends, peerVars
  <1>6. ASSUME \/ UNCHANGED vars \/ (\E c \in Calls : Caller(c) \/ OnTimeOut(c))
               \/ ReadTop \/ RecvResponse \/ Fill \/ RecvFails \/ ReadLeave \/ Closing("reader") \/ DoWrite \/ Start
        PROVE handler' = handler
    <2>1. \A e \in Enders : DoRsp(e) => handler' = handler
      BY DEF DoRsp, peerVars
    <2>2. \A s \in Sides : Closing(s) => handler' = handler
      BY <2>1, SidesAndCalls DEF Closing, Cut, Post, Swap, Drop, Each, peerVars
    <2>3. \A c \in Calls : Caller(c) \/ OnTimeOut(c) => handler' = handler
      BY <2>1, SidesAndCalls DEF Caller, Begin, Register, Enqueue, NotifySem, Return, OnTimeOut, Fire, TimeOut, peerVars
    <2> QED
      BY <1>6, <2>2, <2>3, SidesAndCalls DEF vars, ReadTop, RecvResponse, Fill, RecvFails, ReadLeave, DoWrite, WriteTop, WriteWait,
         WriteSend, WriteLeave, Start, StartBegin, StartWait, StartCheck, StartCall, StartLaunch, StartFails, peerVars
  <1>7. CASE handler' = handler
    BY <1>7 DEF Replying
  <1> QED
    BY <1>2, <1>3, <1>4, <1>5, <1>6, <1>7 DEF Next, DoRead

-----------------------------------------------------------------------------
LEMMA SoundInit == Init => Sound
  <1> SUFFICES ASSUME Init PROVE Sound
    OBVIOUS
  <1> USE SidesAndCalls
  <1>1. TypeOK
    <2>1. ConnTypes /\ CallTypes
      <3>1. world.sn \in Numbers
        BY WorldsAssumption DEF Init, Numbers
      <3> QED
        BY <3>1, BoundsAssumption DEF Init, ConnTypes, CallTypes, Numbers
    <2>2. CtxTypes
      <3>1. NewCtx \in CtxType
        BY BoundsAssumption DEF NewCtx, CtxType, Numbers
      <3> QED
        BY <3>1 DEF Init, CtxTypes
    <2>3. SendTypes /\ EnderTypes
      BY DEF Init, SendTypes, EnderTypes, Places
    <2>4. StartTypes /\ PeerTypes
      BY DEF Init, StartTypes, PeerTypes, AutoConnect
    <2> QED
      BY <2>1, <2>2, <2>3, <2>4 DEF TypeOK
  <1>2. Lanes
    BY DEF Init, Lanes
  <1>3. Tokens
    BY DEF Init, Tokens, Taken, TakenByStart
  <1>4. \A c \in Calls : ctx[c].woken = 0 /\ ctx[c].scheduler = FALSE
    BY DEF Init, NewCtx
  <1>5. Working
    BY <1>4 DEF Init, Working, Calling, Serving, Queued, Replying, Entered
  <1> QED
    BY <1>1, <1>2, <1>3, <1>5 DEF Sound

LEMMA SoundNext == Sound /\ [Next]_vars => Sound'
  BY TypeNext, LanesNext, TokensNext, CallingNext, ServingNext, QueuedNext, ReplyingNext DEF Sound, Working

(* Every variable stays in its type.                                       *)
THEOREM TypeCorrect == Spec => []TypeOK
  <1>1. Sound => TypeOK
    BY DEF Sound
  <1> QED
    BY <1>1, SoundInit, SoundNext, PTL DEF Spec

(* start() connects again only when the reader and the writer of the
   connection before have gone (async_socket_stream.cpp:64).               *)
THEOREM StartIsAlone == Spec => []StartsAlone
  <1>1. Sound => StartsAlone
    BY LaunchAlone DEF Sound
  <1> QED
    BY <1>1, SoundInit, SoundNext, PTL DEF Spec

-----------------------------------------------------------------------------
(* A message of the peer has no handler while it is on its way.            *)
Arrivals == \A m \in inbox : m.type = "inbound" => handler[m.of] = "sent"

LEMMA ArrivalsNext == TypeOK /\ Arrivals /\ [Next]_vars => Arrivals'
  <1> SUFFICES ASSUME TypeOK, Arrivals, [Next]_vars PROVE Arrivals'
    OBVIOUS
  <1>t. /\ inbox \subseteq InboxType
        /\ handler \in [Inbound -> {"unsent", "sent", "scheduled", "reply", "replyclose", "notify", "notifyclose", "close", "done"}]
    BY DEF TypeOK, ConnTypes, PeerTypes
  <1>m. \A m \in inbox : m.type = "inbound" => m.of \in Inbound /\ m = [type |-> "inbound", sn |-> 0, of |-> m.of]
    BY <1>t DEF InboxType
  (* A handler that has begun goes on. *)
  <1>1. ASSUME NEW m \in Inbound, NEW l, handler[m] # "sent", handler' = [handler EXCEPT ![m] = l], inbox' = inbox
        PROVE  Arrivals'
    BY <1>1, <1>t, <1>m DEF Arrivals
  <1>2. ASSUME NEW m \in Inbound, Handle(m) PROVE Arrivals'
    <2>1. handler[m] # "sent" /\ inbox' = inbox
      BY <1>2 DEF Handle, HandleRequest, Reply, NotifyReply, HandleNotify, connVars
    <2>2. \E l : handler' = [handler EXCEPT ![m] = l]
      BY <1>2 DEF Handle, HandleRequest, Reply, NotifyReply, HandleNotify, HandlerGoto
    <2> QED
      BY <1>1, <2>1, <2>2
  <1>3. CASE RecvInbound
    <2>1. PICK m \in inbox : m.type = "inbound" /\ inbox' = inbox \ {m} /\ handler' = [handler EXCEPT ![m.of] = "scheduled"]
      BY <1>3 DEF RecvInbound
    <2>2. \A d \in inbox' : d.type = "inbound" => d \in inbox /\ d.of # m.of
      BY <2>1, <1>m
    <2> QED
      BY <2>1, <2>2, <1>t, <1>m DEF Arrivals
  <1>4. ASSUME NEW x \in Closers, Close(x) PROVE Arrivals'
    <2>1. inbox' = inbox
      BY <1>4 DEF Close, CloseBegin, CloseSocket, connVars
    <2>2. CASE handler' = handler
      BY <2>1, <2>2 DEF Arrivals
    <2>3. CASE x \in Inbound /\ handler[x] = "close" /\ HandlerGoto(x, "done")
      BY <1>1, <2>1, <2>3 DEF HandlerGoto
    <2> QED
      BY <1>4, <2>2, <2>3 DEF Close, CloseBegin, CloseSocket, Closers
  <1>5. ASSUME NEW m \in Inbound, PeerSends(m) PROVE Arrivals'
    <2>1. /\ inbox' = inbox \cup {[type |-> "inbound", sn |-> 0, of |-> m]}
          /\ handler' = [handler EXCEPT ![m] = "sent"]
      BY <1>5 DEF PeerSends, HandlerGoto
    <2> QED
      BY <2>1, <1>t, <1>m DEF Arrivals
  <1>6. CASE PeerAnswers
    <2>1. handler' = handler /\ \A m \in inbox' : m \in inbox \/ m.type = "response"
      BY <1>6 DEF PeerAnswers, Response, peerVars
    <2> QED
      BY <2>1 DEF Arrivals
  <1>7. ASSUME \/ UNCHANGED vars \/ (\E c \in Calls : Caller(c) \/ OnTimeOut(c)) \/ PeerLeaves
               \/ ReadTop \/ RecvResponse \/ Fill \/ RecvFails \/ ReadLeave \/ Closing("reader") \/ DoWrite \/ Start
        PROVE handler' = handler /\ inbox' \subseteq inbox
    <2> USE DEF peerVars, connVars
    <2>1. \A e \in Enders : DoRsp(e) => handler' = handler /\ inbox' \subseteq inbox
      BY DEF DoRsp
    <2>2. \A s \in Sides : Closing(s) => handler' = handler /\ inbox' \subseteq inbox
      BY <2>1, SidesAndCalls DEF Closing, Cut, Post, Swap, Drop, Each
    <2>3. \A c \in Calls : Caller(c) \/ OnTimeOut(c) => handler' = handler /\ inbox' \subseteq inbox
      BY <2>1, SidesAndCalls DEF Caller, Begin, Register, Enqueue, NotifySem, Return, OnTimeOut, Fire, TimeOut
    <2>4. ReadTop \/ RecvResponse \/ Fill \/ RecvFails \/ ReadLeave \/ PeerLeaves => handler' = handler /\ inbox' \subseteq inbox
      BY DEF ReadTop, RecvResponse, Fill, RecvFails, ReadLeave, PeerLeaves
    <2>5. DoWrite \/ Start => handler' = handler /\ inbox' \subseteq inbox
      BY <2>2, SidesAndCalls DEF DoWrite, WriteTop, WriteWait, WriteSend, WriteLeave, Start, StartBegin,
         StartWait, StartCheck, StartCall, StartLaunch, StartFails
    <2> QED
      BY <1>7, <2>2, <2>3, <2>4, <2>5, SidesAndCalls DEF vars
  <1>8. CASE handler' = handler /\ inbox' \subseteq inbox
    BY <1>8 DEF Arrivals
  <1> QED
    BY <1>2, <1>3, <1>4, <1>5, <1>6, <1>7, <1>8 DEF Next, DoRead, Peer

(* A wake-up of the writer that is due stays due until the writer has it.  *)
LEMMA StuckNext == Sound /\ Arrivals /\ NothingStuck /\ [Next]_vars => NothingStuck'
  <1> SUFFICES ASSUME Sound, Arrivals, NothingStuck, [Next]_vars PROVE NothingStuck'
    OBVIOUS
  <1> USE SidesAndCalls
  <1>t. TypeOK /\ m_sem \in Nat
    BY DEF Sound, TypeOK, SendTypes
  <1>h. handler \in [Inbound -> {"unsent", "sent", "scheduled", "reply", "replyclose", "notify", "notifyclose", "close", "done"}]
    BY <1>t DEF TypeOK, PeerTypes
  <1> DEFINE Told == {"notify", "notifyclose"}
  (* Nothing more to send, and no notification withdrawn. *)
  <1>q. ASSUME m_queue' # <<>> => m_queue # <<>>,
               m_sem > 0 => m_sem' > 0,
               \A c \in Calls : call[c] = "notify" => call'[c] = "notify",
               \A m \in Inbound : handler[m] \in Told => handler'[m] \in Told
        PROVE  NothingStuck'
    BY <1>q DEF NothingStuck, Waking
  <1>1. ASSUME NEW c \in Calls, Begin(c) \/ Register(c) \/ Return(c) PROVE NothingStuck'
    <2>1. PICK l : CallGoto(c, l)
      BY <1>1 DEF Begin, Register, Return
    <2>2. call[c] # "notify" /\ UNCHANGED <<m_queue, m_sem, handler>>
      BY <1>1 DEF Begin, Register, Return, sendVars, peerVars
    <2>3. \A d \in Calls \ {c} : call'[d] = call[d]
      BY <2>1, <1>t, CallMoves
    <2> QED
      BY <2>2, <2>3, <1>q
  <1>2. ASSUME NEW c \in Calls, Enqueue(c) PROVE NothingStuck'
    <2>1. /\ call[c] = "push" /\ CallGoto(c, IF m_queue = <<>> THEN "notify" ELSE "parked")
          /\ UNCHANGED <<m_sem, handler>>
      BY <1>2 DEF Enqueue, peerVars
    <2>2. call'[c] = (IF m_queue = <<>> THEN "notify" ELSE "parked") /\ \A d \in Calls \ {c} : call'[d] = call[d]
      BY <2>1, <1>t, CallMoves
    <2> QED
      BY <2>1, <2>2 DEF NothingStuck, Waking
  <1>3. ASSUME m_sem' = m_sem + 1 PROVE NothingStuck'
    BY <1>3, <1>t DEF NothingStuck, Waking
  <1>4. ASSUME m_queue' = <<>> PROVE NothingStuck'
    BY <1>4 DEF NothingStuck
  <1>5. ASSUME UNCHANGED <<m_queue, m_sem, call, handler>> PROVE NothingStuck'
    BY <1>5 DEF NothingStuck, Waking
  (* One handler goes on. *)
  <1>6. ASSUME NEW m \in Inbound, NEW l, handler' = [handler EXCEPT ![m] = l], UNCHANGED <<m_queue, m_sem, call>>,
               handler[m] \notin Told
        PROVE  NothingStuck'
    BY <1>6, <1>h, <1>q
  <1>7. ASSUME NEW m \in Inbound, Handle(m) PROVE NothingStuck'
    <2>1. CASE HandleRequest(m)
      <3>1. PICK l : HandlerGoto(m, l)
        BY <2>1 DEF HandleRequest
      <3> QED
        BY <2>1, <3>1, <1>6 DEF HandleRequest, HandlerGoto, callVars, sendVars
    <2>2. CASE HandleNotify(m)
      BY <2>2, <1>6 DEF HandleNotify, HandlerGoto, callVars, sendVars
    <2>3. CASE NotifyReply(m)
      BY <2>3, <1>3 DEF NotifyReply
    <2>4. CASE Reply(m)
      <3>1. /\ handler[m] \notin Told /\ UNCHANGED <<m_sem, call>>
            /\ \A d \in Inbound \ {m} : handler'[d] = handler[d]
            /\ m_queue = <<>> => handler'[m] \in Told
        BY <2>4, <1>h DEF Reply, HandlerGoto, callVars
      <3> QED
        BY <3>1 DEF NothingStuck, Waking
    <2> QED
      BY <1>7, <2>1, <2>2, <2>3, <2>4 DEF Handle
  <1>8. CASE RecvInbound
    <2>1. PICK m \in inbox : m.type = "inbound" /\ handler' = [handler EXCEPT ![m.of] = "scheduled"]
      BY <1>8 DEF RecvInbound
    <2>2. m.of \in Inbound /\ handler[m.of] = "sent"
      BY <2>1, <1>t DEF TypeOK, ConnTypes, InboxType, Arrivals
    <2>3. UNCHANGED <<m_queue, m_sem, call>>
      BY <1>8 DEF RecvInbound, callVars, sendVars
    <2> QED
      BY <2>1, <2>2, <2>3, <1>6
  <1>9. ASSUME NEW x \in Closers, Close(x) PROVE NothingStuck'
    <2>1. UNCHANGED <<m_queue, m_sem, call>>
      BY <1>9 DEF Close, CloseBegin, CloseSocket, callVars, sendVars
    <2>2. CASE x \in Inbound /\ handler[x] = "close" /\ HandlerGoto(x, "done")
      BY <1>6, <2>1, <2>2 DEF HandlerGoto
    <2> QED
      BY <1>5, <1>9, <2>1, <2>2 DEF Close, CloseBegin, CloseSocket, Closers
  <1>10. ASSUME Peer PROVE NothingStuck'
    <2>1. UNCHANGED <<m_queue, m_sem, call>>
      BY <1>10 DEF Peer, PeerAnswers, PeerLeaves, PeerSends, callVars, sendVars
    <2>2. ASSUME NEW m \in Inbound, PeerSends(m) PROVE NothingStuck'
      BY <1>6, <2>1, <2>2 DEF PeerSends, HandlerGoto
    <2> QED
      BY <1>5, <1>10, <2>1, <2>2 DEF Peer, PeerAnswers, PeerLeaves, peerVars
  <1>11. \A e \in Enders : DoRsp(e) => UNCHANGED <<m_queue, m_sem, call, handler>>
    BY DEF DoRsp, callVars, sendVars, peerVars
  <1>12. ASSUME NEW s \in Sides, Closing(s) PROVE NothingStuck'
    <2>1. CASE Post(s)
      BY <2>1, <1>3 DEF Post
    <2>2. CASE Drop(s)
      BY <2>2, <1>4 DEF Drop
    <2>3. CASE Cut(s) \/ Swap(s) \/ Each(s) \/ DoRsp(s)
      BY <2>3, <1>5, <1>11 DEF Cut, Swap, Each, callVars, sendVars, peerVars
    <2> QED
      BY <1>12, <2>1, <2>2, <2>3 DEF Closing
  <1>13. CASE WriteWait \/ WriteLeave
    BY <1>13, <1>4 DEF WriteWait, WriteLeave
  <1>14. ASSUME \/ UNCHANGED vars \/ (\E c \in Calls : OnTimeOut(c))
                \/ ReadTop \/ RecvResponse \/ Fill \/ RecvFails \/ ReadLeave \/ WriteTop \/ WriteSend
                \/ (\E k \in timers : StartBegin(k)) \/ StartWait \/ StartCheck \/ StartCall \/ StartLaunch \/ StartFails
         PROVE UNCHANGED <<m_queue, m_sem, call, handler>>
    BY <1>14, <1>11 DEF vars, OnTimeOut, Fire, TimeOut, ReadTop, RecvResponse, Fill, RecvFails, ReadLeave, WriteTop,
       WriteSend, StartBegin, StartWait, StartCheck, StartCall, StartLaunch, StartFails, callVars, sendVars, peerVars
  <1>15. ASSUME NEW c \in Calls, NotifySem(c) PROVE NothingStuck'
    BY <1>15, <1>3 DEF NotifySem
  <1> QED
    BY <1>1, <1>2, <1>5, <1>7, <1>8, <1>9, <1>10, <1>12, <1>13, <1>14, <1>15
       DEF Next, Caller, DoRead, DoWrite, Start

(* When something waits to be sent the writer has been notified or is about
   to be: enqueue() leaves out no notification that is needed
   (async_socket_stream.cpp:284).                                          *)
THEOREM WriterIsWoken == Spec => []NothingStuck
  <1>1. Init => Arrivals /\ NothingStuck
    BY DEF Init, Arrivals, NothingStuck
  <1>2. Sound => TypeOK
    BY DEF Sound
  <1> QED
    BY <1>1, <1>2, SoundInit, SoundNext, ArrivalsNext, StuckNext, PTL DEF Spec

-----------------------------------------------------------------------------
(* What becomes of a call: it is woken by whoever takes its scheduler, and
   reports a cause that is there.                                          *)
EndingOf(c) ==
    /\ Entered(c) => ctx[c].woken = IF ctx[c].scheduler THEN 0 ELSE 1
    /\ call[c] = "done" /\ Entered(c) => ctx[c].woken = 1
    /\ ctx[c].woken = 1 => ctx[c].result \in CausesOf(c)
    /\ \/ ctx[c].result \in CausesOf(c)
       \/ ctx[c].response = NoCall /\ ~ctx[c].ioError
    /\ ~Entered(c) => CausesOf(c) = {}

Ending == \A c \in Calls : EndingOf(c)

(* Whoever ends a call has a cause.                                        *)
Caused == \A e \in Enders : at[e] = "rsp" => CausesOf(cur[e]) # {}

(* The steps that change a call, a context or who ends which call.         *)
LEMMA Steps ==
    ASSUME TypeOK, [Next]_vars
    PROVE  \/ \E c \in Calls : Caller(c)
           \/ \E e \in Enders : DoRsp(e)
           \/ \E c \in Calls : TimeOut(c)
           \/ \E s \in Sides : \E c \in todo[s] : EachOne(s, c)
           \/ Fill
           \/ /\ UNCHANGED <<world, ctx, call, result>>
              /\ \A e \in Enders : at'[e] = "rsp" => at[e] = "rsp" /\ cur'[e] = cur[e]
  <1> DEFINE Rest == /\ UNCHANGED <<world, ctx, call, result>>
                     /\ \A e \in Enders : at'[e] = "rsp" => at[e] = "rsp" /\ cur'[e] = cur[e]
             Goal == \/ \E c \in Calls : Caller(c)
                     \/ \E e \in Enders : DoRsp(e)
                     \/ \E c \in Calls : TimeOut(c)
                     \/ \E s \in Sides : \E c \in todo[s] : EachOne(s, c)
                     \/ Fill
                     \/ Rest
  <1> USE SidesAndCalls
  <1>t. cur \in [Enders -> Calls \cup {NoCall}] /\ \A s \in Sides : back[s] # "rsp"
    BY DEF TypeOK, EnderTypes
  <1>a. ASSUME NEW e \in Enders, NEW l, l # "rsp", Goto(e, l), UNCHANGED <<world, ctx, call, result>>,
               \A x \in Enders \ {e} : cur'[x] = cur[x]
        PROVE  Rest
    BY <1>a, Moves
  <1> HIDE DEF Rest
  <1>1. ASSUME UNCHANGED vars PROVE Rest
    BY <1>1 DEF vars, connVars, callVars, ctxVars, enderVars, Rest
  <1>2. ASSUME NEW c \in Calls, Fire(c) PROVE Rest
    <2>1. Goto(c, "erase") /\ (\A x \in Enders \ {c} : cur'[x] = cur[x]) /\ UNCHANGED <<world, ctx, call, result>>
      BY <1>2, <1>t DEF Fire, connVars, callVars
    <2> QED
      BY <2>1, <1>a
  <1>3. ASSUME NEW s \in Sides, Closing(s) PROVE Goal
    <2>1. CASE Cut(s) \/ Post(s) \/ Swap(s) \/ Drop(s)
      <3>1. PICK l \in {"post", "swap", "drop", "each"} : Goto(s, l)
        BY <2>1 DEF Cut, Post, Swap, Drop
      <3>2. UNCHANGED <<world, ctx, call, result, cur>>
        BY <2>1 DEF Cut, Post, Swap, Drop, connVars, callVars, ctxVars
      <3> QED
        BY <3>1, <3>2, <1>a
    <2>2. CASE EachNone(s)
      BY <2>2, <1>t, <1>a DEF EachNone, connVars, callVars
    <2> QED
      BY <1>3, <2>1, <2>2, EachIs DEF Closing
  <1>4. ASSUME ReadTop \/ RecvInbound \/ RecvFails \/ ReadLeave PROVE Rest
    <2>1. PICK l \in Places \ {"rsp"} : Goto("reader", l)
      BY <1>4 DEF ReadTop, RecvInbound, RecvFails, ReadLeave, InnerClose, Places
    <2>2. UNCHANGED <<world, ctx, call, result, cur>>
      BY <1>4 DEF ReadTop, RecvInbound, RecvFails, ReadLeave, connVars, callVars, ctxVars
    <2> QED
      BY <2>1, <2>2, <1>a
  <1>5. ASSUME RecvResponse PROVE Rest
    <2>1. PICK l \in {"fill", "top"} : Goto("reader", l)
      BY <1>5 DEF RecvResponse
    <2>2. \A x \in Enders \ {"reader"} : cur'[x] = cur[x]
      BY <1>5, <1>t DEF RecvResponse
    <2>3. UNCHANGED <<world, ctx, call, result>>
      BY <1>5 DEF RecvResponse, callVars
    <2> QED
      BY <2>1, <2>2, <2>3, <1>a
  <1>6. ASSUME WriteTop \/ WriteWait \/ WriteSend \/ WriteLeave PROVE Rest
    <2>1. PICK l \in Places \ {"rsp"} : Goto("writer", l)
      BY <1>6 DEF WriteTop, WriteWait, WriteSend, WriteLeave, InnerClose, Places
    <2>2. UNCHANGED <<world, ctx, call, result, cur>>
      BY <1>6 DEF WriteTop, WriteWait, WriteSend, WriteLeave, connVars, callVars, ctxVars
    <2> QED
      BY <2>1, <2>2, <1>a
  <1>7. ASSUME (\E k \in timers : StartBegin(k)) \/ StartWait \/ StartCheck \/ StartCall \/ StartFails PROVE Rest
    <2>1. PICK l \in Places \ {"rsp"} : Goto("starter", l)
      BY <1>7 DEF StartBegin, StartWait, StartCheck, StartCall, StartFails, InnerClose, Places
    <2>2. UNCHANGED <<world, ctx, call, result, cur>>
      BY <1>7 DEF StartBegin, StartWait, StartCheck, StartCall, StartFails, connVars, callVars, ctxVars
    <2> QED
      BY <2>1, <2>2, <1>a
  <1>8. ASSUME StartLaunch PROVE Rest
    <2>1. /\ at'["reader"] = "top" /\ at'["writer"] = "top" /\ at'["starter"] = "off"
          /\ \A x \in Enders \ Sides : at'[x] = at[x]
      BY <1>8 DEF StartLaunch, TypeOK, EnderTypes, Sides
    <2>2. UNCHANGED <<world, ctx, call, result, cur>>
      BY <1>8 DEF StartLaunch, connVars, callVars, ctxVars
    <2> QED
      BY <2>1, <2>2 DEF Sides, Rest
  <1>9. ASSUME (\E m \in Inbound : Handle(m)) \/ (\E x \in Closers : Close(x)) \/ Peer PROVE Rest
    BY <1>9 DEF Handle, HandleRequest, Reply, NotifyReply, HandleNotify, Close, CloseBegin, CloseSocket,
       Peer, PeerAnswers, PeerLeaves, PeerSends, connVars, callVars, ctxVars, enderVars, Rest
  <1>10. \/ UNCHANGED vars \/ (\E c \in Calls : Caller(c)) \/ (\E c \in Calls : Fire(c) \/ TimeOut(c) \/ DoRsp(c))
         \/ (\E s \in Sides : Closing(s)) \/ Fill
         \/ ReadTop \/ RecvResponse \/ RecvInbound \/ RecvFails \/ ReadLeave
         \/ WriteTop \/ WriteWait \/ WriteSend \/ WriteLeave
         \/ (\E k \in timers : StartBegin(k)) \/ StartWait \/ StartCheck \/ StartCall \/ StartLaunch \/ StartFails
         \/ (\E m \in Inbound : Handle(m)) \/ (\E x \in Closers : Close(x)) \/ Peer
    BY DEF Next, OnTimeOut, DoRead, DoWrite, Start
  <1>11. Goal
    BY <1>1, <1>2, <1>3, <1>4, <1>5, <1>6, <1>7, <1>8, <1>9, <1>10
  <1> QED
    BY <1>11 DEF Rest

LEMMA CausesStay ==
    ASSUME NEW c, ctx'[c].response = ctx[c].response, ctx'[c].timed = ctx[c].timed, ctx'[c].ioError = ctx[c].ioError
    PROVE  CausesOf(c)' = CausesOf(c)
  BY DEF CausesOf

(* No cause is taken back.                                                 *)
LEMMA CausesGrow ==
    ASSUME TypeOK, Serving, [Next]_vars, NEW c \in Calls
    PROVE  CausesOf(c) \subseteq CausesOf(c)'
  <1> USE SidesAndCalls
  <1>1. ASSUME NEW d \in Calls, Caller(d) PROVE CausesOf(c) \subseteq CausesOf(c)'
    <2>1. CASE Begin(d) /\ up
      BY <2>1, Begins, CausesStay
    <2>2. CASE Enqueue(d)
      BY <2>2, Enqueues, CausesStay
    <2>3. CASE ctx' = ctx
      BY <2>3, CausesStay
    <2> QED
      BY <1>1, <2>1, <2>2, <2>3 DEF Caller, Begin, Register, NotifySem, Return, ctxVars
  <1>2. ASSUME NEW e \in Enders, DoRsp(e) PROVE CausesOf(c) \subseteq CausesOf(c)'
    <2>1. CASE EndCall(e)
      <3>1. cur[e] \in Calls
        BY <1>2 DEF DoRsp, Serving
      <3> QED
        BY ZenonT(60), <2>1, <3>1, Ends, CausesStay
    <2>2. CASE ctx' = ctx
      BY <2>2, CausesStay
    <2> QED
      BY <1>2, <2>1, <2>2 DEF DoRsp
  <1>3. ASSUME NEW d \in Calls, TimeOut(d) PROVE CausesOf(c) \subseteq CausesOf(c)'
    BY <1>3, TimesOut DEF CausesOf
  <1>4. ASSUME NEW s \in Sides, NEW d \in todo[s], EachOne(s, d) PROVE CausesOf(c) \subseteq CausesOf(c)'
    <2>1. d \in Calls
      BY DEF TypeOK, EnderTypes
    <2> QED
      BY ZenonT(60), <1>4, <2>1, Marks DEF CausesOf
  <1>5. CASE Fill
    <2>1. cur["reader"] \in Calls /\ got \in Calls
      BY <1>5 DEF Fill, Serving
    <2> QED
      BY <1>5, <2>1, Fills DEF CausesOf
  <1>6. CASE ctx' = ctx
    BY <1>6, CausesStay
  <1> QED
    BY <1>1, <1>2, <1>3, <1>4, <1>5, <1>6, Steps

LEMMA CausedNext == TypeOK /\ Serving /\ Caused /\ [Next]_vars => Caused'
  <1> SUFFICES ASSUME TypeOK, Serving, Caused, [Next]_vars PROVE Caused'
    OBVIOUS
  <1> USE SidesAndCalls
  <1>g. \A c \in Calls : CausesOf(c) \subseteq CausesOf(c)'
    BY CausesGrow
  <1>t. cur \in [Enders -> Calls \cup {NoCall}]
    BY DEF TypeOK, EnderTypes
  <1>n. \A c : (CausesOf(c)' = {}) <=> (ctx'[c].response = NoCall /\ ~ctx'[c].timed /\ ~ctx'[c].ioError)
    BY DEF CausesOf
  <1>b. \A e \in Enders : at[e] = "rsp" => cur[e] \in Calls /\ ~(ctx'[cur[e]].response = NoCall /\ ~ctx'[cur[e]].timed /\ ~ctx'[cur[e]].ioError)
    <2> SUFFICES ASSUME NEW e \in Enders, at[e] = "rsp"
                 PROVE cur[e] \in Calls /\ ~(ctx'[cur[e]].response = NoCall /\ ~ctx'[cur[e]].timed /\ ~ctx'[cur[e]].ioError)
      OBVIOUS
    <2>1. cur[e] \in Calls /\ CausesOf(cur[e]) # {}
      BY DEF Serving, Caused
    <2>2. PICK c \in Calls : c = cur[e] /\ CausesOf(c) # {}
      BY <2>1
    <2>3. CausesOf(c)' # {} 
      BY <2>2, <1>g
    <2>4. ~(ctx'[c].response = NoCall /\ ~ctx'[c].timed /\ ~ctx'[c].ioError)
      BY <2>3, <1>n
    <2> QED
      BY <2>2, <2>4
  <1>q. ASSUME \A e \in Enders : at'[e] = "rsp" =>
                 \/ at[e] = "rsp" /\ cur'[e] = cur[e]
                 \/ ~(ctx'[cur'[e]].response = NoCall /\ ~ctx'[cur'[e]].timed /\ ~ctx'[cur'[e]].ioError)
        PROVE  Caused'
    BY <1>q, <1>b DEF Caused, CausesOf
  <1>1. CASE UNCHANGED <<at, cur>>
    BY <1>1, <1>q
  <1>2. ASSUME NEW e \in Enders, DoRsp(e) PROVE Caused'
    <2>1. at'[e] # "rsp" /\ (\A x \in Enders \ {e} : at'[x] = at[x])
      BY <1>2, Moves DEF DoRsp, AfterRsp
    <2>2. \A x \in Enders \ {e} : cur'[x] = cur[x]
      BY <1>2, <1>t DEF DoRsp
    <2> QED
      BY <2>1, <2>2, <1>q
  <1>3. ASSUME NEW c \in Calls, TimeOut(c) PROVE Caused'
    <2>1. \A x \in Enders \ {c} : at'[x] = at[x]
      BY <1>3, Moves DEF TimeOut
    <2>2. cur' = cur /\ cur[c] = c /\ ctx'[c].timed
      BY <1>3, TimesOut DEF TimeOut, Serving
    <2> QED
      BY <2>1, <2>2, <1>q
  <1>4. ASSUME NEW s \in Sides, NEW c \in todo[s], EachOne(s, c) PROVE Caused'
    <2>0. c \in Calls
      BY DEF TypeOK, EnderTypes
    <2>1. \A x \in Enders \ {s} : at'[x] = at[x]
      BY <1>4, Moves DEF EachOne
    <2>2. cur'[s] = c /\ (\A x \in Enders \ {s} : cur'[x] = cur[x]) /\ ctx'[c].ioError
      BY ZenonT(60), <1>4, <2>0, <1>t, Marks DEF EachOne
    <2> QED
      BY <2>1, <2>2, <1>q
  <1>5. CASE Fill
    <2>0. cur["reader"] \in Calls /\ got \in Calls
      BY <1>5 DEF Fill, Serving
    <2>1. \A x \in Enders \ {"reader"} : at'[x] = at[x]
      BY <1>5, Moves DEF Fill
    <2>2. cur' = cur /\ ctx'[cur["reader"]].response # NoCall
      BY <1>5, <2>0, Fills DEF Fill
    <2> QED
      BY <2>1, <2>2, <1>q
  <1>6. CASE \A e \in Enders : at'[e] = "rsp" => at[e] = "rsp" /\ cur'[e] = cur[e]
    BY <1>6, <1>q
  <1>7. ASSUME NEW c \in Calls, Caller(c) PROVE UNCHANGED <<at, cur>>
    BY <1>7 DEF Caller, Begin, Register, Enqueue, NotifySem, Return, enderVars
  <1> QED
    BY <1>1, <1>2, <1>3, <1>4, <1>5, <1>6, <1>7, Steps

LEMMA EndingOfStay ==
    ASSUME NEW c, EndingOf(c), ctx'[c] = ctx[c], call'[c] = call[c], result'[c] = result[c]
    PROVE  EndingOf(c)'
  BY DEF EndingOf, Entered, CausesOf

LEMMA EndingNext == TypeOK /\ Calling /\ Serving /\ Ending /\ Caused /\ [Next]_vars => Ending'
  <1> SUFFICES ASSUME TypeOK, Calling, Serving, Ending, Caused, [Next]_vars, NEW c \in Calls PROVE EndingOf(c)'
    BY DEF Ending
  <1> USE SidesAndCalls
  <1>0. EndingOf(c) /\ ctx[c] \in CtxType
    BY DEF Ending, TypeOK, CtxTypes
  <1>1. ASSUME NEW d \in Calls, Caller(d) PROVE EndingOf(c)'
    <2>1. CASE c # d
      <3>1. call'[c] = call[c] /\ ctx'[c] = ctx[c] /\ result'[c] = result[c]
        <4>1. CASE Begin(d) /\ up
          <5>1. call'[c] = call[c] /\ result'[c] = result[c]
            BY <2>1, <4>1, CallMoves DEF Begin
          <5>2. ctx'[c] = ctx[c]
            BY <2>1, <4>1, Begins
          <5> QED
            BY <5>1, <5>2
        <4>2. CASE Begin(d) /\ ~up
          BY <2>1, <4>2, CallMoves DEF Begin, TypeOK, CallTypes
        <4>3. CASE Enqueue(d)
          BY <2>1, <4>3, CallMoves, Enqueues DEF Enqueue
        <4>4. CASE Register(d) \/ NotifySem(d)
          BY <2>1, <4>4, CallMoves DEF Register, NotifySem, ctxVars
        <4>5. CASE Return(d)
          BY <2>1, <4>5, CallMoves DEF Return, TypeOK, CallTypes, ctxVars
        <4> QED
          BY <1>1, <4>1, <4>2, <4>3, <4>4, <4>5 DEF Caller
      <3> QED
        BY <1>0, <3>1, EndingOfStay
    <2>2. CASE c = d /\ Begin(c) /\ up
      <3>1. call[c] = "idle" /\ call'[c] = "add" /\ result' = result
        BY <2>2, CallMoves DEF Begin
      <3>2. ctx[c].woken = 0
        BY <3>1 DEF Calling, Entered
      <3> QED
        BY <1>0, <2>2, <3>1, <3>2, Begins DEF EndingOf, Entered, CausesOf
    <2>3. CASE c = d /\ Begin(c) /\ ~up
      <3>1. call[c] = "idle" /\ call'[c] = "done" /\ result'[c] = "not_connect" /\ ctx' = ctx
        BY <2>3, CallMoves DEF Begin, TypeOK, CallTypes
      <3> QED
        BY <1>0, <3>1 DEF EndingOf, Entered, CausesOf
    <2>4. CASE c = d /\ Enqueue(c)
      <3>1. call[c] = "push" /\ call'[c] \in {"notify", "parked"} /\ result' = result
        BY <2>4, CallMoves DEF Enqueue
      <3> QED
        BY <1>0, <2>4, <3>1, Enqueues DEF EndingOf, Entered, CausesOf
    <2>5. CASE c = d /\ (Register(c) \/ NotifySem(c))
      <3>1. call[c] \notin {"idle", "done"} /\ call'[c] \notin {"idle", "done"} /\ result' = result /\ ctx' = ctx
        BY <2>5, CallMoves DEF Register, NotifySem, ctxVars
      <3> QED
        BY <1>0, <3>1 DEF EndingOf, Entered, CausesOf
    <2>6. CASE c = d /\ Return(c)
      <3>1. call[c] = "parked" /\ call'[c] = "done" /\ ctx' = ctx /\ ctx[c].woken > 0
        BY <2>6, CallMoves DEF Return, ctxVars
      <3>2. Entered(c)
        BY <3>1 DEF Calling, Entered
      <3>3. result'[c] = ctx[c].result /\ ctx[c].result # "not_connect"
        BY <2>6, <1>0 DEF Return, TypeOK, CallTypes, CtxType
      <3>4. ctx[c].woken = 1
        BY <1>0, <3>1, <3>2 DEF EndingOf
      <3>5. Entered(c)'
        BY <3>1, <3>3 DEF Entered
      <3>6. CausesOf(c)' = CausesOf(c)
        BY <3>1, CausesStay
      <3> QED
        BY <1>0, <3>1, <3>2, <3>4, <3>5, <3>6 DEF EndingOf
    <2> QED
      BY <1>1, <2>1, <2>2, <2>3, <2>4, <2>5, <2>6 DEF Caller
  <1>2. ASSUME UNCHANGED <<call, result>>, ctx'[c] = ctx[c] PROVE EndingOf(c)'
    BY <1>0, <1>2, EndingOfStay
  <1>3. ASSUME NEW e \in Enders, DoRsp(e) PROVE EndingOf(c)'
    <2>0. at[e] = "rsp" /\ cur[e] \in Calls /\ Entered(cur[e]) /\ CausesOf(cur[e]) # {} /\ UNCHANGED <<call, result>>
      BY <1>3 DEF DoRsp, Serving, Caused, callVars
    <2>1. CASE ctx' = ctx \/ (EndCall(e) /\ c # cur[e])
      BY <2>0, <2>1, <1>2, Ends
    <2>2. CASE ctx[cur[e]].scheduler /\ EndCall(e) /\ c = cur[e]
      <3>1. Entered(c) /\ ctx[c].woken = 0 /\ CausesOf(c) # {}
        BY <1>0, <2>0, <2>2 DEF EndingOf
      <3>2. /\ ctx'[c].timed = ctx[c].timed /\ ctx'[c].response = ctx[c].response /\ ctx'[c].ioError = ctx[c].ioError
            /\ ctx'[c].scheduler = FALSE /\ ctx'[c].woken = 1
            /\ ctx'[c].result = IF ctx[c].timed THEN "timeout" ELSE ctx[c].result
        <4>1. ctx'[c].woken = ctx[c].woken + 1
          BY <2>0, <2>2, Ends
        <4>2. ctx'[c].woken = 1
          BY <3>1, <4>1
        <4> QED
          BY <2>0, <2>2, <4>2, Ends
      <3>3. CausesOf(c)' = CausesOf(c)
        BY <3>2, CausesStay
      <3>4. ctx'[c].result \in CausesOf(c)
        <4>1. CASE ctx[c].timed
          BY <4>1, <3>2 DEF CausesOf
        <4>2. CASE ~ctx[c].timed
          BY <1>0, <4>2, <3>1, <3>2 DEF CausesOf, EndingOf
        <4> QED
          BY <4>1, <4>2
      <3> QED
        BY <2>0, <3>1, <3>2, <3>3, <3>4 DEF EndingOf, Entered
    <2> QED
      BY <1>3, <2>1, <2>2 DEF DoRsp
  <1>4. ASSUME NEW d \in Calls, TimeOut(d) PROVE EndingOf(c)'
    <2>0. at[d] = "erase" /\ cur[d] = d /\ Entered(d) /\ UNCHANGED <<call, result>>
      BY <1>4 DEF TimeOut, Serving, callVars
    <2>1. CASE c = d
      BY ZenonT(60), <1>0, <1>4, <2>0, <2>1, TimesOut DEF EndingOf, Entered, CausesOf
    <2>2. CASE c # d
      <3>1. ctx'[c] = ctx[c]
        BY <1>4, <2>2, TimesOut
      <3> QED
        BY <1>2, <2>0, <3>1
    <2> QED
      BY <2>1, <2>2
  <1>5. ASSUME NEW s \in Sides, NEW d \in todo[s], EachOne(s, d) PROVE EndingOf(c)'
    <2>0. d \in Calls /\ Entered(d) /\ UNCHANGED <<call, result>>
      BY <1>5 DEF EachOne, Serving, TypeOK, EnderTypes, callVars
    <2>1. CASE c = d
      BY <1>0, <1>5, <2>0, <2>1, Marks DEF EndingOf, Entered, CausesOf
    <2>2. CASE c # d
      BY ZenonT(60), <1>2, <1>5, <2>0, <2>2, Marks
    <2> QED
      BY <2>1, <2>2
  <1>6. CASE Fill
    <2>0. cur["reader"] \in Calls /\ Entered(cur["reader"]) /\ got \in Calls /\ UNCHANGED <<call, result>>
      BY <1>6 DEF Fill, Serving, callVars
    <2>1. CASE c = cur["reader"]
      BY <1>0, <1>6, <2>0, <2>1, Fills DEF EndingOf, Entered, CausesOf
    <2>2. CASE c # cur["reader"]
      BY <1>2, <1>6, <2>0, <2>2, Fills
    <2> QED
      BY <2>1, <2>2
  <1>7. CASE UNCHANGED <<world, ctx, call, result>>
    BY <1>2, <1>7
  <1> QED
    BY <1>1, <1>3, <1>4, <1>5, <1>6, <1>7, Steps

(* What request() promises. *)
Kept == Sound /\ Ending /\ Caused

LEMMA KeptInit == Init => Kept
  <1> SUFFICES ASSUME Init PROVE Kept
    OBVIOUS
  <1>1. Ending
    BY DEF Init, NewCtx, Ending, EndingOf, Entered, CausesOf
  <1>2. Caused
    BY SidesAndCalls DEF Init, Caused
  <1> QED
    BY <1>1, <1>2, SoundInit DEF Kept

LEMMA KeptNext == Kept /\ [Next]_vars => Kept'
  BY SoundNext, EndingNext, CausedNext DEF Kept, Sound, Working

(* The phase of a call follows from few facts.                             *)
LEMMA PhaseIs ==
    ASSUME TypeOK, Calling, Ending, NEW c \in Calls
    PROVE  /\ call[c] = "idle" => PhaseOf(c) = "idle"
           /\ call[c] = "done" => PhaseOf(c) = "returned"
           /\ call[c] \notin {"idle", "done"} => Entered(c) /\ PhaseOf(c) = IF ctx[c].scheduler THEN "waiting" ELSE "woken"
           /\ call[c] \notin {"idle", "done"} => ctx[c].woken = IF ctx[c].scheduler THEN 0 ELSE 1
  <1>1. EndingOf(c) /\ (call[c] # "done" => result[c] = "nothing") /\ (~Entered(c) => ctx[c].woken = 0)
    BY DEF Ending, Calling
  <1>2. ctx[c].woken \in {0, 1}
    BY <1>1 DEF EndingOf
  <1>3. call[c] \notin {"idle", "done"} => Entered(c) /\ ctx[c].woken = IF ctx[c].scheduler THEN 0 ELSE 1
    BY <1>1 DEF Entered, EndingOf
  <1>4. PhaseOf(c) = IF call[c] = "idle" THEN "idle" ELSE IF call[c] = "done" THEN "returned"
                     ELSE IF ctx[c].woken = 1 THEN "woken" ELSE "waiting"
    <2>1. ASSUME NEW k \in {0, 1}, ctx[c].woken = k
          PROVE  PhaseOf(c) = IF call[c] = "idle" THEN "idle" ELSE IF call[c] = "done" THEN "returned"
                              ELSE IF k = 1 THEN "woken" ELSE "waiting"
      <3>1. CASE call[c] = "idle"
        BY <2>1, <3>1 DEF PhaseOf
      <3>2. CASE call[c] = "done"
        BY <2>1, <3>2 DEF PhaseOf
      <3>3. CASE call[c] \notin {"idle", "done"} /\ k = 1
        BY <2>1, <3>3 DEF PhaseOf
      <3>4. CASE call[c] \notin {"idle", "done"} /\ k = 0
        BY <2>1, <3>4 DEF PhaseOf
      <3> QED
        BY <3>1, <3>2, <3>3, <3>4
    <2> QED
      BY <1>2, <2>1
  <1>5. ctx[c].scheduler \in BOOLEAN
    BY DEF TypeOK, CtxTypes, CtxType
  <1> QED
    BY <1>3, <1>4, <1>5

-----------------------------------------------------------------------------
(* The calls as RequestPromise sees them.                                  *)
Phases == [c \in Calls |-> PhaseOf(c)]
Causes == [c \in Calls |-> CausesOf(c)]

LEMMA PhaseStays ==
    ASSUME NEW c, ctx'[c].woken = ctx[c].woken, call'[c] = call[c]
    PROVE  PhaseOf(c)' = PhaseOf(c)
  BY DEF PhaseOf

LEMMA PhasesAre ==
    /\ \A c \in Calls : Phases[c] = PhaseOf(c)
    /\ (\A c \in Calls : PhaseOf(c)' = PhaseOf(c)) => Phases' = Phases
    /\ \A c \in Calls : \A p :
         PhaseOf(c)' = p /\ (\A d \in Calls \ {c} : PhaseOf(d)' = PhaseOf(d)) => Phases' = [Phases EXCEPT ![c] = p]
  BY DEF Phases

LEMMA CausesAre ==
    /\ \A c \in Calls : Causes[c] = CausesOf(c)
    /\ (\A c \in Calls : CausesOf(c)' = CausesOf(c)) => Causes' = Causes
    /\ \A c \in Calls : \A e :
         CausesOf(c)' = CausesOf(c) \cup {e} /\ (\A d \in Calls \ {c} : CausesOf(d)' = CausesOf(d))
         => Causes' = [Causes EXCEPT ![c] = @ \cup {e}]
  BY DEF Causes

PhasesFollow ==
    \A c \in Calls :
        /\ call[c] = "idle" => PhaseOf(c) = "idle"
        /\ call[c] = "done" => PhaseOf(c) = "returned"
        /\ call[c] \notin {"idle", "done"} => PhaseOf(c) = IF ctx[c].scheduler THEN "waiting" ELSE "woken"

LEMMA KeptPhases == Kept => PhasesFollow
  BY PhaseIs DEF Kept, Sound, Working, PhasesFollow

LEMMA NextPhases == Kept /\ [Next]_vars => PhasesFollow'
  BY KeptPhases, KeptNext, PTL

LEMMA PromiseInit == Init => Promise!Init
  <1> SUFFICES ASSUME Init PROVE Promise!Init
    OBVIOUS
  <1>1. \A c \in Calls : PhaseOf(c) = "idle" /\ CausesOf(c) = {}
    <2>1. Kept
      BY KeptInit
    <2>2. \A c \in Calls : PhaseOf(c) = "idle"
      BY <2>1, PhaseIs DEF Init, Kept, Sound, Working
    <2>3. \A c \in Calls : CausesOf(c) = {}
      BY DEF Init, NewCtx, CausesOf
    <2> QED
      BY <2>2, <2>3
  <1> QED
    BY <1>1 DEF Init, Promise!Init

(* Each step of a call is one of the promise, or none.                     *)
LEMMA PromiseNext == Kept /\ [Next]_vars => [Promise!Next]_(Promise!vars)
  <1> SUFFICES ASSUME Kept, [Next]_vars PROVE Promise!Next \/ UNCHANGED Promise!vars
    OBVIOUS
  <1> USE SidesAndCalls
  <1>0. TypeOK /\ Calling /\ Serving /\ Ending /\ Caused
    BY DEF Kept, Sound, Working
  <1>i. \A c \in Calls :
          /\ call'[c] = "idle" => PhaseOf(c)' = "idle"
          /\ call'[c] = "done" => PhaseOf(c)' = "returned"
          /\ call'[c] \notin {"idle", "done"} => PhaseOf(c)' = IF ctx'[c].scheduler THEN "waiting" ELSE "woken"
    BY NextPhases DEF PhasesFollow
  (* The actions of the promise, with the calls as it sees them. *)
  <1>ask. ASSUME NEW c \in Calls, Phases[c] = "idle", Phases' = [Phases EXCEPT ![c] = "waiting"], Causes' = Causes, result' = result
          PROVE  Promise!Next
    BY <1>ask DEF Phases, Causes, Promise!Next, Promise!Ask
  <1>refuse. ASSUME NEW c \in Calls, Phases[c] = "idle", Phases' = [Phases EXCEPT ![c] = "returned"], Causes' = Causes,
                    result' = [result EXCEPT ![c] = "not_connect"]
             PROVE  Promise!Next
    BY <1>refuse DEF Phases, Causes, Promise!Next, Promise!Refuse
  <1>happen. ASSUME NEW c \in Calls, NEW e \in {"ok", "timeout", "io_error"}, Phases[c] # "idle", Phases' = Phases, result' = result,
                    Causes' = [Causes EXCEPT ![c] = @ \cup {e}]
             PROVE  Promise!Next
    BY <1>happen DEF Phases, Causes, Promise!Next, Promise!Happen, Promise!Endings
  <1>wake. ASSUME NEW c \in Calls, Phases[c] = "waiting", Causes[c] # {}, Phases' = [Phases EXCEPT ![c] = "woken"], Causes' = Causes, result' = result
           PROVE  Promise!Next
    BY <1>wake DEF Phases, Causes, Promise!Next, Promise!Wake
  <1>return. ASSUME NEW c \in Calls, NEW e \in Causes[c], Phases[c] = "woken", Phases' = [Phases EXCEPT ![c] = "returned"],
                    Causes' = Causes, result' = [result EXCEPT ![c] = e]
             PROVE  Promise!Next
    BY <1>return DEF Phases, Causes, Promise!Next, Promise!Return
  <1>none. ASSUME Phases' = Phases, Causes' = Causes, result' = result
           PROVE  UNCHANGED Promise!vars
    BY <1>none DEF Phases, Causes, Promise!vars
  <1>1. ASSUME NEW c \in Calls, Begin(c), up PROVE Promise!Next
    <2>1. call[c] = "idle" /\ call'[c] = "add" /\ (\A d \in Calls \ {c} : call'[d] = call[d]) /\ result' = result
      BY <1>0, <1>1, CallMoves DEF Begin
    <2>2. \A d \in Calls \ {c} : ctx'[d] = ctx[d]
      BY <1>0, <1>1, Begins
    <2>3. \A d \in Calls \ {c} : PhaseOf(d)' = PhaseOf(d)
      BY <2>1, <2>2, PhaseStays
    <2>4. \A d \in Calls : CausesOf(d)' = CausesOf(d)
      BY <1>0, <1>1, Begins, CausesStay
    <2>5. PhaseOf(c) = "idle" /\ PhaseOf(c)' = "waiting"
      BY <1>0, <1>1, <1>i, <2>1, PhaseIs, Begins
    <2> QED
      BY <2>1, <2>3, <2>4, <2>5, PhasesAre, CausesAre, <1>ask
  <1>2. ASSUME NEW c \in Calls, Begin(c), ~up PROVE Promise!Next
    <2>1. call[c] = "idle" /\ call'[c] = "done" /\ (\A d \in Calls \ {c} : call'[d] = call[d])
          /\ result' = [result EXCEPT ![c] = "not_connect"] /\ ctx' = ctx
      BY <1>0, <1>2, CallMoves DEF Begin
    <2>2. \A d \in Calls \ {c} : PhaseOf(d)' = PhaseOf(d)
      BY <2>1, PhaseStays
    <2>3. \A d \in Calls : CausesOf(d)' = CausesOf(d)
      BY <2>1, CausesStay
    <2>4. PhaseOf(c) = "idle" /\ PhaseOf(c)' = "returned"
      BY <1>0, <1>i, <2>1, PhaseIs
    <2> QED
      BY <2>1, <2>2, <2>3, <2>4, PhasesAre, CausesAre, <1>refuse
  <1>3. ASSUME NEW c \in Calls, Register(c) \/ Enqueue(c) \/ NotifySem(c) PROVE UNCHANGED Promise!vars
    <2>1. PICK l \in {"push", "notify", "parked"} : CallGoto(c, l)
      BY <1>3 DEF Register, Enqueue, NotifySem
    <2>2. /\ call[c] \notin {"idle", "done"} /\ call'[c] \notin {"idle", "done"}
          /\ (\A d \in Calls \ {c} : call'[d] = call[d]) /\ result' = result
      BY <1>0, <1>3, <2>1, CallMoves DEF Register, Enqueue, NotifySem
    <2>3. \A d \in Calls : /\ ctx'[d].scheduler = ctx[d].scheduler /\ ctx'[d].woken = ctx[d].woken
                           /\ ctx'[d].timed = ctx[d].timed /\ ctx'[d].response = ctx[d].response /\ ctx'[d].ioError = ctx[d].ioError
      <3>1. CASE Enqueue(c)
        BY <1>0, <3>1, Enqueues
      <3>2. CASE ctx' = ctx
        BY <3>2
      <3> QED
        BY <1>3, <3>1, <3>2 DEF Register, NotifySem, ctxVars
    <2>4. \A d \in Calls : CausesOf(d)' = CausesOf(d)
      BY <2>3, CausesStay
    <2>5. \A d \in Calls \ {c} : PhaseOf(d)' = PhaseOf(d)
      BY <2>2, <2>3, PhaseStays
    <2>6. PhaseOf(c)' = PhaseOf(c)
      BY <1>0, <1>i, <2>2, <2>3, PhaseIs
    <2> QED
      BY <2>2, <2>4, <2>5, <2>6, PhasesAre, CausesAre, <1>none
  <1>4. ASSUME NEW c \in Calls, Return(c) PROVE Promise!Next
    <2>1. call[c] = "parked" /\ call'[c] = "done" /\ (\A d \in Calls \ {c} : call'[d] = call[d])
          /\ result' = [result EXCEPT ![c] = ctx[c].result] /\ ctx' = ctx /\ ctx[c].woken > 0
      BY <1>0, <1>4, CallMoves DEF Return, ctxVars
    <2>2. \A d \in Calls \ {c} : PhaseOf(d)' = PhaseOf(d)
      BY <2>1, PhaseStays
    <2>3. \A d \in Calls : CausesOf(d)' = CausesOf(d)
      BY <2>1, CausesStay
    <2>4. ctx[c].woken = IF ctx[c].scheduler THEN 0 ELSE 1
      BY <1>0, <2>1, PhaseIs
    <2>5. ctx[c].woken = 1 /\ ~ctx[c].scheduler
      BY <2>1, <2>4
    <2>6. PhaseOf(c) = "woken" /\ PhaseOf(c)' = "returned"
      BY <1>0, <1>i, <2>1, <2>5, PhaseIs
    <2>7. ctx[c].result \in CausesOf(c)
      BY <1>0, <2>5 DEF Ending, EndingOf
    <2> QED
      BY <2>1, <2>2, <2>3, <2>6, <2>7, PhasesAre, CausesAre, <1>return
  <1>5. ASSUME NEW e \in Enders, DoRsp(e) PROVE Promise!Next \/ UNCHANGED Promise!vars
    <2>0. at[e] = "rsp" /\ UNCHANGED <<call, result>>
      BY <1>5 DEF DoRsp, callVars
    <2>1. PICK c \in Calls : c = cur[e] /\ Entered(c) /\ CausesOf(c) # {}
      BY <1>0, <2>0 DEF Serving, Caused
    <2>2. CASE ctx' = ctx
      BY <2>0, <2>2, PhaseStays, CausesStay, PhasesAre, CausesAre, <1>none
    <2>3. CASE ctx[c].scheduler /\ EndCall(e)
      <3>1. /\ \A d \in Calls \ {c} : ctx'[d] = ctx[d]
            /\ ctx'[c].timed = ctx[c].timed /\ ctx'[c].response = ctx[c].response /\ ctx'[c].ioError = ctx[c].ioError
            /\ ctx'[c].scheduler = FALSE
        BY <1>0, <2>1, <2>3, Ends
      <3>2. \A d \in Calls : CausesOf(d)' = CausesOf(d)
        BY <3>1, CausesStay
      <3>3. \A d \in Calls \ {c} : PhaseOf(d)' = PhaseOf(d)
        BY <2>0, <3>1, PhaseStays
      <3>4. call[c] \notin {"idle", "done"}
        BY <1>0, <2>1, <2>3 DEF Ending, EndingOf, Entered
      <3>5. PhaseOf(c) = "waiting" /\ PhaseOf(c)' = "woken"
        BY <1>0, <1>i, <2>0, <2>3, <3>1, <3>4, PhaseIs
      <3> QED
        BY <2>0, <2>1, <3>2, <3>3, <3>5, PhasesAre, CausesAre, <1>wake
    <2> QED
      BY <1>5, <2>1, <2>2, <2>3 DEF DoRsp
  (* Something happens to a call: its phase stays. *)
  <1>h. ASSUME NEW c \in Calls, Entered(c), NEW e \in {"ok", "timeout", "io_error"}, UNCHANGED <<call, result>>,
               \A d \in Calls : ctx'[d].woken = ctx[d].woken,
               \A d \in Calls \ {c} : ctx'[d] = ctx[d],
               CausesOf(c)' = CausesOf(c) \cup {e}
        PROVE  Promise!Next
    <2>1. \A d \in Calls : PhaseOf(d)' = PhaseOf(d)
      BY <1>h, PhaseStays
    <2>2. \A d \in Calls \ {c} : CausesOf(d)' = CausesOf(d)
      BY <1>h, CausesStay
    <2>3. PhaseOf(c) # "idle"
      BY <1>0, <1>h, PhaseIs DEF Entered
    <2> QED
      BY <1>h, <2>1, <2>2, <2>3, PhasesAre, CausesAre, <1>happen
  <1>6. ASSUME NEW c \in Calls, TimeOut(c) PROVE Promise!Next
    <2>1. Entered(c) /\ UNCHANGED <<call, result>>
      BY <1>0, <1>6 DEF TimeOut, Serving, callVars
    <2>2. /\ \A d \in Calls \ {c} : ctx'[d] = ctx[d]
          /\ ctx'[c].timed = TRUE /\ ctx'[c].woken = ctx[c].woken
          /\ ctx'[c].response = ctx[c].response /\ ctx'[c].ioError = ctx[c].ioError
      BY <1>0, <1>6, TimesOut
    <2>3. CausesOf(c)' = CausesOf(c) \cup {"timeout"}
      BY <2>2 DEF CausesOf
    <2> QED
      BY <1>h, <2>1, <2>2, <2>3
  <1>7. ASSUME NEW s \in Sides, NEW c \in todo[s], EachOne(s, c) PROVE Promise!Next
    <2>1. c \in Calls /\ Entered(c) /\ UNCHANGED <<call, result>>
      BY <1>0, <1>7 DEF EachOne, Serving, TypeOK, EnderTypes, callVars
    <2>2. /\ \A d \in Calls \ {c} : ctx'[d] = ctx[d]
          /\ ctx'[c].ioError = TRUE /\ ctx'[c].woken = ctx[c].woken
          /\ ctx'[c].response = ctx[c].response /\ ctx'[c].timed = ctx[c].timed
      BY <1>0, <1>7, <2>1, Marks
    <2>3. CausesOf(c)' = CausesOf(c) \cup {"io_error"}
      BY <2>2 DEF CausesOf
    <2> QED
      BY <1>h, <2>1, <2>2, <2>3
  <1>8. ASSUME Fill PROVE Promise!Next
    <2>1. PICK c \in Calls : c = cur["reader"] /\ Entered(c) /\ got \in Calls /\ UNCHANGED <<call, result>>
      BY <1>0, <1>8 DEF Fill, Serving, callVars
    <2>2. /\ \A d \in Calls \ {c} : ctx'[d] = ctx[d]
          /\ ctx'[c].response # NoCall /\ ctx'[c].woken = ctx[c].woken
          /\ ctx'[c].ioError = ctx[c].ioError /\ ctx'[c].timed = ctx[c].timed
      BY <1>0, <1>8, <2>1, Fills
    <2>3. CausesOf(c)' = CausesOf(c) \cup {"ok"}
      BY <2>2 DEF CausesOf
    <2> QED
      BY <1>h, <2>1, <2>2, <2>3
  <1>9. ASSUME UNCHANGED <<world, ctx, call, result>> PROVE UNCHANGED Promise!vars
    BY <1>9, PhaseStays, CausesStay, PhasesAre, CausesAre, <1>none
  <1> QED
    BY <1>0, <1>1, <1>2, <1>3, <1>4, <1>5, <1>6, <1>7, <1>8, <1>9, Steps DEF Caller

(* A call comes back once, woken once, and reports what happened to it
   (rock_stream.cpp:65-95): the stream implements RequestPromise.          *)
THEOREM StreamKeepsPromise == Spec => KeepsPromise
  <1>1. Spec => Promise!Init
    BY PromiseInit, PTL DEF Spec
  <1> QED
    BY <1>1, PromiseInit, KeptInit, KeptNext, PromiseNext, PTL DEF Spec, KeepsPromise, Promise!Spec

-----------------------------------------------------------------------------
(* The numbers. As long as fewer calls are made than there are numbers, no
   number is given to two objects; afterwards m_sn has come round.         *)
FewCalls == IsFiniteSet(Calls) /\ Cardinality(Calls) <= MaxSn + 1

(* The object o has been called with the number k.                         *)
Numbered(k, o) == \E c \in Calls : Entered(c) /\ ctx[c].sn = k /\ Object(c) = o

(* The i-th number after the first.                                        *)
Nth(i) == IF world.sn + i <= MaxSn THEN world.sn + i ELSE world.sn + i - (MaxSn + 1)

Begun == {c \in Calls : call[c] # "idle"}

FreshNumbers ==
    \E k \in 0..Cardinality(Begun) :
        /\ m_sn = Nth(k)
        /\ \A c \in Calls : Entered(c) => \E i \in 0..(k - 1) : ctx[c].sn = Nth(i)

OneObject == \A c, d \in Calls : Entered(c) /\ Entered(d) /\ ctx[c].sn = ctx[d].sn => Object(c) = Object(d)

ObjectNumbers ==
    /\ \A c \in Calls : Entered(c) => ctx[c].sn = 0 \/ objSn[Object(c)] = ctx[c].sn
    /\ \A o \in Calls : objSn[o] # 0 => Numbered(objSn[o], o)

OnTheWay ==
    /\ \A r \in wire : Numbered(r.sn, Object(r.of))
    /\ \A m \in inbox : m.type = "response" => Numbered(m.sn, Object(m.of))

Registered == \A k \in Numbers : m_ctxs[k] # NoCall => ctx[m_ctxs[k]].sn = k

Answering == at["reader"] = "fill" => Object(got) = Object(cur["reader"])

(* Only a call that begins on a connected stream gets a number.            *)
Fixed ==
    /\ UNCHANGED <<world, m_sn, objSn>>
    /\ \A c \in Calls : ctx'[c].sn = ctx[c].sn /\ (Entered(c)' <=> Entered(c))

LEMMA SnStays ==
    ASSUME TypeOK, Calling, Serving, [Next]_vars, \A c \in Calls : ~(Begin(c) /\ up)
    PROVE  Fixed
  <1> USE SidesAndCalls
  <1>1. ASSUME NEW c \in Calls, Caller(c) PROVE Fixed
    <2>1. CASE Begin(c) /\ ~up
      <3>1. call[c] = "idle" /\ call'[c] = "done" /\ result'[c] = "not_connect" /\ ctx' = ctx
            /\ (\A d \in Calls \ {c} : call'[d] = call[d] /\ result'[d] = result[d])
        BY <2>1, CallMoves DEF Begin, TypeOK, CallTypes
      <3>2. UNCHANGED <<world, m_sn, objSn>>
        BY <2>1 DEF Begin, connVars
      <3> QED
        BY <3>1, <3>2 DEF Fixed, Entered
    <2>2. CASE Register(c) \/ Enqueue(c) \/ NotifySem(c)
      <3>1. PICK l \in {"push", "notify", "parked"} : CallGoto(c, l)
        BY <2>2 DEF Register, Enqueue, NotifySem
      <3>2. call[c] # "idle" /\ call'[c] # "idle" /\ (\A d \in Calls \ {c} : call'[d] = call[d])
        BY <2>2, <3>1, CallMoves DEF Register, Enqueue, NotifySem
      <3>3. UNCHANGED <<world, m_sn, objSn, result>>
        BY <2>2 DEF Register, Enqueue, NotifySem, connVars
      <3>4. \A d \in Calls : ctx'[d].sn = ctx[d].sn
        <4>1. CASE Enqueue(c)
          BY <4>1, Enqueues
        <4> QED
          BY <2>2, <4>1 DEF Register, NotifySem, ctxVars
      <3> QED
        BY <3>2, <3>3, <3>4 DEF Fixed, Entered
    <2>3. CASE Return(c)
      <3>1. call[c] = "parked" /\ call'[c] = "done" /\ result'[c] = ctx[c].result /\ ctx' = ctx
            /\ (\A d \in Calls \ {c} : call'[d] = call[d] /\ result'[d] = result[d])
        BY <2>3, CallMoves DEF Return, TypeOK, CallTypes, ctxVars
      <3>2. ctx[c].result # "not_connect" /\ result[c] = "nothing"
        BY <3>1 DEF TypeOK, CtxTypes, CtxType, Calling
      <3>3. UNCHANGED <<world, m_sn, objSn>>
        BY <2>3 DEF Return, connVars
      <3> QED
        BY <3>1, <3>2, <3>3 DEF Fixed, Entered
    <2> QED
      BY <1>1, <2>1, <2>2, <2>3 DEF Caller
  <1>2. ASSUME ~(\E c \in Calls : Caller(c)), \A c \in Calls : ctx'[c].sn = ctx[c].sn PROVE Fixed
    BY <1>2, OnlyCallers DEF Fixed, Entered
  <1>3. ASSUME NEW e \in Enders, DoRsp(e) PROVE \A c \in Calls : ctx'[c].sn = ctx[c].sn
    <2>1. cur[e] \in Calls
      BY <1>3 DEF DoRsp, Serving
    <2> QED
      BY <1>3, <2>1, Ends DEF DoRsp
  <1>4. ASSUME NEW d \in Calls, TimeOut(d) PROVE \A c \in Calls : ctx'[c].sn = ctx[c].sn
    BY <1>4, TimesOut
  <1>5. ASSUME NEW s \in Sides, NEW d \in todo[s], EachOne(s, d) PROVE \A c \in Calls : ctx'[c].sn = ctx[c].sn
    <2>1. d \in Calls
      BY DEF TypeOK, EnderTypes
    <2> QED
      BY <1>5, <2>1, Marks
  <1>6. ASSUME Fill PROVE \A c \in Calls : ctx'[c].sn = ctx[c].sn
    <2>1. cur["reader"] \in Calls
      BY <1>6 DEF Fill, Serving
    <2> QED
      BY <1>6, <2>1, Fills
  <1> QED
    BY <1>1, <1>2, <1>3, <1>4, <1>5, <1>6, Steps

(* A call that begins on a connected stream takes the next number for its
   object, unless the object has one already.                              *)
LEMMA Numbers1 ==
    ASSUME TypeOK, Calling, NEW c \in Calls, Begin(c), up
    PROVE  LET o == Object(c) IN
           /\ o \in Calls /\ world' = world /\ ~Entered(c)
           /\ \A d \in Calls : Entered(d)' <=> (Entered(d) \/ d = c)
           /\ \A d \in Calls \ {c} : ctx'[d].sn = ctx[d].sn
           /\ ctx'[c].sn = objSn'[o]
           /\ \/ /\ objSn[o] = 0 /\ objSn'[o] = m_sn /\ m_sn' = NextSn(m_sn)
                 /\ \A p \in Calls \ {o} : objSn'[p] = objSn[p]
              \/ objSn[o] # 0 /\ UNCHANGED <<objSn, m_sn>>
           /\ c \notin Begun /\ Begun' = Begun \cup {c}
           /\ UNCHANGED <<at, cur, got, m_ctxs, wire, inbox>>
  <1> DEFINE o == Object(c)
  <1>1. o \in Calls /\ world' = world
    BY ObjectIsCall DEF Begin, connVars
  <1>2. call[c] = "idle" /\ call'[c] = "add" /\ result' = result /\ \A d \in Calls \ {c} : call'[d] = call[d]
    BY CallMoves DEF Begin
  <1>3. result[c] = "nothing"
    BY <1>2 DEF Calling
  <1>4. \/ /\ objSn[o] = 0 /\ objSn'[o] = m_sn /\ m_sn' = NextSn(m_sn)
           /\ \A p \in Calls \ {o} : objSn'[p] = objSn[p]
        \/ objSn[o] # 0 /\ UNCHANGED <<objSn, m_sn>>
    BY <1>1 DEF Begin, TypeOK, CallTypes
  <1>5. (\A d \in Calls \ {c} : ctx'[d].sn = ctx[d].sn) /\ ctx'[c].sn = objSn'[o]
    BY Begins
  <1>6. c \notin Begun /\ Begun' = Begun \cup {c}
    BY <1>2 DEF Begun
  <1>7. UNCHANGED <<at, cur, got, m_ctxs, wire, inbox>>
    BY DEF Begin, connVars, enderVars
  <1> QED
    BY <1>1, <1>2, <1>3, <1>4, <1>5, <1>6, <1>7 DEF Entered

LEMMA NumberedStays ==
    ASSUME Fixed, NEW k, NEW o, Numbered(k, o)
    PROVE  Numbered(k, o)'
  BY DEF Numbered, Fixed, Object

LEMMA NumberedGrows ==
    ASSUME TypeOK, Calling, Serving, [Next]_vars, NEW k, NEW o, Numbered(k, o)
    PROVE  Numbered(k, o)'
  <1>1. CASE \A c \in Calls : ~(Begin(c) /\ up)
    BY <1>1, SnStays, NumberedStays
  <1>2. ASSUME NEW c \in Calls, Begin(c), up PROVE Numbered(k, o)'
    <2>1. PICK d \in Calls : Entered(d) /\ ctx[d].sn = k /\ Object(d) = o
      BY DEF Numbered
    <2>2. d # c /\ Entered(d)' /\ ctx'[d].sn = k /\ world' = world
      BY <1>2, <2>1, Numbers1
    <2> QED
      BY <2>1, <2>2 DEF Numbered, Object
  <1> QED
    BY <1>1, <1>2

LEMMA NthIs ==
    ASSUME TypeOK
    PROVE  /\ Nth(0) = world.sn
           /\ \A k \in 0..MaxSn : Nth(k) \in Numbers /\ NextSn(Nth(k)) = Nth(k + 1)
           /\ \A k \in 0..MaxSn : \A i \in 0..(k - 1) : Nth(i) # Nth(k)
  <1>1. MaxSn \in Nat /\ world.sn \in 0..MaxSn
    BY BoundsAssumption, WorldsAssumption DEF TypeOK, ConnTypes
  <1>2. \A k \in 0..MaxSn : Nth(k) \in 0..MaxSn
    BY <1>1 DEF Nth
  <1>3. ASSUME NEW k \in 0..MaxSn PROVE NextSn(Nth(k)) = Nth(k + 1)
    <2>1. NextSn(Nth(k)) = IF Nth(k) = MaxSn THEN 0 ELSE Nth(k) + 1
      BY <1>2, NextSnIs DEF Numbers
    <2> QED
      BY <1>1, <2>1 DEF Nth
  <1>4. \A k \in 0..MaxSn : \A i \in 0..(k - 1) : Nth(i) # Nth(k)
    BY <1>1 DEF Nth
  <1> QED
    BY <1>1, <1>2, <1>3, <1>4 DEF Numbers, Nth

(* There is always a number left.                                          *)
LEMMA BegunCounts ==
    ASSUME FewCalls
    PROVE  /\ IsFiniteSet(Begun) /\ Cardinality(Begun) \in Nat
           /\ \A c \in Calls \ Begun : /\ Cardinality(Begun) <= MaxSn
                                       /\ Cardinality(Begun \cup {c}) = Cardinality(Begun) + 1
  <1>1. IsFiniteSet(Calls) /\ Begun \subseteq Calls
    BY DEF FewCalls, Begun
  <1>2. IsFiniteSet(Begun) /\ Cardinality(Begun) \in Nat
    BY <1>1, FS_Subset, FS_CardinalityType
  <1>3. ASSUME NEW c \in Calls \ Begun
        PROVE  Cardinality(Begun) <= MaxSn /\ Cardinality(Begun \cup {c}) = Cardinality(Begun) + 1
    <2>1. Cardinality(Begun \cup {c}) = Cardinality(Begun) + 1
      BY <1>2, FS_AddElement
    <2>2. Cardinality(Begun \cup {c}) <= Cardinality(Calls)
      BY <1>1, FS_Subset
    <2>3. Cardinality(Calls) \in Nat /\ Cardinality(Calls) <= MaxSn + 1 /\ MaxSn \in Nat
      BY <1>1, FS_CardinalityType, BoundsAssumption DEF FewCalls
    <2> QED
      BY <1>2, <2>1, <2>2, <2>3
  <1> QED
    BY <1>2, <1>3

LEMMA BegunGrows ==
    ASSUME TypeOK, FewCalls, [Next]_vars
    PROVE  Begun \subseteq Begun' /\ Cardinality(Begun) <= Cardinality(Begun') /\ Cardinality(Begun') \in Nat
  <1>1. \A c \in Calls : call[c] # "idle" => call'[c] # "idle"
    <2>1. ASSUME NEW d \in Calls, Caller(d) PROVE \A c \in Calls : call[c] # "idle" => call'[c] # "idle"
      <3>1. PICK l \in {"add", "push", "notify", "parked", "done"} : CallGoto(d, l)
        BY <2>1 DEF Caller, Begin, Register, Enqueue, NotifySem, Return
      <3> QED
        BY <3>1, CallMoves
    <2> QED
      BY <2>1, OnlyCallers
  <1>2. Begun \subseteq Begun' /\ Begun' \subseteq Calls /\ IsFiniteSet(Calls)
    BY <1>1 DEF Begun, FewCalls
  <1>3. IsFiniteSet(Begun')
    BY <1>2, FS_Subset
  <1> QED
    BY <1>2, <1>3, FS_Subset, FS_CardinalityType

(* The numbers of the calls made, with what they say of a call that begins. *)
Numbering == FreshNumbers /\ OneObject /\ ObjectNumbers

LEMMA FreshNext ==
    ASSUME TypeOK, Calling, Serving, Numbering, FewCalls, [Next]_vars PROVE FreshNumbers'
  <1>1. PICK k \in 0..Cardinality(Begun) :
          /\ m_sn = Nth(k)
          /\ \A d \in Calls : Entered(d) => \E i \in 0..(k - 1) : ctx[d].sn = Nth(i)
    BY DEF Numbering, FreshNumbers
  <1>2. Cardinality(Begun) \in Nat /\ Cardinality(Begun)' \in Nat /\ Cardinality(Begun) <= Cardinality(Begun)'
    BY BegunCounts, BegunGrows
  <1>3. CASE Fixed
    <2>1. k \in 0..Cardinality(Begun)'
      BY <1>2
    <2>2. \A i : Nth(i)' = Nth(i)
      BY <1>3 DEF Fixed, Nth
    <2>3. m_sn' = Nth(k)' /\ \A d \in Calls : Entered(d)' => \E i \in 0..(k - 1) : ctx'[d].sn = Nth(i)'
      BY <1>1, <1>3, <2>2 DEF Fixed
    <2> QED
      BY <2>1, <2>3 DEF FreshNumbers
  <1>4. ASSUME NEW c \in Calls, Begin(c), up PROVE FreshNumbers'
    <2> DEFINE o == Object(c)
    <2>0. /\ o \in Calls /\ world' = world /\ ~Entered(c)
          /\ \A d \in Calls : Entered(d)' <=> (Entered(d) \/ d = c)
          /\ \A d \in Calls \ {c} : ctx'[d].sn = ctx[d].sn
          /\ ctx'[c].sn = objSn'[o]
          /\ c \notin Begun /\ Begun' = Begun \cup {c}
      BY <1>4, Numbers1
    <2>1. \A i : Nth(i)' = Nth(i)
      BY <2>0 DEF Nth
    <2>2. Cardinality(Begun)' = Cardinality(Begun) + 1 /\ k \in 0..MaxSn
      BY <1>1, <1>2, <2>0, BegunCounts, BoundsAssumption
    <2>3. CASE objSn[o] = 0 /\ objSn'[o] = m_sn /\ m_sn' = NextSn(m_sn)
      <3>1. m_sn' = Nth(k + 1)
        BY <1>1, <2>2, <2>3, NthIs
      <3>2. k + 1 \in 0..Cardinality(Begun)' /\ (k + 1) - 1 = k
        BY <1>1, <1>2, <2>2
      <3>3. \A d \in Calls : Entered(d)' => \E i \in 0..k : ctx'[d].sn = Nth(i)
        <4>1. ASSUME NEW d \in Calls, Entered(d)', d # c PROVE \E i \in 0..k : ctx'[d].sn = Nth(i)
          <5>1. PICK i \in 0..(k - 1) : ctx[d].sn = Nth(i)
            BY <1>1, <2>0, <4>1
          <5> QED
            BY <2>0, <4>1, <5>1
        <4>2. ctx'[c].sn = Nth(k) /\ k \in 0..k
          BY <1>1, <1>2, <2>0, <2>3
        <4> QED
          BY <4>1, <4>2
      <3> QED
        BY <2>1, <3>1, <3>2, <3>3 DEF FreshNumbers
    <2>4. CASE objSn[o] # 0 /\ UNCHANGED <<objSn, m_sn>>
      <3>1. PICK e \in Calls : Entered(e) /\ ctx[e].sn = objSn[o]
        BY <2>0, <2>4 DEF Numbering, ObjectNumbers, Numbered
      <3>2. k \in 0..Cardinality(Begun)'
        BY <1>1, <1>2
      <3>3. \A d \in Calls : Entered(d)' => \E i \in 0..(k - 1) : ctx'[d].sn = Nth(i)
        BY <1>1, <2>0, <2>4, <3>1
      <3> QED
        BY <1>1, <2>1, <2>4, <3>2, <3>3 DEF FreshNumbers
    <2> QED
      BY <1>4, <2>3, <2>4, Numbers1
  <1> QED
    BY <1>3, <1>4, SnStays

LEMMA OneObjectNext ==
    ASSUME TypeOK, Calling, Serving, Numbering, FewCalls, [Next]_vars PROVE OneObject'
  <1>1. CASE Fixed
    BY <1>1 DEF Numbering, OneObject, Fixed, Object
  <1>2. ASSUME NEW c \in Calls, Begin(c), up PROVE OneObject'
    <2> DEFINE o == Object(c)
    <2>0. /\ o \in Calls /\ world' = world /\ ~Entered(c)
          /\ \A d \in Calls : Entered(d)' <=> (Entered(d) \/ d = c)
          /\ \A d \in Calls \ {c} : ctx'[d].sn = ctx[d].sn
          /\ ctx'[c].sn = objSn'[o]
          /\ c \notin Begun
      BY <1>2, Numbers1
    <2>1. ASSUME NEW d \in Calls, Entered(d), d # c, ctx[d].sn = ctx'[c].sn PROVE Object(d) = o
      <3>1. CASE objSn[o] = 0 /\ objSn'[o] = m_sn
        <4>1. PICK k \in 0..Cardinality(Begun) :
                 /\ m_sn = Nth(k)
                 /\ \A x \in Calls : Entered(x) => \E i \in 0..(k - 1) : ctx[x].sn = Nth(i)
          BY DEF Numbering, FreshNumbers
        <4>2. k \in 0..MaxSn
          <5>1. Cardinality(Begun) \in Nat /\ Cardinality(Begun) <= MaxSn /\ MaxSn \in Nat
            BY <2>0, BegunCounts, BoundsAssumption
          <5> QED
            BY <4>1, <5>1
        <4>3. PICK i \in 0..(k - 1) : ctx[d].sn = Nth(i)
          BY <2>1, <4>1
        <4>4. Nth(i) # Nth(k)
          BY <4>2, NthIs
        <4> QED
          BY <2>0, <2>1, <3>1, <4>1, <4>3, <4>4
      <3>2. CASE objSn[o] # 0 /\ objSn' = objSn
        <4>1. PICK e \in Calls : Entered(e) /\ ctx[e].sn = objSn[o] /\ Object(e) = o
          BY <2>0, <3>2 DEF Numbering, ObjectNumbers, Numbered
        <4> QED
          BY <2>0, <2>1, <3>2, <4>1 DEF Numbering, OneObject
      <3> QED
        BY <1>2, <3>1, <3>2, Numbers1
    <2>2. \A d \in Calls : Object(d)' = Object(d)
      BY <2>0 DEF Object
    <2>3. \A x, y \in Calls : Entered(x) /\ Entered(y) /\ ctx[x].sn = ctx[y].sn => Object(x) = Object(y)
      BY DEF Numbering, OneObject
    <2>4. ASSUME NEW x \in Calls, NEW y \in Calls, Entered(x)', Entered(y)', ctx'[x].sn = ctx'[y].sn
          PROVE  Object(x) = Object(y)
      <3>1. CASE x # c /\ y # c
        BY <2>0, <2>3, <2>4, <3>1
      <3>2. CASE x = c /\ y # c
        BY <2>0, <2>1, <2>4, <3>2
      <3>3. CASE x # c /\ y = c
        BY <2>0, <2>1, <2>4, <3>3
      <3> QED
        BY <3>1, <3>2, <3>3
    <2> QED
      BY <2>2, <2>4 DEF OneObject
  <1> QED
    BY <1>1, <1>2, SnStays

LEMMA ObjectNumbersNext ==
    ASSUME TypeOK, Calling, Serving, Numbering, [Next]_vars PROVE ObjectNumbers'
  <1>g. \A o \in Calls : objSn[o] # 0 => Numbered(objSn[o], o)
    BY DEF Numbering, ObjectNumbers
  <1>n. \A k, o : Numbered(k, o) => Numbered(k, o)'
    BY NumberedGrows
  <1>m. \A k, o : Numbered(k, o)' <=> \E d \in Calls : Entered(d)' /\ ctx'[d].sn = k /\ Object(d)' = o
    BY DEF Numbered
  <1>1. CASE Fixed
    <2>1. \A c \in Calls : Entered(c)' => ctx'[c].sn = 0 \/ objSn'[Object(c)'] = ctx'[c].sn
      BY <1>1 DEF Numbering, ObjectNumbers, Fixed, Object
    <2>2. \A o \in Calls : objSn'[o] # 0 => \E d \in Calls : Entered(d)' /\ ctx'[d].sn = objSn'[o] /\ Object(d)' = o
      BY <1>1, <1>g, <1>n, <1>m DEF Fixed
    <2> QED
      BY <2>1, <2>2 DEF ObjectNumbers, Numbered
  <1>2. ASSUME NEW c \in Calls, Begin(c), up PROVE ObjectNumbers'
    <2>0. PICK o \in Calls :
          /\ o = Object(c) /\ world' = world /\ ~Entered(c)
          /\ \A d \in Calls : Entered(d)' <=> (Entered(d) \/ d = c)
          /\ \A d \in Calls \ {c} : ctx'[d].sn = ctx[d].sn
          /\ ctx'[c].sn = objSn'[o]
          /\ \/ objSn[o] = 0 /\ \A p \in Calls \ {o} : objSn'[p] = objSn[p]
             \/ objSn[o] # 0 /\ objSn' = objSn
      BY <1>2, Numbers1
    <2>1. \A d \in Calls : Object(d)' = Object(d)
      BY <2>0 DEF Object
    <2>2. \A d \in Calls : Entered(d) => Object(d) \in Calls
      BY ObjectIsCall DEF Calling
    <2>3. \A d \in Calls : Entered(d)' => ctx'[d].sn = 0 \/ objSn'[Object(d)] = ctx'[d].sn
      <3>1. ASSUME NEW d \in Calls, Entered(d), d # c PROVE ctx'[d].sn = 0 \/ objSn'[Object(d)] = ctx'[d].sn
        <4>1. ctx[d].sn = 0 \/ objSn[Object(d)] = ctx[d].sn
          BY <3>1 DEF Numbering, ObjectNumbers
        <4> QED
          BY <2>0, <2>2, <3>1, <4>1
      <3> QED
        BY <2>0, <3>1
    <2>4. \A p \in Calls : objSn'[p] # 0 => \E d \in Calls : Entered(d)' /\ ctx'[d].sn = objSn'[p] /\ Object(d)' = p
      <3>1. CASE objSn' = objSn
        BY <3>1, <1>g, <1>n, <1>m
      <3>2. ASSUME \A p \in Calls \ {o} : objSn'[p] = objSn[p], NEW p \in Calls \ {o}, objSn'[p] # 0
            PROVE \E d \in Calls : Entered(d)' /\ ctx'[d].sn = objSn'[p] /\ Object(d)' = p
        BY <3>2, <1>g, <1>n, <1>m
      <3>3. Entered(c)' /\ ctx'[c].sn = objSn'[o] /\ Object(c)' = o
        BY <2>0, <2>1
      <3> QED
        BY <2>0, <3>1, <3>2, <3>3
    <2> QED
      BY <2>1, <2>3, <2>4 DEF ObjectNumbers, Numbered
  <1> QED
    BY <1>1, <1>2, SnStays

(* What is on its way to the peer or back carries a number of its object.  *)
LEMMA OnTheWayNext ==
    ASSUME TypeOK, Lanes, Calling, Serving, Queued, Numbering, OnTheWay, [Next]_vars PROVE OnTheWay'
  <1> USE SidesAndCalls
  <1>n. \A k, o : Numbered(k, o) => Numbered(k, o)'
    BY NumberedGrows
  <1>w. world' = world
    <2>1. \A c \in Calls : Caller(c) => world' = world
      BY DEF Caller, Begin, Register, Enqueue, NotifySem, Return, connVars
    <2> QED
      BY <2>1, OnlyCallers
  <1>o. \A c : Object(c)' = Object(c)
    BY <1>w DEF Object
  <1>q. ASSUME \A r \in wire' : Numbered(r.sn, Object(r.of)),
               \A m \in inbox' : m.type = "response" => Numbered(m.sn, Object(m.of))
        PROVE  OnTheWay'
    <2>1. \A k, o : Numbered(k, o)' <=> \E d \in Calls : Entered(d)' /\ ctx'[d].sn = k /\ Object(d)' = o
      BY DEF Numbered
    <2>2. \A r \in wire' : \E d \in Calls : Entered(d)' /\ ctx'[d].sn = r.sn /\ Object(d)' = Object(r.of)'
      BY <1>q, <1>n, <1>o, <2>1
    <2>3. \A m \in inbox' : m.type = "response" => \E d \in Calls : Entered(d)' /\ ctx'[d].sn = m.sn /\ Object(d)' = Object(m.of)'
      BY <1>q, <1>n, <1>o, <2>1
    <2> QED
      BY <2>2, <2>3 DEF OnTheWay, Numbered
  <1>s. /\ \A r \in wire : Numbered(r.sn, Object(r.of))
        /\ \A m \in inbox : m.type = "response" => Numbered(m.sn, Object(m.of))
    BY DEF OnTheWay
  <1>1. CASE WriteSend
    <2> DEFINE i == Head(outgoing)
    <2>1. inbox' = inbox /\ (wire' = wire \/ (i \in Calls /\ wire' = wire \cup {[sn |-> objSn[Object(i)], of |-> i]}))
      BY <1>1 DEF WriteSend
    <2>2. CASE wire' = wire
      BY <2>1, <2>2, <1>s, <1>q
    <2>3. CASE i \in Calls /\ wire' = wire \cup {[sn |-> objSn[Object(i)], of |-> i]}
      <3>1. Entered(i)
        <4>1. outgoing # <<>> /\ outgoing \in Seq(Calls \cup Requests)
          BY <1>1 DEF WriteSend, Lanes, TypeOK, SendTypes
        <4>2. 1 \in 1..Len(outgoing) /\ i = outgoing[1]
          BY <4>1
        <4> QED
          BY <2>3, <4>2 DEF Queued
      <3>2. Object(i) \in Calls
        BY <2>3, <3>1, ObjectIsCall DEF Calling
      <3>3. Numbered(objSn[Object(i)], Object(i))
        <4>1. CASE objSn[Object(i)] # 0
          BY <3>2, <4>1 DEF Numbering, ObjectNumbers
        <4>2. CASE objSn[Object(i)] = 0
          <5>1. ctx[i].sn = 0
            BY <2>3, <3>1, <4>2 DEF Numbering, ObjectNumbers
          <5> QED
            BY <2>3, <3>1, <4>2, <5>1 DEF Numbered
        <4> QED
          BY <4>1, <4>2
      <3> HIDE DEF i
      <3>4. \A r \in wire' : r \in wire \/ (r.sn = objSn[Object(i)] /\ r.of = i)
        BY <2>3
      <3>5. \A r \in wire' : Numbered(r.sn, Object(r.of))
        BY <1>s, <3>3, <3>4
      <3> QED
        BY <2>1, <3>5, <1>s, <1>q
    <2> QED
      BY <2>1, <2>2, <2>3
  <1>2. CASE PeerAnswers
    <2>1. PICK r \in wire : wire' = wire \ {r} /\ inbox' = inbox \cup {Response(r)}
      BY <1>2 DEF PeerAnswers
    <2>2. Response(r).sn = r.sn /\ Response(r).of = r.of
      BY DEF Response
    <2> QED
      BY <2>1, <2>2, <1>s, <1>q
  <1>3. ASSUME NEW m \in Inbound, PeerSends(m) PROVE OnTheWay'
    <2>1. wire' = wire /\ \A d \in inbox' : d \in inbox \/ d.type = "inbound"
      BY <1>3 DEF PeerSends
    <2> QED
      BY <2>1, <1>s, <1>q
  <1>4. CASE wire' \subseteq wire /\ inbox' \subseteq inbox
    BY <1>4, <1>s, <1>q
  <1>5. ASSUME \/ UNCHANGED vars \/ (\E c \in Calls : Caller(c) \/ OnTimeOut(c)) \/ DoRead
               \/ WriteTop \/ WriteWait \/ WriteLeave \/ Closing("writer") \/ Start
               \/ (\E m \in Inbound : Handle(m)) \/ (\E x \in Closers : Close(x)) \/ PeerLeaves
        PROVE wire' \subseteq wire /\ inbox' \subseteq inbox
    <2> USE DEF connVars
    <2>1. \A e \in Enders : DoRsp(e) => wire' \subseteq wire /\ inbox' \subseteq inbox
      BY DEF DoRsp
    <2>2. \A s \in Sides : Closing(s) => wire' \subseteq wire /\ inbox' \subseteq inbox
      BY <2>1 DEF Closing, Cut, Post, Swap, Drop, Each
    <2>3. \A c \in Calls : Caller(c) \/ OnTimeOut(c) => wire' \subseteq wire /\ inbox' \subseteq inbox
      BY <2>1 DEF Caller, Begin, Register, Enqueue, NotifySem, Return, OnTimeOut, Fire, TimeOut
    <2>4. DoRead => wire' \subseteq wire /\ inbox' \subseteq inbox
      BY <2>2 DEF DoRead, ReadTop, RecvResponse, Fill, RecvInbound, RecvFails, ReadLeave
    <2>5. WriteTop \/ WriteWait \/ WriteLeave \/ Closing("writer") \/ Start => wire' \subseteq wire /\ inbox' \subseteq inbox
      BY <2>2 DEF WriteTop, WriteWait, WriteLeave, Start, StartBegin, StartWait, StartCheck, StartCall, StartLaunch, StartFails
    <2>6. (\E m \in Inbound : Handle(m)) \/ (\E x \in Closers : Close(x)) \/ PeerLeaves => wire' \subseteq wire /\ inbox' \subseteq inbox
      BY DEF Handle, HandleRequest, Reply, NotifyReply, HandleNotify, Close, CloseBegin, CloseSocket, PeerLeaves
    <2> QED
      BY <1>5, <2>2, <2>3, <2>4, <2>5, <2>6 DEF vars
  <1> QED
    BY <1>1, <1>2, <1>3, <1>4, <1>5 DEF Next, DoWrite, Peer

LEMMA RegisteredNext ==
    ASSUME TypeOK, Calling, Serving, Registered, [Next]_vars PROVE Registered'
  <1> USE SidesAndCalls
  <1>t. m_ctxs \in [Numbers -> Calls \cup {NoCall}]
    BY DEF TypeOK, CtxTypes
  <1>s. \A k \in Numbers : m_ctxs[k] # NoCall => m_ctxs[k] \in Calls /\ Entered(m_ctxs[k]) /\ ctx[m_ctxs[k]].sn = k
    BY <1>t DEF Registered, Serving
  <1>f. \A d \in Calls : Entered(d) => ctx'[d].sn = ctx[d].sn
    <2>1. CASE Fixed
      BY <2>1 DEF Fixed
    <2>2. ASSUME NEW c \in Calls, Begin(c), up PROVE \A d \in Calls : Entered(d) => ctx'[d].sn = ctx[d].sn
      BY <2>2, Numbers1
    <2> QED
      BY <2>1, <2>2, SnStays
  <1>q. ASSUME \A k \in Numbers : m_ctxs'[k] # NoCall => m_ctxs'[k] = m_ctxs[k] PROVE Registered'
    BY <1>q, <1>s, <1>f DEF Registered
  <1>1. ASSUME NEW c \in Calls, Register(c) PROVE Registered'
    <2>1. Entered(c) /\ ctx' = ctx /\ ctx[c].sn \in Numbers
      BY <1>1 DEF Register, Entered, Calling, TypeOK, CtxTypes, CtxType
    <2>2. \A k \in Numbers : m_ctxs'[k] = m_ctxs[k] \/ (k = ctx[c].sn /\ m_ctxs'[k] = c)
      BY <1>1, <1>t, <2>1 DEF Register, AddCtx
    <2> QED
      BY <1>s, <2>1, <2>2 DEF Registered
  <1>e. ASSUME NEW k, EraseCtx(k) PROVE Registered'
    BY <1>e, <1>t, <1>q DEF EraseCtx
  <1>2. ASSUME NEW s \in Sides, Closing(s) PROVE Registered'
    <2>1. CASE Swap(s)
      BY <2>1, <1>q DEF Swap
    <2>2. CASE m_ctxs' = m_ctxs
      BY <2>2, <1>q
    <2> QED
      BY <1>2, <2>1, <2>2 DEF Closing, Cut, Post, Drop, Each, DoRsp, ctxVars
  <1>3. ASSUME NEW c \in Calls, OnTimeOut(c) PROVE Registered'
    BY <1>3, <1>e, <1>q DEF OnTimeOut, Fire, TimeOut, DoRsp
  <1>4. CASE RecvResponse
    BY <1>4, <1>e DEF RecvResponse
  <1>5. ASSUME \/ UNCHANGED vars \/ (\E c \in Calls : Begin(c) \/ Enqueue(c) \/ NotifySem(c) \/ Return(c))
               \/ ReadTop \/ Fill \/ RecvInbound \/ RecvFails \/ ReadLeave
               \/ WriteTop \/ WriteWait \/ WriteSend \/ WriteLeave
               \/ (\E k \in timers : StartBegin(k)) \/ StartWait \/ StartCheck \/ StartCall \/ StartLaunch \/ StartFails
               \/ (\E m \in Inbound : Handle(m)) \/ (\E x \in Closers : Close(x)) \/ Peer
        PROVE m_ctxs' = m_ctxs
    BY <1>5 DEF vars, Begin, Enqueue, NotifySem, Return, ReadTop, Fill, RecvInbound, RecvFails, ReadLeave, WriteTop,
       WriteWait, WriteSend, WriteLeave, StartBegin, StartWait, StartCheck, StartCall, StartLaunch, StartFails,
       Handle, HandleRequest, Reply, NotifyReply, HandleNotify, Close, CloseBegin, CloseSocket, Peer, PeerAnswers,
       PeerLeaves, PeerSends, ctxVars
  <1>6. CASE m_ctxs' = m_ctxs
    BY <1>6, <1>q
  <1> QED
    BY <1>1, <1>2, <1>3, <1>4, <1>5, <1>6 DEF Next, Caller, DoRead, DoWrite, Start

(* The call that the reader took from m_ctxs is one for the object that the
   response answers: there is no other under its number.                   *)
LEMMA AnsweringNext ==
    ASSUME TypeOK, Calling, Serving, Numbering, OnTheWay, Registered, Answering, [Next]_vars PROVE Answering'
  <1> USE SidesAndCalls
  <1>w. world' = world
    <2>1. \A c \in Calls : Caller(c) => world' = world
      BY DEF Caller, Begin, Register, Enqueue, NotifySem, Return, connVars
    <2> QED
      BY <2>1, OnlyCallers
  <1>o. \A c : Object(c)' = Object(c)
    BY <1>w DEF Object
  <1>q. ASSUME at'["reader"] # "fill" \/ UNCHANGED <<at, cur, got>> PROVE Answering'
    <2>1. CASE at'["reader"] # "fill"
      BY <2>1 DEF Answering
    <2>2. CASE UNCHANGED <<at, cur, got>>
      BY <2>2, <1>w DEF Answering, Object
    <2> QED
      BY <1>q, <2>1, <2>2
  (* Another ender moves. *)
  <1>x. ASSUME NEW e \in Enders \ {"reader"}, NEW l, Goto(e, l), got' = got, cur'["reader"] = cur["reader"]
        PROVE  Answering'
    <2>1. at'["reader"] = at["reader"]
      BY <1>x, Moves
    <2> QED
      BY <1>x, <1>w, <2>1 DEF Answering, Object
  <1>1. CASE RecvResponse
    <2>1. PICK m \in inbox :
              /\ m.type = "response"
              /\ \/ /\ m_ctxs[m.sn] # NoCall
                    /\ cur' = [cur EXCEPT !["reader"] = m_ctxs[m.sn]]
                    /\ got' = m.of
                    /\ Goto("reader", "fill")
                 \/ Goto("reader", "top")
      BY <1>1 DEF RecvResponse
    <2>2. m \in InboxType
      BY DEF TypeOK, ConnTypes
    <2>3. m.sn \in Numbers /\ m.of \in Calls
      BY <2>1, <2>2 DEF InboxType
    <2>4. CASE m_ctxs[m.sn] # NoCall /\ cur' = [cur EXCEPT !["reader"] = m_ctxs[m.sn]] /\ got' = m.of
      <3>1. PICK d \in Calls : d = m_ctxs[m.sn] /\ Entered(d) /\ ctx[d].sn = m.sn
        BY <2>3, <2>4 DEF Registered, Serving, TypeOK, CtxTypes
      <3>2. PICK x \in Calls : Entered(x) /\ ctx[x].sn = m.sn /\ Object(x) = Object(m.of)
        BY <2>1 DEF OnTheWay, Numbered
      <3>3. Object(d) = Object(m.of)
        BY <3>1, <3>2 DEF Numbering, OneObject
      <3>4. cur'["reader"] = d /\ got' = m.of
        BY <2>4, <3>1 DEF TypeOK, EnderTypes
      <3> QED
        BY <1>w, <3>3, <3>4 DEF Answering, Object
    <2>5. CASE Goto("reader", "top")
      BY <2>5, Moves, <1>q
    <2> QED
      BY <2>1, <2>4, <2>5
  <1>2. ASSUME Fill \/ ReadTop \/ RecvInbound \/ RecvFails \/ ReadLeave \/ Closing("reader") PROVE Answering'
    <2>1. \A l : Goto("reader", l) => at'["reader"] = l
      BY Moves
    <2>2. \E l : l # "fill" /\ Goto("reader", l)
      <3>1. back["reader"] # "fill"
        BY DEF TypeOK, EnderTypes
      <3> QED
        BY <1>2, <3>1 DEF Fill, ReadTop, RecvInbound, RecvFails, ReadLeave, InnerClose, Closing, Cut, Post, Swap, Drop, Each,
           DoRsp, AfterRsp
    <2> QED
      BY <2>1, <2>2, <1>q
  <1>3. ASSUME NEW s \in {"writer", "starter"}, Closing(s) PROVE Answering'
    <2>1. \E l : Goto(s, l)
      BY <1>3 DEF Closing, Cut, Post, Swap, Drop, Each, DoRsp
    <2>2. got' = got /\ cur'["reader"] = cur["reader"]
      BY <1>3 DEF Closing, Cut, Post, Swap, Drop, Each, DoRsp, TypeOK, EnderTypes
    <2> QED
      BY <2>1, <2>2, <1>x
  <1>4. ASSUME NEW c \in Calls, OnTimeOut(c) PROVE Answering'
    <2>1. \E l : Goto(c, l)
      BY <1>4 DEF OnTimeOut, Fire, TimeOut, DoRsp
    <2>2. got' = got /\ cur'["reader"] = cur["reader"]
      BY <1>4 DEF OnTimeOut, Fire, TimeOut, DoRsp, TypeOK, EnderTypes
    <2> QED
      BY <2>1, <2>2, <1>x
  <1>5. ASSUME WriteTop \/ WriteWait \/ WriteSend \/ WriteLeave PROVE Answering'
    <2>1. \E l : Goto("writer", l)
      BY <1>5 DEF WriteTop, WriteWait, WriteSend, WriteLeave, InnerClose
    <2>2. got' = got /\ cur' = cur
      BY <1>5 DEF WriteTop, WriteWait, WriteSend, WriteLeave
    <2> QED
      BY <2>1, <2>2, <1>x
  <1>6. ASSUME (\E k \in timers : StartBegin(k)) \/ StartWait \/ StartCheck \/ StartCall \/ StartFails PROVE Answering'
    <2>1. \E l : Goto("starter", l)
      BY <1>6 DEF StartBegin, StartWait, StartCheck, StartCall, StartFails, InnerClose
    <2>2. got' = got /\ cur' = cur
      BY <1>6 DEF StartBegin, StartWait, StartCheck, StartCall, StartFails
    <2> QED
      BY <2>1, <2>2, <1>x
  <1>7. CASE StartLaunch
    <2>1. at'["reader"] = "top"
      BY <1>7 DEF StartLaunch, TypeOK, EnderTypes
    <2> QED
      BY <2>1, <1>q
  <1>8. ASSUME UNCHANGED vars \/ (\E c \in Calls : Caller(c))
               \/ (\E m \in Inbound : Handle(m)) \/ (\E x \in Closers : Close(x)) \/ Peer
        PROVE  UNCHANGED <<at, cur, got>>
    BY <1>8 DEF vars, Caller, Begin, Register, Enqueue, NotifySem, Return, Handle, HandleRequest, Reply, NotifyReply,
       HandleNotify, Close, CloseBegin, CloseSocket, Peer, PeerAnswers, PeerLeaves, PeerSends, enderVars
  <1>9. CASE UNCHANGED <<at, cur, got>>
    BY <1>9, <1>q
  <1> QED
    BY <1>1, <1>2, <1>3, <1>4, <1>5, <1>6, <1>7, <1>8, <1>9 DEF Next, DoRead, DoWrite, Start

LEMMA OwnNext ==
    ASSUME TypeOK, Calling, Serving, Answering, OwnResponse, [Next]_vars PROVE OwnResponse'
  <1> USE SidesAndCalls
  <1>w. world' = world
    <2>1. \A c \in Calls : Caller(c) => world' = world
      BY DEF Caller, Begin, Register, Enqueue, NotifySem, Return, connVars
    <2> QED
      BY <2>1, OnlyCallers
  <1>q. ASSUME \A c \in Calls : ctx'[c].response = ctx[c].response PROVE OwnResponse'
    BY <1>q, <1>w DEF OwnResponse, Object
  <1>1. ASSUME NEW d \in Calls, Caller(d) PROVE OwnResponse'
    <2>1. CASE Begin(d) /\ up
      BY <2>1, Begins, <1>q
    <2>2. CASE Enqueue(d)
      BY <2>2, Enqueues, <1>q
    <2>3. CASE ctx' = ctx
      BY <2>3, <1>q
    <2> QED
      BY <1>1, <2>1, <2>2, <2>3 DEF Caller, Begin, Register, NotifySem, Return, ctxVars
  <1>2. ASSUME NEW e \in Enders, DoRsp(e) PROVE OwnResponse'
    <2>1. cur[e] \in Calls
      BY <1>2 DEF DoRsp, Serving
    <2> QED
      BY <1>2, <2>1, Ends, <1>q DEF DoRsp
  <1>3. ASSUME NEW d \in Calls, TimeOut(d) PROVE OwnResponse'
    BY <1>3, TimesOut, <1>q
  <1>4. ASSUME NEW s \in Sides, NEW d \in todo[s], EachOne(s, d) PROVE OwnResponse'
    <2>1. d \in Calls
      BY DEF TypeOK, EnderTypes
    <2> QED
      BY <1>4, <2>1, Marks, <1>q
  <1>5. CASE Fill
    <2>1. PICK c \in Calls : c = cur["reader"] /\ Object(got) = Object(c)
      BY <1>5 DEF Fill, Serving, Answering
    <2>2. ctx'[c].response = got /\ \A d \in Calls \ {c} : ctx'[d] = ctx[d]
      BY <1>5, <2>1, Fills
    <2> QED
      BY <1>w, <2>1, <2>2 DEF OwnResponse, Object
  <1>6. CASE ctx' = ctx
    BY <1>6, <1>q
  <1> QED
    BY <1>1, <1>2, <1>3, <1>4, <1>5, <1>6, Steps

(* What a response is for. *)
Owned == Numbering /\ OnTheWay /\ Registered /\ Answering /\ OwnResponse

LEMMA OwnedInit == FewCalls /\ Init => Owned
  <1> SUFFICES ASSUME FewCalls, Init PROVE Owned
    OBVIOUS
  <1>1. Numbering
    <2>1. 0 \in 0..Cardinality(Begun)
      BY BegunCounts
    <2>2. m_sn = Nth(0)
      BY SoundInit, NthIs DEF Init, Sound
    <2> QED
      BY <2>1, <2>2 DEF Init, Numbering, FreshNumbers, OneObject, ObjectNumbers, Entered
  <1>2. OnTheWay /\ Registered /\ Answering /\ OwnResponse
    BY SidesAndCalls DEF Init, NewCtx, OnTheWay, Registered, Answering, OwnResponse
  <1> QED
    BY <1>1, <1>2 DEF Owned

LEMMA OwnedNext == FewCalls /\ Sound /\ Owned /\ [Next]_vars => Owned'
  BY FreshNext, OneObjectNext, ObjectNumbersNext, OnTheWayNext, RegisteredNext, AnsweringNext, OwnNext
     DEF Sound, Working, Owned, Numbering

(* As long as fewer calls are made than there are numbers, a response ends a
   call for the object that it answers (rock_stream.cpp:125).              *)
THEOREM ResponsesAreOwn == ASSUME FewCalls PROVE Spec => []OwnResponse
  <1>1. Init => Owned
    BY OwnedInit
  <1>2. Sound /\ Owned /\ [Next]_vars => Owned'
    BY OwnedNext
  <1>3. Owned => OwnResponse
    BY DEF Owned
  <1> QED
    BY <1>1, <1>2, <1>3, SoundInit, SoundNext, PTL DEF Spec
=============================================================================
