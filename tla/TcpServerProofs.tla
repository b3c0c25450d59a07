-------------------------- MODULE TcpServerProofs --------------------------
(***************************************************************************)
(* TcpServer for every set of addresses, descriptors, clients and worlds:  *)
(* no socket is lost, and every FdCtx is that of the socket behind its     *)
(* descriptor.                                                             *)
(***************************************************************************)
EXTENDS TcpServer, SequenceTheorems, WellFoundedInduction, FiniteSetTheorems, TLAPS

Places     == {"none", "loop", "ctx", "fill", "find", "issue", "add", "held", "init", "closing", "done"}
LoopType   == [obj : Objects \cup {None}, lfd : Handles \cup {None}, new : Handles \cup {None}]
StopPlaces == {"none", "queued", "cancel", "close", "closing", "done"}
CtxType    == [recv : BOOLEAN, stale : BOOLEAN]
Closers    == ({"stop"} \X Stops) \cup ({"loop"} \X Loops) \cup ({"handler"} \X Handles)
CloseType  == [fd : Handles, by : Closers, at : {"cancel", "del", "close"}]
PendingType == [lfd : Handles, new : Handles, by : Loops]
PacketType  == [fd : Handles, by : Loops]
Kinds      == {"free", "plain", "listening", "connected"}

(* The types of the variables. A loop that waits in accept, or has had a   *)
(* result, has the descriptors it works with.                              *)
Shape ==
    /\ world \in Worlds
    /\ isStop \in BOOLEAN /\ crashed \in BOOLEAN /\ phantoms \in BOOLEAN
    /\ made \in Nat
    /\ socks \in Seq(Objects)
    /\ sock \in [Objects -> Handles \cup {None}]
    /\ pc \in [Loops -> Places]
    /\ loop \in [Loops -> LoopType]
    /\ stop \in [Stops -> [at : StopPlaces, left : Seq(Objects)]]
    /\ closing \subseteq CloseType
    /\ datas \in [Handles -> CtxType \cup {None}]
    /\ reg \in [Handles -> Loops \cup {None}] /\ known \subseteq Handles
    /\ kind \in [Handles -> Kinds]
    /\ peer \in [Handles -> Peers \cup {None}]
    /\ backlog \in [Handles -> SUBSET Peers]
    /\ inflight \subseteq PendingType
    /\ port \subseteq PacketType
    /\ clients \subseteq Handles

(* What a running loop works with is there.                                *)
Working ==
    \A a \in Loops :
        /\ Running(a) => loop[a].obj \in Objects
        /\ pc[a] \in {"issue", "add", "held"} => loop[a].lfd \in Handles
        /\ pc[a] \in {"ctx", "fill", "add", "held", "init"} => loop[a].new \in Handles

(* A function of stop() that has a socket at hand has it in its list.      *)
Listed == \A s \in Stops : stop[s].at \in {"close", "closing"} => stop[s].left # <<>>

(* Who is registered is held, for the descriptor it is registered at.      *)
RegIsHeld == \A h \in Handles : reg[h] # None => pc[reg[h]] = "held" /\ loop[reg[h]].lfd = h

(* The loops are started one after the other.                              *)
InOrder == \E n \in 0..MaxLoops : \A a \in Loops : pc[a] # "none" <=> a <= n

Sound == Shape /\ Working /\ Listed /\ RegIsHeld /\ InOrder

-----------------------------------------------------------------------------
(* Sets of naturals have least elements. *)
Less == {p \in Nat \X Nat : p[1] < p[2]}

LEMMA LeastNat ==
    ASSUME NEW S, S \subseteq Nat, S # {}
    PROVE  \E n \in S : \A m \in S : n <= m
  <1>1. IsWellFoundedOn(Less, Nat)
    BY NatLessThanWellFounded DEF OpToRel, Less
  <1>2. PICK n \in S : \A m \in S : <<m, n>> \notin Less
    BY <1>1, WFMin
  <1>3. \A m \in S : ~(m < n)
    BY <1>2 DEF Less
  <1> QED
    BY <1>3

LEMMA NextIsFree ==
    ASSUME Free # {}
    PROVE  NextFree \in Free /\ NextFree \in Handles /\ kind[NextFree] = "free"
  <1>1. Free \subseteq Handles /\ Handles \subseteq Nat
    BY ServerBounds DEF Free
  <1>2. \E n \in Free : \A m \in Free : n <= m
    BY <1>1, LeastNat
  <1>3. NextFree \in Free
    BY <1>2 DEF NextFree
  <1> QED
    BY <1>3 DEF Free

(* cancelAll wakes who is registered, and takes along what it waits for.   *)
LEMMA Cancels ==
    ASSUME Sound, NEW fd, CancelAll(fd)
    PROVE  \/ UNCHANGED <<inflight, port, pc, reg>>
           \/ \E a \in Loops :
                 /\ fd \in Handles /\ reg[fd] = a /\ pc[a] = "held" /\ loop[a].lfd = fd
                 /\ pc' = [pc EXCEPT ![a] = "init"]
                 /\ reg' = [reg EXCEPT ![fd] = None]
                 /\ inflight' = {i \in inflight : i.lfd # fd}
                 /\ port' = {q \in port : q.by # a}
  <1>1. CASE fd \in known /\ reg[fd] # None
    <2>1. fd \in Handles /\ reg[fd] \in Loops
      BY <1>1 DEF Sound, Shape
    <2>2. pc[reg[fd]] = "held" /\ loop[reg[fd]].lfd = fd
      BY <1>1, <2>1 DEF Sound, RegIsHeld
    <2> QED
      BY <1>1, <2>1, <2>2 DEF CancelAll, Goto
  <1> QED
    BY <1>1 DEF CancelAll

LEMMA CancelsTyped ==
    ASSUME Sound, NEW fd, CancelAll(fd)
    PROVE  /\ pc' \in [Loops -> Places] /\ reg' \in [Handles -> Loops \cup {None}]
           /\ inflight' \subseteq inflight /\ port' \subseteq port
  <1>0. pc \in [Loops -> Places] /\ reg \in [Handles -> Loops \cup {None}]
    BY DEF Sound, Shape
  <1>1. CASE UNCHANGED <<inflight, port, pc, reg>>
    BY <1>0, <1>1
  <1>2. ASSUME NEW a \in Loops,
               pc' = [pc EXCEPT ![a] = "init"], reg' = [reg EXCEPT ![fd] = None],
               inflight' = {i \in inflight : i.lfd # fd}, port' = {q \in port : q.by # a}
        PROVE  /\ pc' \in [Loops -> Places] /\ reg' \in [Handles -> Loops \cup {None}]
               /\ inflight' \subseteq inflight /\ port' \subseteq port
    BY <1>0, <1>2 DEF Places
  <1> QED
    BY <1>1, <1>2, Cancels

LEMMA CtxNotNone == None \notin CtxType /\ NewCtx \in CtxType
  <1>1. ASSUME NEW x \in CtxType
        PROVE  x # None
    <2>1. x = [recv |-> x.recv, stale |-> x.stale] /\ x.recv \in BOOLEAN /\ x.stale \in BOOLEAN
      BY DEF CtxType
    <2> QED
      BY <2>1, ServerBounds
  <1> QED
    BY <1>1 DEF CtxType, NewCtx

LEMMA CloseTyped ==
    /\ \A fd \in Handles : \A by \in Closers :
          /\ Close(fd, by) \in CloseType
          /\ Close(fd, by).fd = fd /\ Close(fd, by).by = by /\ Close(fd, by).at = "cancel"
    /\ \A c \in CloseType : \A l \in {"cancel", "del", "close"} :
          /\ [c EXCEPT !.at = l] \in CloseType
          /\ [c EXCEPT !.at = l].fd = c.fd /\ [c EXCEPT !.at = l].by = c.by
          /\ [c EXCEPT !.at = l].at = l
    /\ \A s \in Stops : <<"stop", s>> \in Closers
    /\ \A a \in Loops : <<"loop", a>> \in Closers
    /\ \A h \in Handles : <<"handler", h>> \in Closers
  <1>1. ASSUME NEW fd \in Handles, NEW by \in Closers
        PROVE  /\ Close(fd, by) \in CloseType
               /\ Close(fd, by).fd = fd /\ Close(fd, by).by = by /\ Close(fd, by).at = "cancel"
    BY DEF Close, CloseType
  <1>2. ASSUME NEW c \in CloseType, NEW l \in {"cancel", "del", "close"}
        PROVE  /\ [c EXCEPT !.at = l] \in CloseType
               /\ [c EXCEPT !.at = l].fd = c.fd /\ [c EXCEPT !.at = l].by = c.by
               /\ [c EXCEPT !.at = l].at = l
    BY DEF CloseType
  <1>3. /\ \A s \in Stops : <<"stop", s>> \in Closers
        /\ \A a \in Loops : <<"loop", a>> \in Closers
        /\ \A h \in Handles : <<"handler", h>> \in Closers
    BY DEF Closers
  <1> QED
    BY <1>1, <1>2, <1>3

LEMMA SoundInit == Init => Sound
  <1> SUFFICES ASSUME Init PROVE Sound
    OBVIOUS
  <1>1. Shape
    <2>1. NoLoop \in LoopType
      BY DEF NoLoop, LoopType
    <2>2. [at |-> "none", left |-> <<>>] \in [at : StopPlaces, left : Seq(Objects)]
      BY EmptySeq DEF StopPlaces
    <2>3. /\ world \in Worlds /\ isStop \in BOOLEAN /\ crashed \in BOOLEAN /\ phantoms \in BOOLEAN
          /\ made \in Nat /\ socks \in Seq(Objects)
          /\ sock \in [Objects -> Handles \cup {None}]
      BY EmptySeq DEF Init
    <2>4. /\ pc \in [Loops -> Places] /\ loop \in [Loops -> LoopType]
          /\ stop \in [Stops -> [at : StopPlaces, left : Seq(Objects)]]
      BY <2>1, <2>2 DEF Init, Places
    <2>5. /\ datas \in [Handles -> CtxType \cup {None}]
          /\ reg \in [Handles -> Loops \cup {None}] /\ known \subseteq Handles
          /\ kind \in [Handles -> Kinds]
          /\ peer \in [Handles -> Peers \cup {None}]
          /\ backlog \in [Handles -> SUBSET Peers]
      BY DEF Init, Kinds
    <2> QED
      BY <2>3, <2>4, <2>5 DEF Init, Shape
  <1>2. Working /\ Listed /\ RegIsHeld
    BY DEF Init, Working, Running, Listed, RegIsHeld
  <1>3. InOrder
    <2>1. 0 \in 0..MaxLoops /\ \A a \in Loops : pc[a] # "none" <=> a <= 0
      BY ServerBounds DEF Init, Loops
    <2> QED
      BY <2>1 DEF InOrder
  <1> QED
    BY <1>1, <1>2, <1>3 DEF Sound

(* What nobody needs but the types of what changed. *)
LEMMA LoopTyped ==
    ASSUME Shape, NEW a \in Loops, NEW next \in LoopType
    PROVE  [loop EXCEPT ![a] = next] \in [Loops -> LoopType]
  BY DEF Shape

LEMMA Moved ==
    ASSUME Shape, NEW a \in Loops, NEW l \in Places, Goto(a, l)
    PROVE  /\ pc' \in [Loops -> Places] /\ pc'[a] = l
           /\ \A b \in Loops \ {a} : pc'[b] = pc[b]
  BY DEF Shape, Goto

LEMMA BindKeepsShape ==
    ASSUME Shape, Bind
    PROVE  Shape'
  <1>1. ASSUME NEW fd \in [1..Cardinality(Addrs) -> Free], NEW passed, BindSucceeds(passed, fd)
        PROVE  Shape'
    <2>1. Cardinality(Addrs) \in Nat
      BY ServerBounds, FS_CardinalityType
    <2>2. Free \subseteq Handles
      BY DEF Free
    <2>3. fd \in Seq(Handles) /\ Len(fd) = Cardinality(Addrs) /\ DOMAIN fd = 1..Cardinality(Addrs)
      BY <2>1, <2>2, IsASeq
    <2> DEFINE n == Cardinality(Addrs)
               new == [i \in DOMAIN fd |-> made + i]
    <2> HIDE DEF n
    <2>4. n \in Nat /\ made \in Nat /\ made + n <= MaxObjects /\ DOMAIN fd = 1..n /\ Len(fd) = n
      BY <1>1, <2>1, <2>3 DEF BindSucceeds, Shape, n
    <2>5. \A i \in 1..n : made + i \in Objects
      BY <2>4, ServerBounds DEF Objects
    <2>6. new \in Seq(Objects)
      BY <2>4, <2>5, IsASeq
    <2>7. socks' \in Seq(Objects)
      BY <1>1, <2>6, ConcatProperties DEF BindSucceeds, Shape
    <2>8. sock' \in [Objects -> Handles \cup {None}]
      BY <1>1, <2>3 DEF BindSucceeds, Shape, Objects
    <2>9. kind' \in [Handles -> Kinds] /\ datas' \in [Handles -> CtxType \cup {None}]
      BY <1>1, CtxNotNone DEF BindSucceeds, Shape, Kinds
    <2>10. made' \in Nat /\ crashed' \in BOOLEAN
      BY <1>1, <2>4 DEF BindSucceeds, Bind, Iterating
    <2> QED
      BY <1>1, <2>7, <2>8, <2>9, <2>10 DEF BindSucceeds, Shape, eventVars, handVars
  <1>2. ASSUME NEW F, NEW passed, BindFails(F, passed)
        PROVE  Shape'
    <2>1. crashed' \in BOOLEAN
      BY DEF Bind, Iterating
    <2>2. sock' \in [Objects -> Handles \cup {None}] /\ socks' \in Seq(Objects)
      BY <1>2, EmptySeq DEF BindFails, Clear, Shape
    <2>3. kind' \in [Handles -> Kinds] /\ datas' \in [Handles -> CtxType \cup {None}]
      BY <1>2 DEF BindFails, Clear, Shape, Kinds
    <2>4. backlog' \in [Handles -> SUBSET Peers] /\ inflight' \subseteq inflight
      BY <1>2 DEF BindFails, Clear, Shape
    <2> QED
      BY <1>2, <2>1, <2>2, <2>3, <2>4 DEF BindFails, Shape, eventVars, handVars
  <1> QED
    BY <1>1, <1>2 DEF Bind

LEMMA StopKeepsShape ==
    ASSUME Sound, NEW s \in Stops, Stop(s) \/ StopStep(s)
    PROVE  Shape'
  <1> DEFINE StopType == [at : StopPlaces, left : Seq(Objects)]
  <1>0. Shape /\ stop[s] \in StopType
    BY DEF Sound, Shape
  <1>l. ASSUME stop[s].at \in {"close", "closing"} \/ stop[s].left # <<>>
        PROVE  Head(stop[s].left) \in Objects /\ Tail(stop[s].left) \in Seq(Objects)
    <2>1. stop[s].left \in Seq(Objects) /\ stop[s].left # <<>>
      BY <1>0, <1>l DEF Sound, Listed
    <2> QED
      BY <2>1, HeadTailProperties
  <1>1. CASE Stop(s)
    <2>1. stop' \in [Stops -> StopType]
      BY <1>0, <1>1 DEF Stop, Shape, StopPlaces
    <2> QED
      BY <1>0, <1>1, <2>1 DEF Stop, Shape, fdVars, eventVars, kernelVars, handVars
  <1>2. CASE StopBegins(s)
    <2>1. stop' \in [Stops -> StopType]
      BY <1>0, <1>2 DEF StopBegins, Shape, StopPlaces
    <2> QED
      BY <1>0, <1>2, <2>1 DEF StopBegins, Shape, apiVars, fdVars, eventVars, kernelVars, handVars
  <1>3. CASE StopCancels(s)
    <2>1. stop' \in [Stops -> StopType]
      BY <1>0, <1>3 DEF StopCancels, Shape, StopPlaces
    <2>2. /\ pc' \in [Loops -> Places] /\ reg' \in [Handles -> Loops \cup {None}]
          /\ inflight' \subseteq inflight /\ port' \subseteq port
      BY <1>3, CancelsTyped DEF StopCancels
    <2> QED
      BY <1>0, <1>3, <2>1, <2>2 DEF StopCancels, Shape, apiVars, fdVars, handVars
  <1>4. CASE StopCloses(s)
    <2>1. stop' \in [Stops -> StopType]
      <3>1. Tail(stop[s].left) \in Seq(Objects)
        BY <1>l, <1>4 DEF StopCloses
      <3>2. stop \in [Stops -> StopType]
        BY <1>0 DEF Shape
      <3>3. CASE stop' = [stop EXCEPT ![s].at = "closing"]
        BY <3>2, <3>3 DEF StopPlaces
      <3>4. CASE stop' = [stop EXCEPT ![s].at = "cancel", ![s].left = Tail(@)]
        BY <3>1, <3>2, <3>4 DEF StopPlaces
      <3> QED
        BY <1>4, <3>3, <3>4 DEF StopCloses
    <2>2. closing' \subseteq CloseType
      <3>1. Head(stop[s].left) \in Objects
        BY <1>l, <1>4 DEF StopCloses
      <3> QED
        BY <1>0, <1>4, <3>1, CloseTyped, SMTT(30) DEF StopCloses, Shape
    <2> QED
      BY <1>0, <1>4, <2>1, <2>2 DEF StopCloses, Shape, apiVars, eventVars, kernelVars, handVars
  <1>5. CASE StopForgets(s)
    <2>1. stop' \in [Stops -> StopType]
      BY <1>0, <1>l, <1>5 DEF StopForgets, Shape, StopPlaces
    <2>2. sock' \in [Objects -> Handles \cup {None}]
      BY <1>0, <1>5 DEF StopForgets, Shape
    <2> QED
      BY <1>0, <1>5, <2>1, <2>2 DEF StopForgets, Shape, apiVars, fdVars, eventVars, kernelVars, handVars
  <1>6. CASE StopEnds(s)
    <2>1. stop' \in [Stops -> StopType]
      BY <1>0, <1>6, EmptySeq DEF StopEnds, Shape, StopPlaces
    <2>2. crashed' \in BOOLEAN
      BY <1>6 DEF StopEnds, Iterating
    <2>3. sock' \in [Objects -> Handles \cup {None}] /\ socks' \in Seq(Objects)
      BY <1>0, <1>6, EmptySeq DEF StopEnds, Clear, Shape
    <2>4. kind' \in [Handles -> Kinds] /\ datas' \in [Handles -> CtxType \cup {None}]
      BY <1>0, <1>6 DEF StopEnds, Clear, Shape, Kinds
    <2>5. backlog' \in [Handles -> SUBSET Peers] /\ inflight' \subseteq inflight
      BY <1>0, <1>6 DEF StopEnds, Clear, Shape
    <2> QED
      BY <1>0, <1>6, <2>1, <2>2, <2>3, <2>4, <2>5 DEF StopEnds, Shape, eventVars, handVars
  <1> QED
    BY <1>1, <1>2, <1>3, <1>4, <1>5, <1>6 DEF StopStep

LEMMA StartKeepsShape ==
    ASSUME Shape, Start
    PROVE  Shape'
  <1> DEFINE first == Cardinality({a \in Loops : pc[a] # "none"})
  <1>1. \A i \in DOMAIN socks : socks[i] \in Objects
    BY DEF Shape
  <1>2. NoLoop \in LoopType
    BY DEF NoLoop, LoopType
  <1>3. \A o \in Objects : [NoLoop EXCEPT !.obj = o] \in LoopType
    BY DEF NoLoop, LoopType
  <1>4. /\ pc' = [a \in Loops |-> IF a - first \in DOMAIN socks THEN "loop" ELSE pc[a]]
        /\ loop' = [a \in Loops |-> IF a - first \in DOMAIN socks
                                    THEN [NoLoop EXCEPT !.obj = socks[a - first]] ELSE loop[a]]
    BY DEF Start
  <1> HIDE DEF first
  <1>5. pc' \in [Loops -> Places]
    BY <1>4 DEF Shape, Places
  <1>6. loop' \in [Loops -> LoopType]
    BY <1>1, <1>3, <1>4 DEF Shape
  <1> QED
    BY <1>5, <1>6 DEF Start, Shape, fdVars, eventVars, kernelVars, handVars

LEMMA LoopKeepsShape ==
    ASSUME Sound, NEW a \in Loops, LoopStep(a)
    PROVE  Shape'
  <1>0. Shape /\ Working /\ loop[a] \in LoopType /\ Between(a) \in LoopType
    BY DEF Sound, Shape, Between, NoLoop, LoopType
  <1>t. \A x \in Handles \cup {None} : /\ [loop EXCEPT ![a].new = x] \in [Loops -> LoopType]
                                       /\ [loop EXCEPT ![a].lfd = x] \in [Loops -> LoopType]
    BY <1>0 DEF Shape, LoopType
  <1>1. CASE Leave(a)
    <2>1. pc' \in [Loops -> Places]
      BY <1>0, <1>1 DEF Leave, Shape, Goto, Places
    <2>2. /\ sock' \in [Objects -> Handles \cup {None}]
          /\ closing' \subseteq CloseType
      <3>1. loop[a].obj \in Objects
        BY <1>0, <1>1 DEF Leave, Working, Running
      <3>2. CASE LastHolder(a)
        <4>1. sock[loop[a].obj] \in Handles
          BY <1>0, <3>1, <3>2 DEF LastHolder, Shape
        <4>2. /\ closing' = closing \cup {Close(sock[loop[a].obj], <<"loop", a>>)}
              /\ sock' = [sock EXCEPT ![loop[a].obj] = None]
          BY <1>1, <3>2 DEF Leave
        <4> QED
          BY <1>0, <3>1, <4>1, <4>2, CloseTyped DEF Shape
      <3>3. CASE ~LastHolder(a)
        BY <1>0, <1>1, <3>3 DEF Leave, Shape
      <3> QED
        BY <3>2, <3>3
    <2> QED
      BY <1>0, <1>1, <2>1, <2>2 DEF Leave, Shape, apiVars, eventVars, kernelVars, handVars
  <1>2. CASE NewSocket(a)
    <2>1. CASE Free # {}
      <3>1. NextFree \in Handles
        BY <2>1, NextIsFree
      <3>2. /\ loop' = [loop EXCEPT ![a].new = NextFree] /\ Goto(a, "ctx")
            /\ kind' = [kind EXCEPT ![NextFree] = "plain"]
        BY <1>2, <2>1 DEF NewSocket
      <3>3. pc' \in [Loops -> Places]
        BY <1>0, <3>2, Moved DEF Places
      <3>4. kind' \in [Handles -> Kinds] /\ loop' \in [Loops -> LoopType]
        BY <1>0, <1>t, <3>1, <3>2 DEF Shape, Kinds
      <3> QED
        BY <1>0, <1>2, <3>3, <3>4 DEF NewSocket, Shape, apiVars, fdVars, eventVars, handVars
    <2>2. CASE Free = {}
      <3>1. loop[a].obj \in Objects
        BY <1>0, <1>2 DEF NewSocket, Working, Running
      <3>2. loop' \in [Loops -> LoopType]
        <4>1. sock[loop[a].obj] \in Handles \cup {None} /\ loop \in [Loops -> LoopType]
          BY <1>0, <3>1 DEF Shape
        <4>2. loop' = [loop EXCEPT ![a].new = None, ![a].lfd = sock[loop[a].obj]]
          BY <1>2, <2>2 DEF NewSocket
        <4> QED
          BY <4>1, <4>2 DEF LoopType
      <3> QED
        BY <1>0, <1>2, <2>2, <3>2, Moved DEF NewSocket, Shape, Places, apiVars, fdVars, eventVars, handVars
    <2> QED
      BY <2>1, <2>2
  <1>3. CASE KeepCtx(a) \/ MissCtx(a) \/ MakeCtx(a)
    <2>1. loop[a].obj \in Objects /\ loop[a].new \in Handles
      BY <1>0, <1>3 DEF KeepCtx, MissCtx, MakeCtx, Working, Running
    <2>2. datas' \in [Handles -> CtxType \cup {None}]
      BY <1>0, <1>3, CtxNotNone DEF KeepCtx, MissCtx, MakeCtx, Shape, fdVars
    <2>3. loop' \in [Loops -> LoopType]
      <3>1. CASE KeepCtx(a) \/ MakeCtx(a)
        <4>1. sock[loop[a].obj] \in Handles \cup {None}
          BY <1>0, <2>1 DEF Shape
        <4>2. loop' = [loop EXCEPT ![a].lfd = sock[loop[a].obj]]
          BY <3>1 DEF KeepCtx, MakeCtx, Proceed
        <4> QED
          BY <1>t, <4>1, <4>2
      <3>2. CASE MissCtx(a)
        BY <1>0, <3>2 DEF MissCtx, Shape
      <3> QED
        BY <1>3, <3>1, <3>2
    <2>4. pc' \in [Loops -> Places]
      BY <1>0, <1>3, Moved DEF KeepCtx, MissCtx, MakeCtx, Proceed, Places
    <2> QED
      BY <1>0, <1>3, <2>2, <2>3, <2>4
      DEF KeepCtx, MissCtx, MakeCtx, Shape, apiVars, fdVars, eventVars, kernelVars, handVars
  <1>4. CASE FindCtx(a)
    BY <1>0, <1>4, Moved DEF FindCtx, Shape, Places, apiVars, fdVars, eventVars, kernelVars, handVars
  <1>5. CASE FindsNone(a) \/ AddEventFails(a)
    BY <1>0, <1>5 DEF FindsNone, AddEventFails, Crash, Shape, apiVars, fdVars, eventVars, kernelVars, handVars
  <1>6. CASE AcceptFails(a)
    <2>1. closing' \subseteq CloseType
      BY <1>0, <1>6, CloseTyped DEF AcceptFails, Shape, LoopType
    <2> QED
      BY <1>0, <1>6, <2>1, Moved DEF AcceptFails, Shape, Places, apiVars, eventVars, kernelVars, handVars
  <1>7. CASE AcceptReturns(a)
    BY <1>0, <1>7, LoopTyped, Moved DEF AcceptReturns, Shape, Places, apiVars, fdVars, eventVars, kernelVars, handVars
  <1>8. CASE AcceptSucceeds(a)
    <2>1. PICK p \in Peers : Connected(loop[a].new, p, loop[a].lfd)
      BY <1>0, <1>8 DEF AcceptSucceeds, Shape, Working
    <2>2. /\ kind' \in [Handles -> Kinds] /\ peer' \in [Handles -> Peers \cup {None}]
          /\ backlog' \in [Handles -> SUBSET Peers]
      BY <1>0, <2>1 DEF Connected, Shape, Kinds
    <2> QED
      BY <1>0, <1>8, <2>2, Moved DEF AcceptSucceeds, Shape, Places, apiVars, fdVars, eventVars, handVars
  <1>9. CASE AcceptPends(a)
    <2>1. loop[a].lfd \in Handles /\ loop[a].new \in Handles
      BY <1>0, <1>9 DEF AcceptPends, CanAccept, Working, LoopType
    <2>2. inflight' \subseteq PendingType
      BY <1>0, <1>9, <2>1 DEF AcceptPends, Shape, PendingType
    <2> QED
      BY <1>0, <1>9, <2>2, Moved DEF AcceptPends, Shape, PendingType, Places, apiVars, fdVars, eventVars, handVars
  <1>10. CASE AddEvent(a)
    <2>1. loop[a].lfd \in Handles
      BY <1>0, <1>10 DEF AddEvent, Working
    <2>2. reg' \in [Handles -> Loops \cup {None}] /\ known' \subseteq Handles
      BY <1>0, <1>10, <2>1 DEF AddEvent, Shape
    <2> QED
      BY <1>0, <1>10, <2>2, Moved DEF AddEvent, Shape, Places, apiVars, fdVars, handVars
  <1>11. CASE HandOver(a)
    <2>1. loop[a].new \in Handles
      BY <1>0, <1>11 DEF HandOver, Working
    <2>2. datas' \in [Handles -> CtxType \cup {None}] /\ clients' \subseteq Handles /\ phantoms' \in BOOLEAN
      <3>1. CASE datas[loop[a].new] = None
        BY <1>0, <1>11, <3>1 DEF HandOver, Shape, handVars
      <3>2. CASE datas[loop[a].new] # None
        <4>1. datas[loop[a].new] \in CtxType /\ datas \in [Handles -> CtxType \cup {None}]
          BY <1>0, <2>1, <3>2 DEF Shape
        <4>2. [datas[loop[a].new] EXCEPT !.recv = TRUE] \in CtxType
          BY <4>1 DEF CtxType
        <4>3. datas' = [datas EXCEPT ![loop[a].new] = [@ EXCEPT !.recv = TRUE]]
          BY <1>11, <3>2 DEF HandOver
        <4>4. datas' \in [Handles -> CtxType \cup {None}]
          BY <4>1, <4>2, <4>3
        <4>5. clients' \subseteq Handles
          BY <1>0, <1>11, <2>1, <3>2 DEF HandOver, Shape
        <4>6. phantoms' \in BOOLEAN
          BY <1>11, <3>2 DEF HandOver
        <4> QED
          BY <4>4, <4>5, <4>6
      <3> QED
        BY <3>1, <3>2
    <2> QED
      BY <1>0, <1>11, <2>2, LoopTyped, Moved DEF HandOver, Shape, Places, apiVars, eventVars, kernelVars
  <1> QED
    BY <1>1, <1>2, <1>3, <1>4, <1>5, <1>6, <1>7, <1>8, <1>9, <1>10, <1>11 DEF LoopStep

LEMMA CloseKeepsShape ==
    ASSUME Sound, NEW c \in closing, CloseCancels(c) \/ CloseDeletes(c) \/ CloseEnds(c)
    PROVE  Shape'
  <1>0. /\ Shape /\ c.fd \in Handles
        /\ closing \subseteq CloseType
    BY DEF Sound, Shape, CloseType
  <1>t. [c EXCEPT !.at = "close"] \in CloseType /\ [c EXCEPT !.at = "del"] \in CloseType
    BY <1>0, CloseTyped
  <1>1. CASE CloseCancels(c)
    <2>1. PICK l \in {"close", "del"} : closing' = (closing \ {c}) \cup {[c EXCEPT !.at = l]}
      BY <1>1 DEF CloseCancels
    <2>3. closing' \subseteq CloseType
      BY <1>0, <1>t, <2>1
    <2>4. /\ pc' \in [Loops -> Places] /\ reg' \in [Handles -> Loops \cup {None}]
          /\ inflight' \subseteq inflight /\ port' \subseteq port
      BY <1>0, <1>1, CancelsTyped DEF CloseCancels, Shape
    <2> QED
      BY <1>0, <1>1, <2>3, <2>4 DEF CloseCancels, Shape, apiVars, handVars
  <1>2. CASE CloseDeletes(c)
    <2>1. closing' \subseteq CloseType
      BY <1>0, <1>t, <1>2 DEF CloseDeletes
    <2>2. datas' \in [Handles -> CtxType \cup {None}]
      BY <1>0, <1>2 DEF CloseDeletes, Shape
    <2> QED
      BY <1>0, <1>2, <2>1, <2>2 DEF CloseDeletes, Shape, apiVars, eventVars, kernelVars, handVars
  <1>3. CASE CloseEnds(c)
    <2>1. closing' \subseteq CloseType
      BY <1>0, <1>3 DEF CloseEnds
    <2>2. kind' \in [Handles -> Kinds] /\ peer' \in [Handles -> Peers \cup {None}]
      BY <1>0, <1>3 DEF CloseEnds, Shape, Kinds
    <2>3. backlog' \in [Handles -> SUBSET Peers] /\ inflight' \subseteq inflight
      BY <1>0, <1>3 DEF CloseEnds, Shape
    <2>4. datas' \in [Handles -> CtxType \cup {None}]
      <3>1. datas \in [Handles -> CtxType \cup {None}]
        BY <1>0 DEF Shape
      <3>2. datas[c.fd] \in CtxType => [datas[c.fd] EXCEPT !.stale = TRUE] \in CtxType
        BY DEF CtxType
      <3>3. datas' = [datas EXCEPT ![c.fd] = IF @ = None THEN None ELSE [@ EXCEPT !.stale = TRUE]]
        BY <1>3 DEF CloseEnds
      <3> QED
        BY <1>0, <3>1, <3>2, <3>3
    <2> QED
      BY <1>0, <1>3, <2>1, <2>2, <2>3, <2>4 DEF CloseEnds, Shape, apiVars, eventVars, handVars
  <1> QED
    BY <1>1, <1>2, <1>3

LEMMA OthersKeepShape ==
    ASSUME Sound,
           \/ KernelStep
           \/ \E p \in Peers, h \in Handles : Connect(p, h)
           \/ \E h \in Handles : HandlerCloses(h)
    PROVE  Shape'
  <1>0. Shape
    BY DEF Sound
  <1>1. ASSUME NEW i \in inflight, NEW p \in Peers, Complete(i, p)
        PROVE  Shape'
    <2>1. i.lfd \in Handles /\ i.new \in Handles /\ i.by \in Loops
      BY <1>0 DEF Shape, PendingType
    <2>2. /\ kind' \in [Handles -> Kinds] /\ peer' \in [Handles -> Peers \cup {None}]
          /\ backlog' \in [Handles -> SUBSET Peers]
      BY <1>0, <1>1, <2>1 DEF Complete, Connected, Shape, Kinds
    <2>3. port' \subseteq PacketType
      BY <1>0, <1>1, <2>1 DEF Complete, Shape, PacketType
    <2> QED
      BY <1>0, <1>1, <2>2, <2>3 DEF Complete, Shape, PacketType, apiVars, fdVars, eventVars, handVars
  <1>6. ASSUME NEW i \in inflight, NEW p \in Peers, CompleteFails(i, p)
        PROVE  Shape'
    <2>1. i.lfd \in Handles
      BY <1>0 DEF Shape, PendingType
    <2>2. backlog' \in [Handles -> SUBSET Peers]
      BY <1>0, <1>6, <2>1 DEF CompleteFails, Shape
    <2> QED
      BY <1>0, <1>6, <2>2 DEF CompleteFails, Shape, apiVars, fdVars, eventVars, handVars
  <1>2. ASSUME NEW q \in port, Deliver(q)
        PROVE  Shape'
    <2>1. q.fd \in Handles /\ q.by \in Loops
      BY <1>0 DEF Shape, PacketType
    <2>2. pc' \in [Loops -> Places] /\ reg' \in [Handles -> Loops \cup {None}]
      BY <1>0, <1>2, <2>1 DEF Deliver, Shape, Goto, Places
    <2> QED
      BY <1>0, <1>2, <2>2 DEF Deliver, Shape, apiVars, fdVars, handVars
  <1>3. ASSUME NEW p \in Peers, NEW h \in Handles, Connect(p, h)
        PROVE  Shape'
    <2>1. backlog' \in [Handles -> SUBSET Peers]
      BY <1>0, <1>3 DEF Connect, Shape
    <2> QED
      BY <1>0, <1>3, <2>1 DEF Connect, Shape, apiVars, fdVars, eventVars, handVars
  <1>4. ASSUME NEW h \in Handles, HandlerCloses(h)
        PROVE  Shape'
    <2>1. closing' \subseteq CloseType
      BY <1>0, <1>4, CloseTyped DEF HandlerCloses, Shape
    <2> QED
      BY <1>0, <1>4, <2>1 DEF HandlerCloses, Shape, apiVars, eventVars, kernelVars
  <1> QED
    BY <1>1, <1>2, <1>3, <1>4, <1>6 DEF KernelStep

-----------------------------------------------------------------------------
(* What others than the loops and start() do to the loops: they wake one   *)
(* that is held, which then is not registered any more.                    *)
Outside ==
    \/ Bind
    \/ \E s \in Stops : Stop(s) \/ StopStep(s)
    \/ CloseStep
    \/ KernelStep
    \/ \E p \in Peers, h \in Handles : Connect(p, h)
    \/ \E h \in Handles : HandlerCloses(h)

OnlyWakes ==
    /\ loop' = loop
    /\ \A a \in Loops : pc'[a] = pc[a] \/ (pc[a] = "held" /\ pc'[a] = "init")
    /\ \A h \in Handles : reg'[h] # None => reg'[h] = reg[h] /\ pc'[reg[h]] = pc[reg[h]]

LEMMA WakesOne ==
    ASSUME Sound, NEW a \in Loops, NEW h \in Handles, reg[h] = a, loop' = loop,
           pc' = [pc EXCEPT ![a] = "init"], reg' = [reg EXCEPT ![h] = None]
    PROVE  OnlyWakes
  <1>0. /\ pc \in [Loops -> Places] /\ reg \in [Handles -> Loops \cup {None}]
        /\ RegIsHeld
    BY DEF Sound, Shape
  <1>1. a # None
    BY ServerBounds DEF Loops
  <1>2. pc[a] = "held" /\ loop[a].lfd = h
    BY <1>0, <1>1 DEF RegIsHeld
  <1>3. \A b \in Loops : pc'[b] = pc[b] \/ (pc[b] = "held" /\ pc'[b] = "init")
    BY <1>0, <1>2
  <1>4. ASSUME NEW g \in Handles, reg'[g] # None
        PROVE  reg'[g] = reg[g] /\ pc'[reg[g]] = pc[reg[g]]
    <2>1. g # h /\ reg'[g] = reg[g]
      BY <1>0, <1>4
    <2>2. loop[reg[g]].lfd = g
      BY <1>0, <1>4, <2>1 DEF RegIsHeld
    <2>3. reg[g] # a /\ reg[g] \in Loops
      BY <1>0, <1>2, <1>4, <2>1, <2>2
    <2> QED
      BY <1>0, <2>1, <2>3
  <1> QED
    BY <1>3, <1>4 DEF OnlyWakes

LEMMA CancelOnlyWakes ==
    ASSUME Sound, NEW fd, CancelAll(fd), loop' = loop
    PROVE  OnlyWakes
  <1>1. CASE UNCHANGED <<inflight, port, pc, reg>>
    BY <1>1 DEF OnlyWakes
  <1>2. CASE ~UNCHANGED <<inflight, port, pc, reg>>
    BY <1>2, Cancels, WakesOne
  <1> QED
    BY <1>1, <1>2

LEMMA OutsideOnlyWakes ==
    ASSUME Sound, Outside
    PROVE  OnlyWakes
  <1> USE DEF eventVars, kernelVars, fdVars
  <1>1. CASE Bind
    BY <1>1 DEF Bind, BindSucceeds, BindFails, OnlyWakes
  <1>2. ASSUME NEW s \in Stops, Stop(s) \/ StopStep(s)
        PROVE  OnlyWakes
    <2>1. CASE StopCancels(s)
      BY <2>1, CancelOnlyWakes DEF StopCancels
    <2>2. CASE Stop(s) \/ StopBegins(s) \/ StopCloses(s) \/ StopForgets(s) \/ StopEnds(s)
      BY <2>2 DEF Stop, StopBegins, StopCloses, StopForgets, StopEnds, OnlyWakes
    <2> QED
      BY <1>2, <2>1, <2>2 DEF StopStep
  <1>3. ASSUME NEW c \in closing, CloseCancels(c) \/ CloseDeletes(c) \/ CloseEnds(c)
        PROVE  OnlyWakes
    <2>1. CASE CloseCancels(c)
      <3>1. CASE datas[c.fd] = None
        BY <2>1, <3>1 DEF CloseCancels, OnlyWakes
      <3>2. CASE datas[c.fd] # None
        BY <2>1, <3>2, CancelOnlyWakes DEF CloseCancels
      <3> QED
        BY <3>1, <3>2
    <2>2. CASE CloseDeletes(c) \/ CloseEnds(c)
      BY <2>2 DEF CloseDeletes, CloseEnds, OnlyWakes
    <2> QED
      BY <1>3, <2>1, <2>2
  <1>4. ASSUME NEW q \in port, Deliver(q)
        PROVE  OnlyWakes
    <2>1. q.fd \in Handles /\ q.by \in Loops
      BY DEF Sound, Shape, PacketType
    <2>2. CASE reg[q.fd] = q.by
      BY <1>4, <2>1, <2>2, WakesOne DEF Deliver, Goto
    <2>3. CASE reg[q.fd] # q.by
      BY <1>4, <2>3 DEF Deliver, OnlyWakes
    <2> QED
      BY <2>2, <2>3
  <1>5. CASE \/ \E i \in inflight, p \in Peers : Complete(i, p) \/ CompleteFails(i, p)
             \/ \E p \in Peers, h \in Handles : Connect(p, h)
             \/ \E h \in Handles : HandlerCloses(h)
    BY <1>5 DEF Complete, CompleteFails, Connect, HandlerCloses, OnlyWakes
  <1> QED
    BY <1>1, <1>2, <1>3, <1>4, <1>5 DEF Outside, CloseStep, KernelStep

(* start() gives the next loops the sockets of m_socks, one each.          *)
LEMMA StartsTheNext ==
    ASSUME Sound, Start
    PROVE  \E n \in Nat :
              /\ n + Len(socks) <= MaxLoops
              /\ \A a \in Loops : pc[a] # "none" <=> a <= n
              /\ \A a \in Loops : a <= n \/ a > n + Len(socks) => pc'[a] = pc[a] /\ loop'[a] = loop[a]
              /\ \A a \in Loops : a > n /\ a <= n + Len(socks) =>
                    /\ pc'[a] = "loop" /\ a - n \in 1..Len(socks)
                    /\ loop'[a] = [NoLoop EXCEPT !.obj = socks[a - n]]
  <1>1. PICK n \in 0..MaxLoops : \A a \in Loops : pc[a] # "none" <=> a <= n
    BY DEF Sound, InOrder
  <1>2. MaxLoops \in Nat /\ n \in Nat /\ Loops = 1..MaxLoops /\ Loops \subseteq Nat
    BY ServerBounds DEF Loops
  <1>3. {a \in Loops : pc[a] # "none"} = 1..n
    <2>1. \A a : a \in {b \in Loops : pc[b] # "none"} <=> a \in 1..n
      BY <1>1, <1>2
    <2> QED
      BY <2>1
  <1>4. Cardinality({a \in Loops : pc[a] # "none"}) = n
    <2>1. Cardinality(1..n) = n
      <3>1. 1 \in Int /\ n \in Int
        BY <1>2
      <3>2. Cardinality(1..n) = IF 1 <= n THEN n - 1 + 1 ELSE 0
        BY <3>1, FS_Interval
      <3> QED
        BY <1>2, <3>2
    <2> QED
      BY <1>3, <2>1
  <1>5. socks \in Seq(Objects) /\ DOMAIN socks = 1..Len(socks) /\ Len(socks) \in Nat
    BY DEF Sound, Shape
  <1>6. n + Len(socks) <= MaxLoops
    <2>1. world.loops \in 0..MaxLoops
      BY WorldsAssumption DEF Sound, Shape
    <2> QED
      BY <1>2, <1>4, <1>5, <2>1 DEF Start
  <1>7. \A a \in Loops :
           /\ pc'[a] = IF a - n \in 1..Len(socks) THEN "loop" ELSE pc[a]
           /\ loop'[a] = IF a - n \in 1..Len(socks)
                         THEN [NoLoop EXCEPT !.obj = socks[a - n]] ELSE loop[a]
    BY <1>4, <1>5 DEF Start
  <1>8. \A a \in Loops : a - n \in 1..Len(socks) <=> a > n /\ a <= n + Len(socks)
    BY <1>2, <1>5
  <1>9. \A a \in Loops : a <= n \/ a > n + Len(socks) => pc'[a] = pc[a] /\ loop'[a] = loop[a]
    <2> SUFFICES ASSUME NEW a \in Loops, a <= n \/ a > n + Len(socks)
                 PROVE  pc'[a] = pc[a] /\ loop'[a] = loop[a]
      OBVIOUS
    <2>1. a - n \notin 1..Len(socks)
      BY <1>2, <1>5
    <2> QED
      BY <1>7, <2>1
  <1>10. \A a \in Loops : a > n /\ a <= n + Len(socks) =>
            /\ pc'[a] = "loop" /\ a - n \in 1..Len(socks)
            /\ loop'[a] = [NoLoop EXCEPT !.obj = socks[a - n]]
    BY <1>2, <1>5, <1>7, <1>8
  <1> QED
    BY <1>1, <1>2, <1>6, <1>9, <1>10

LEMMA SoundNext ==
    ASSUME Sound, [Next]_vars
    PROVE  Sound'
  <1>0. Shape /\ Working /\ Listed /\ RegIsHeld /\ InOrder
    BY DEF Sound
  <1>1. CASE Outside
    <2>1. OnlyWakes
      BY <1>1, OutsideOnlyWakes
    <2>2. Shape'
      <3>1. ASSUME NEW c \in closing, CloseCancels(c) \/ CloseDeletes(c) \/ CloseEnds(c)
            PROVE  Shape'
        BY <3>1, CloseKeepsShape
      <3>2. ASSUME NEW s \in Stops, Stop(s) \/ StopStep(s)
            PROVE  Shape'
        BY <3>2, StopKeepsShape
      <3> QED
        BY <1>0, <1>1, <3>1, <3>2, BindKeepsShape, OthersKeepShape DEF Outside, CloseStep
    <2>3. Working'
      BY <1>0, <2>1 DEF OnlyWakes, Working, Running
    <2>4. Listed'
      <3>1. ASSUME NEW s \in Stops, Stop(s) \/ StopStep(s)
            PROVE  Listed'
        <4>1. stop \in [Stops -> [at : StopPlaces, left : Seq(Objects)]]
          BY <1>0 DEF Shape
        <4>2. \A t \in Stops \ {s} : stop'[t] = stop[t]
          BY <3>1, <4>1 DEF Stop, StopStep, StopBegins, StopCancels, StopCloses, StopForgets, StopEnds
        <4>3. stop'[s].at \in {"close", "closing"} => stop'[s].left # <<>>
          <5>1. CASE Stop(s) \/ StopBegins(s) \/ StopForgets(s) \/ StopEnds(s)
            BY <4>1, <5>1 DEF Stop, StopBegins, StopForgets, StopEnds
          <5>2. CASE StopCancels(s)
            BY <4>1, <5>2 DEF StopCancels
          <5>3. CASE StopCloses(s)
            BY <1>0, <4>1, <5>3 DEF StopCloses, Listed
          <5> QED
            BY <3>1, <5>1, <5>2, <5>3 DEF StopStep
        <4> QED
          BY <1>0, <4>2, <4>3 DEF Listed
      <3>2. CASE Bind \/ KernelStep \/ CloseStep
                 \/ (\E p \in Peers, h \in Handles : Connect(p, h))
                 \/ (\E h \in Handles : HandlerCloses(h))
        <4>1. stop' = stop
          BY <3>2 DEF Bind, BindSucceeds, BindFails, KernelStep, Complete, CompleteFails, Deliver, CloseStep,
                      CloseCancels, CloseDeletes, CloseEnds, Connect, HandlerCloses
        <4> QED
          BY <1>0, <4>1 DEF Listed
      <3> QED
        BY <1>1, <3>1, <3>2 DEF Outside
    <2>5. RegIsHeld'
      BY <1>0, <2>1 DEF OnlyWakes, RegIsHeld
    <2>6. InOrder'
      BY <1>0, <2>1 DEF OnlyWakes, InOrder
    <2> QED
      BY <2>2, <2>3, <2>4, <2>5, <2>6 DEF Sound
  <1>2. CASE Start
    <2>1. Shape'
      BY <1>0, <1>2, StartKeepsShape
    <2>2. stop' = stop /\ reg' = reg
      BY <1>2 DEF Start, eventVars
    <2>3. PICK n \in Nat :
              /\ n + Len(socks) <= MaxLoops
              /\ \A a \in Loops : pc[a] # "none" <=> a <= n
              /\ \A a \in Loops : a <= n \/ a > n + Len(socks) => pc'[a] = pc[a] /\ loop'[a] = loop[a]
              /\ \A a \in Loops : a > n /\ a <= n + Len(socks) =>
                    /\ pc'[a] = "loop" /\ a - n \in 1..Len(socks)
                    /\ loop'[a] = [NoLoop EXCEPT !.obj = socks[a - n]]
      BY <1>2, StartsTheNext
    <2>4. /\ socks \in Seq(Objects) /\ Len(socks) \in Nat /\ MaxLoops \in Nat /\ Loops \subseteq Nat
          /\ \A i \in 1..Len(socks) : socks[i] \in Objects
      BY <1>0, ServerBounds DEF Shape, Loops
    <2>5. \A a \in Loops : \/ pc'[a] = pc[a] /\ loop'[a] = loop[a]
                           \/ pc[a] = "none" /\ pc'[a] = "loop" /\ loop'[a].obj \in Objects
      <3> SUFFICES ASSUME NEW a \in Loops
                   PROVE  \/ pc'[a] = pc[a] /\ loop'[a] = loop[a]
                          \/ pc[a] = "none" /\ pc'[a] = "loop" /\ loop'[a].obj \in Objects
        OBVIOUS
      <3>1. CASE a <= n \/ a > n + Len(socks)
        BY <2>3, <3>1
      <3>2. CASE a > n /\ a <= n + Len(socks)
        <4>1. /\ pc[a] = "none" /\ pc'[a] = "loop" /\ a - n \in 1..Len(socks)
              /\ loop'[a] = [NoLoop EXCEPT !.obj = socks[a - n]]
          BY <2>3, <2>4, <3>2
        <4> QED
          BY <2>4, <4>1 DEF NoLoop
      <3> QED
        BY <2>4, <3>1, <3>2
    <2>6. Working'
      BY <1>0, <2>5 DEF Working, Running
    <2>7. RegIsHeld'
      BY <1>0, <2>2, <2>5 DEF RegIsHeld, Shape
    <2>8. InOrder'
      <3>1. n + Len(socks) \in 0..MaxLoops
        BY <2>3, <2>4
      <3>2. ASSUME NEW a \in Loops
            PROVE  pc'[a] # "none" <=> a <= n + Len(socks)
        <4>1. a \in Nat
          BY <2>4
        <4>2. CASE a <= n
          BY <2>3, <2>4, <4>1, <4>2
        <4>3. CASE a > n + Len(socks)
          BY <2>3, <2>4, <4>1, <4>3
        <4>4. CASE a > n /\ a <= n + Len(socks)
          BY <2>3, <4>4
        <4> QED
          BY <2>3, <2>4, <4>1, <4>2, <4>3, <4>4
      <3> QED
        BY <3>1, <3>2 DEF InOrder
    <2>9. Listed'
      BY <1>0, <2>2 DEF Listed
    <2> QED
      BY <2>1, <2>6, <2>7, <2>8, <2>9 DEF Sound
  <1>3. ASSUME NEW a \in Loops, LoopStep(a)
        PROVE  Sound'
    <2>1. Shape'
      BY <1>3, LoopKeepsShape
    <2>2. pc \in [Loops -> Places] /\ loop \in [Loops -> LoopType] /\ stop' = stop
      BY <1>0, <1>3 DEF Shape, LoopStep, Leave, NewSocket, KeepCtx, MissCtx, MakeCtx, FindCtx, FindsNone, AcceptFails,
             AcceptReturns, AcceptSucceeds, AcceptPends, AddEvent, AddEventFails, HandOver, Crash
    <2>3. \A b \in Loops \ {a} : pc'[b] = pc[b] /\ loop'[b] = loop[b]
      BY <1>3, <2>2 DEF LoopStep, Goto, Leave, NewSocket, KeepCtx, MissCtx, MakeCtx, Proceed,
             FindCtx, FindsNone, AcceptFails,
             AcceptReturns, AcceptSucceeds, AcceptPends, AddEvent, AddEventFails, HandOver, Crash
    <2>4. pc[a] # "none" /\ pc'[a] # "none"
      BY <1>3, <2>2 DEF LoopStep, Goto, Leave, NewSocket, KeepCtx, MissCtx, MakeCtx, Proceed,
             FindCtx, FindsNone, AcceptFails,
             AcceptReturns, AcceptSucceeds, AcceptPends, AddEvent, AddEventFails, HandOver, Crash
    <2>5. /\ Running(a)' => loop'[a].obj \in Objects
          /\ pc'[a] \in {"issue", "add", "held"} => loop'[a].lfd \in Handles
          /\ pc'[a] \in {"ctx", "fill", "add", "held", "init"} => loop'[a].new \in Handles
      <3>0. /\ loop[a] \in LoopType
            /\ Running(a) => loop[a].obj \in Objects
            /\ pc[a] \in {"issue", "add", "held"} => loop[a].lfd \in Handles
            /\ pc[a] \in {"ctx", "fill", "add", "held", "init"} => loop[a].new \in Handles
        BY <1>0, <2>2 DEF Working
      <3>1. CASE NewSocket(a)
        <4>1. pc[a] = "loop" /\ loop[a].obj \in Objects
          BY <3>0, <3>1 DEF NewSocket, Running
        <4>2. CASE Free # {}
          <5>1. NextFree \in Handles
            BY <4>2, NextIsFree
          <5>2. loop' = [loop EXCEPT ![a].new = NextFree] /\ Goto(a, "ctx")
            BY <3>1, <4>2 DEF NewSocket
          <5> QED
            BY <2>2, <3>0, <4>1, <5>1, <5>2 DEF Goto, LoopType
        <4>3. CASE Free = {}
          <5>1. /\ loop' = [loop EXCEPT ![a].new = None, ![a].lfd = sock[loop[a].obj]]
                /\ Goto(a, "find")
            BY <3>1, <4>3 DEF NewSocket
          <5> QED
            BY <2>2, <3>0, <4>1, <5>1 DEF Goto, LoopType
        <4> QED
          BY <4>2, <4>3
      <3>2. CASE KeepCtx(a) \/ MissCtx(a) \/ MakeCtx(a)
        BY <2>2, <3>0, <3>2 DEF KeepCtx, MissCtx, MakeCtx, Proceed, Goto, Running, LoopType
      <3>3. CASE FindCtx(a)
        BY <2>2, <3>0, <3>3 DEF FindCtx, NoCtx, Goto, Running
      <3>4. CASE AcceptSucceeds(a) \/ AcceptPends(a)
        BY <2>2, <3>0, <3>4 DEF AcceptSucceeds, AcceptPends, CanAccept, Goto, Running, LoopType
      <3>5. CASE AddEvent(a)
        BY <2>2, <3>0, <3>5 DEF AddEvent, Goto, Running
      <3>6. CASE AcceptReturns(a) \/ HandOver(a)
        BY <2>2, <3>0, <3>6 DEF AcceptReturns, HandOver, Between, NoLoop, Goto, Running
      <3>7. CASE Leave(a) \/ AcceptFails(a)
        BY <2>2, <3>0, <3>7 DEF Leave, AcceptFails, Goto, Running
      <3>8. CASE FindsNone(a) \/ AddEventFails(a)
        BY <2>2, <3>0, <3>8 DEF FindsNone, AddEventFails, Crash, Running
      <3> QED
        BY <1>3, <3>1, <3>2, <3>3, <3>4, <3>5, <3>6, <3>7, <3>8 DEF LoopStep
    <2>6. RegIsHeld'
      <3>1. CASE AddEvent(a)
        <4>1. loop[a].lfd \in Handles /\ reg \in [Handles -> Loops \cup {None}]
          BY <1>0, <3>1 DEF AddEvent, Working, Shape
        <4>2. /\ reg' = [reg EXCEPT ![loop[a].lfd] = a] /\ loop' = loop
              /\ pc[a] = "add" /\ pc' = [pc EXCEPT ![a] = "held"]
          BY <3>1 DEF AddEvent, Goto
        <4> QED
          BY <1>0, <2>2, <4>1, <4>2 DEF RegIsHeld
      <3>2. CASE ~AddEvent(a)
        <4>1. reg' = reg
          BY <1>3, <3>2 DEF LoopStep, Leave, NewSocket, KeepCtx, MissCtx, MakeCtx, Proceed,
             FindCtx, FindsNone, AcceptFails,
             AcceptReturns, AcceptSucceeds, AcceptPends, AddEventFails, HandOver, Crash, eventVars
        <4>2. pc[a] # "held" \/ (pc'[a] = pc[a] /\ loop'[a] = loop[a])
          BY <1>3, <3>2 DEF LoopStep, Leave, NewSocket, KeepCtx, MissCtx, MakeCtx, Proceed,
             FindCtx, FindsNone, AcceptFails,
             AcceptReturns, AcceptSucceeds, AcceptPends, AddEventFails, HandOver, Crash
        <4> QED
          BY <1>0, <2>3, <4>1, <4>2 DEF RegIsHeld, Shape
      <3> QED
        BY <3>1, <3>2
    <2>7. Working' /\ InOrder' /\ Listed'
      BY <1>0, <2>2, <2>3, <2>4, <2>5 DEF Working, Running, InOrder, Listed
    <2> QED
      BY <2>1, <2>6, <2>7 DEF Sound
  <1>4. CASE UNCHANGED vars
    BY <1>0, <1>4 DEF Sound, Shape, Working, Listed, RegIsHeld, InOrder, Running, vars, apiVars, fdVars,
             eventVars, kernelVars, handVars
  <1> QED
    BY <1>1, <1>2, <1>3, <1>4 DEF Next, Outside

-----------------------------------------------------------------------------
(* No socket is lost.                                                      *)

(* The places between two calls of accept at which a loop has a socket in  *)
(* its local variable only.                                                *)
Accepting == {"ctx", "fill", "find", "issue", "add", "held", "init"}

(* The object whose descriptor a function of stop() is closing right now.  *)
Busy(o) == \E s \in Stops : stop[s].at = "closing" /\ Head(stop[s].left) = o

InUse(o) == o \in Range(socks) \/ \E a \in Loops : Running(a) /\ loop[a].obj = o

(* Who has a descriptor h and will close it or hand it over.               *)
ObjectHolds(h) == \E o \in Objects : InUse(o) /\ ~Busy(o) /\ sock[o] = h
LoopHolds(h)   == \E a \in Loops : pc[a] \in Accepting /\ loop[a].new = h
CloseHolds(h)  == \E c \in closing : c.fd = h
Holds(h)       == ObjectHolds(h) \/ LoopHolds(h) \/ h \in clients \/ CloseHolds(h)

Held == \A h \in Handles : kind[h] # "free" => Holds(h)

(* A socket without an FdCtx is about to get one, or has lost it to those  *)
(* who close it. This is why HandOver drops no socket that it finds        *)
(* without one.                                                            *)
AtCtx(h)  == \E a \in Loops : pc[a] \in {"ctx", "fill"} /\ loop[a].new = h
HasCtx(h) == datas[h] # None \/ CloseHolds(h) \/ AtCtx(h)

Known == \A h \in Handles : kind[h] # "free" => HasCtx(h)

(* AcceptEx is pending for open sockets only.                              *)
Live == \A i \in inflight : kind[i.new] # "free"

(* Objects that are not made yet are nobody's.                             *)
Made ==
    \A o \in Objects : o > made =>
        /\ o \notin Range(socks)
        /\ \A s \in Stops : o \notin Range(stop[s].left)
        /\ \A a \in Loops : Running(a) => loop[a].obj # o

Safe == Sound /\ Made /\ Live /\ Known /\ Held

LEMMA SafeInit == Init => Safe
  <1> SUFFICES ASSUME Init PROVE Safe
    OBVIOUS
  <1>1. Sound
    BY SoundInit
  <1>2. Range(<<>>) = {}
    BY EmptySeq DEF Range
  <1>3. Made
    BY <1>2 DEF Init, Made, Running
  <1> QED
    BY <1>1, <1>3 DEF Init, Safe, Live, Known, Held

LEMMA SeqFacts ==
    ASSUME NEW S, NEW q \in Seq(S)
    PROVE  /\ Range(q) \subseteq S
           /\ q # <<>> => Head(q) \in Range(q) /\ Range(Tail(q)) \subseteq Range(q)
           /\ \A r \in Seq(S) : Range(q \o r) = Range(q) \cup Range(r)
  <1>1. Range(q) \subseteq S
    BY DEF Range
  <1>2. ASSUME q # <<>>
        PROVE  Head(q) \in Range(q) /\ Range(Tail(q)) \subseteq Range(q)
    <2>1. /\ Head(q) = q[1] /\ Len(q) \in Nat \ {0} /\ DOMAIN q = 1..Len(q)
          /\ Len(Tail(q)) = Len(q) - 1 /\ DOMAIN Tail(q) = 1..Len(Tail(q))
          /\ \A i \in 1..Len(Tail(q)) : Tail(q)[i] = q[i + 1]
      BY <1>2, HeadTailProperties, EmptySeq, LenProperties
    <2>2. \A i \in 1..Len(Tail(q)) : i + 1 \in DOMAIN q
      BY <2>1
    <2>3. 1 \in DOMAIN q
      BY <2>1
    <2> QED
      BY <2>1, <2>2, <2>3 DEF Range
  <1>3. ASSUME NEW r \in Seq(S)
        PROVE  Range(q \o r) = Range(q) \cup Range(r)
    <2>1. /\ Len(q) \in Nat /\ Len(r) \in Nat /\ DOMAIN q = 1..Len(q) /\ DOMAIN r = 1..Len(r)
          /\ DOMAIN (q \o r) = 1..(Len(q) + Len(r))
          /\ \A i \in 1..(Len(q) + Len(r)) :
                (q \o r)[i] = IF i <= Len(q) THEN q[i] ELSE r[i - Len(q)]
      BY LenProperties, ConcatProperties
    <2>2. Range(q \o r) \subseteq Range(q) \cup Range(r)
      <3> SUFFICES ASSUME NEW i \in 1..(Len(q) + Len(r))
                   PROVE  (q \o r)[i] \in Range(q) \cup Range(r)
        BY <2>1 DEF Range
      <3>1. CASE i <= Len(q)
        BY <2>1, <3>1 DEF Range
      <3>2. CASE i > Len(q)
        <4>1. i - Len(q) \in 1..Len(r) /\ (q \o r)[i] = r[i - Len(q)]
          BY <2>1, <3>2
        <4> QED
          BY <2>1, <4>1 DEF Range
      <3> QED
        BY <2>1, <3>1, <3>2
    <2>3. Range(q) \subseteq Range(q \o r)
      <3>1. \A i \in 1..Len(q) : i \in 1..(Len(q) + Len(r)) /\ (q \o r)[i] = q[i]
        BY <2>1
      <3> QED
        BY <2>1, <3>1 DEF Range
    <2>4. Range(r) \subseteq Range(q \o r)
      <3> SUFFICES ASSUME NEW i \in 1..Len(r)
                   PROVE  r[i] \in Range(q \o r)
        BY <2>1 DEF Range
      <3>1. Len(q) + i \in 1..(Len(q) + Len(r)) /\ (q \o r)[Len(q) + i] = r[i]
        BY <2>1
      <3> QED
        BY <2>1, <3>1 DEF Range
    <2> QED
      BY <2>2, <2>3, <2>4
  <1> QED
    BY <1>1, <1>2, <1>3

(* What m_socks.clear() closes nobody holds afterwards.                    *)
LEMMA ClearKeeps ==
    ASSUME Safe, Clear, UNCHANGED <<pc, loop, clients, closing>>,
           \A o \in Objects : Busy(o)' => Busy(o)
    PROVE  Live' /\ Known' /\ Held'
  <1> DEFINE held == {loop[a].obj : a \in {b \in Loops : Running(b)}}
             dropped == {sock[o] : o \in Range(socks) \ held}
  <1>0. Shape /\ Live /\ Known /\ Held
    BY DEF Safe, Sound
  <1>1. Range(socks) \subseteq Objects
    BY <1>0, SeqFacts DEF Shape
  <1>2. /\ sock' = [o \in Objects |-> IF sock[o] \in dropped THEN None ELSE sock[o]]
        /\ kind' = [h \in Handles |-> IF h \in dropped THEN "free" ELSE kind[h]]
        /\ datas' = [h \in Handles |-> IF h \in dropped THEN None ELSE datas[h]]
        /\ inflight' = {i \in inflight : i.lfd \notin dropped /\ i.new \notin dropped}
    BY DEF Clear
  <1>3. \A o \in Objects : o \in held <=> \E a \in Loops : Running(a) /\ loop[a].obj = o
    OBVIOUS
  <1>4. \A o \in Range(socks) : o \in held \/ sock[o] \in dropped
    OBVIOUS
  <1>5. \A a \in Loops : Running(a)' <=> Running(a)
    BY DEF Running
  <1> HIDE DEF held, dropped
  <1>6. \A h \in Handles : kind'[h] # "free" => kind[h] # "free" /\ h \notin dropped
    BY <1>2
  <1>7. Live'
    BY <1>0, <1>2 DEF Live, Shape, PendingType
  <1>8. Known'
    BY <1>0, <1>2, <1>6 DEF Known, HasCtx, CloseHolds, AtCtx
  <1>9. Held'
    <2> SUFFICES ASSUME NEW h \in Handles, kind'[h] # "free"
                 PROVE  Holds(h)'
      BY DEF Held
    <2>1. Holds(h) /\ h \notin dropped
      BY <1>0, <1>6 DEF Held
    <2>2. CASE ObjectHolds(h)
      <3>1. PICK o \in Objects : InUse(o) /\ ~Busy(o) /\ sock[o] = h
        BY <2>2 DEF ObjectHolds
      <3>2. sock'[o] = h /\ ~Busy(o)'
        BY <1>2, <2>1, <3>1
      <3>3. \E a \in Loops : Running(a) /\ loop[a].obj = o
        BY <1>3, <1>4, <2>1, <3>1 DEF InUse
      <3>4. InUse(o)'
        BY <1>5, <3>3 DEF InUse
      <3> QED
        BY <3>2, <3>4 DEF ObjectHolds, Holds
    <2>3. CASE LoopHolds(h) \/ h \in clients \/ CloseHolds(h)
      BY <2>3 DEF LoopHolds, CloseHolds, Holds
    <2> QED
      BY <2>1, <2>2, <2>3 DEF Holds
  <1> QED
    BY <1>7, <1>8, <1>9

LEMMA BindKeepsSafe ==
    ASSUME Safe, Bind
    PROVE  Made' /\ Live' /\ Known' /\ Held'
  <1>0. Shape /\ Made /\ Live /\ Known /\ Held
    BY DEF Safe, Sound
  <1>1. ASSUME NEW fd \in [1..Cardinality(Addrs) -> Free], NEW passed, BindSucceeds(passed, fd)
        PROVE  Made' /\ Live' /\ Known' /\ Held'
    <2> DEFINE n == Cardinality(Addrs)
               new == [i \in DOMAIN fd |-> made + i]
    <2>1. n \in Nat
      BY ServerBounds, FS_CardinalityType
    <2> HIDE DEF n
    <2>2. fd \in [1..n -> Free] /\ Free \subseteq Handles /\ DOMAIN fd = 1..n /\ Len(fd) = n
      <3>1. fd \in [1..n -> Free] /\ Free \subseteq Handles
        BY DEF Free, n
      <3> QED
        BY <2>1, <3>1, IsASeq
    <2>3. n \in Nat /\ made \in Nat /\ made + n <= MaxObjects /\ MaxObjects \in Nat /\ Objects = 1..MaxObjects
      BY <1>0, <1>1, <2>1, ServerBounds DEF BindSucceeds, Shape, n, Objects
    <2>4. \A i \in 1..n : made + i \in Objects /\ new[i] = made + i
      BY <2>2, <2>3
    <2>5. new \in Seq(Objects)
      BY <2>2, <2>3, <2>4, IsASeq
    <2>6. /\ socks' = socks \o new /\ made' = made + n
          /\ sock' = [o \in Objects |-> IF o - made \in 1..n THEN fd[o - made] ELSE sock[o]]
          /\ kind' = [h \in Handles |-> IF h \in Range(fd) THEN "listening" ELSE kind[h]]
          /\ datas' = [h \in Handles |-> IF h \in Range(fd) /\ datas[h] = None THEN NewCtx
                                         ELSE datas[h]]
          /\ UNCHANGED <<pc, loop, stop, closing, inflight, clients>>
      BY <1>1, <2>2 DEF BindSucceeds, handVars
    <2> HIDE DEF new
    <2>7. Range(socks') = Range(socks) \cup Range(new)
      BY <1>0, <2>5, <2>6, SeqFacts DEF Shape
    <2>8. Range(new) = {made + i : i \in 1..n}
      BY <2>2, <2>4 DEF Range, new
    <2>9. Made'
      <3> SUFFICES ASSUME NEW o \in Objects, o > made'
                   PROVE  /\ o \notin Range(socks')
                          /\ \A s \in Stops : o \notin Range(stop'[s].left)
                          /\ \A a \in Loops : Running(a)' => loop'[a].obj # o
        BY DEF Made
      <3>1. o > made /\ o \notin Range(new)
        BY <2>3, <2>6, <2>8
      <3> QED
        BY <1>0, <2>6, <2>7, <3>1 DEF Made, Running
    <2>10. \A h \in Handles : kind[h] # "free" => kind'[h] # "free"
      BY <2>6
    <2>11. Live'
      BY <1>0, <2>6, <2>10 DEF Live, Shape, PendingType
    <2>12. Known'
      BY <1>0, <2>6, CtxNotNone DEF Known, HasCtx, CloseHolds, AtCtx
    <2>13. Held'
      <3> SUFFICES ASSUME NEW h \in Handles, kind'[h] # "free"
                   PROVE  Holds(h)'
        BY DEF Held
      <3>1. CASE h \in Range(fd)
        <4>1. PICK i \in 1..n : fd[i] = h
          BY <2>2, <3>1 DEF Range
        <4>2. PICK o \in Objects : o = made + i
          BY <2>4
        <4>3. o > made /\ o - made = i
          BY <2>3, <4>2
        <4>4. sock'[o] = h
          BY <2>6, <4>1, <4>3
        <4>5. InUse(o)'
          BY <2>7, <2>8, <4>2 DEF InUse
        <4>6. ~Busy(o)'
          <5> SUFFICES ASSUME NEW s \in Stops, stop[s].at = "closing", Head(stop[s].left) = o
                       PROVE  FALSE
            BY <2>6 DEF Busy
          <5>1. stop[s].left \in Seq(Objects) /\ stop[s].left # <<>>
            BY <1>0 DEF Safe, Sound, Shape, Listed
          <5>2. o \in Range(stop[s].left)
            BY <5>1, SeqFacts
          <5> QED
            BY <1>0, <4>3, <5>2 DEF Made
        <4> QED
          BY <4>4, <4>5, <4>6 DEF Holds, ObjectHolds
      <3>2. CASE h \notin Range(fd)
        <4>1. Holds(h)
          BY <1>0, <2>6, <3>2 DEF Held
        <4>2. CASE ObjectHolds(h)
          <5>1. PICK o \in Objects : InUse(o) /\ ~Busy(o) /\ sock[o] = h
            BY <4>2 DEF ObjectHolds
          <5>2. o <= made
            BY <1>0, <2>3, <5>1 DEF Made, InUse
          <5>3. sock'[o] = h
            BY <2>3, <2>6, <5>1, <5>2
          <5>4. InUse(o)' /\ ~Busy(o)'
            BY <2>6, <2>7, <5>1 DEF InUse, Busy, Running
          <5> QED
            BY <5>3, <5>4 DEF Holds, ObjectHolds
        <4>3. CASE LoopHolds(h) \/ h \in clients \/ CloseHolds(h)
          BY <2>6, <4>3 DEF LoopHolds, CloseHolds, Holds
        <4> QED
          BY <4>1, <4>2, <4>3 DEF Holds
      <3> QED
        BY <3>1, <3>2
    <2> QED
      BY <2>9, <2>11, <2>12, <2>13
  <1>2. ASSUME NEW F, NEW passed, BindFails(F, passed)
        PROVE  Made' /\ Live' /\ Known' /\ Held'
    <2>1. UNCHANGED <<pc, loop, clients, closing, stop, made>> /\ Clear /\ socks' = <<>>
      BY <1>2 DEF BindFails, handVars, Clear
    <2>2. Range(socks') = {}
      BY <2>1, EmptySeq DEF Range
    <2>3. Made'
      BY <1>0, <2>1, <2>2 DEF Made, Running
    <2> QED
      BY <2>1, <2>3, ClearKeeps DEF Busy
  <1> QED
    BY <1>1, <1>2 DEF Bind

LEMMA StopKeepsSafe ==
    ASSUME Safe, NEW s \in Stops, Stop(s) \/ StopStep(s)
    PROVE  Made' /\ Live' /\ Known' /\ Held'
  <1> DEFINE StopType == [at : StopPlaces, left : Seq(Objects)]
  <1>0. /\ Shape /\ Made /\ Live /\ Known /\ Held /\ Sound
        /\ stop \in [Stops -> StopType] /\ stop[s].left \in Seq(Objects)
    BY DEF Safe, Sound, Shape
  <1>1. CASE StopEnds(s)
    <2>1. /\ UNCHANGED <<pc, loop, clients, closing, made>> /\ Clear /\ socks' = <<>>
          /\ stop' = [stop EXCEPT ![s] = [at |-> "done", left |-> <<>>]]
      BY <1>1 DEF StopEnds, handVars, Clear
    <2>2. Range(socks') = {} /\ Range(<<>>) = {}
      BY <2>1, EmptySeq DEF Range
    <2>3. \A t \in Stops : stop'[t] = IF t = s THEN [at |-> "done", left |-> <<>>] ELSE stop[t]
      BY <1>0, <2>1
    <2>4. Made'
      BY <1>0, <2>1, <2>2, <2>3 DEF Made, Running
    <2>5. \A o \in Objects : Busy(o)' => Busy(o)
      BY <2>3 DEF Busy
    <2> QED
      BY <2>1, <2>4, <2>5, ClearKeeps
  <1>2. CASE ~StopEnds(s)
    <2>1. /\ UNCHANGED <<socks, made, loop, clients, kind, datas>>
          /\ \A t \in Stops : t # s => stop'[t] = stop[t]
          /\ closing \subseteq closing' /\ inflight' \subseteq inflight
      <3>1. CASE StopCancels(s)
        <4>1. inflight' \subseteq inflight
          BY <1>0, <3>1, CancelsTyped DEF StopCancels
        <4> QED
          BY <1>0, <3>1, <4>1 DEF StopCancels, apiVars, fdVars, handVars
      <3>2. CASE Stop(s) \/ StopBegins(s) \/ StopCloses(s) \/ StopForgets(s)
        BY <1>0, <3>2 DEF Stop, StopBegins, StopCloses, StopForgets, apiVars, fdVars, kernelVars,
                          handVars
      <3> QED
        BY <1>2, <3>1, <3>2 DEF StopStep
    <2>2. OnlyWakes
      BY <1>0, OutsideOnlyWakes DEF Outside
    <2>3. (\A a \in Loops : Running(a)' <=> Running(a)) /\ (\A h \in Handles : LoopHolds(h) => LoopHolds(h)')
      BY <2>2 DEF OnlyWakes, Running, LoopHolds, Accepting
    <2>4. \A h \in Handles : AtCtx(h) => AtCtx(h)'
      BY <2>2 DEF OnlyWakes, AtCtx
    <2>5. Range(stop'[s].left) \subseteq Range(stop[s].left) \cup Range(socks)
      <3>1. CASE Stop(s) \/ StopBegins(s) \/ StopCancels(s)
        BY <1>0, <3>1 DEF Stop, StopBegins, StopCancels
      <3>2. CASE StopCloses(s) \/ StopForgets(s)
        <4>1. stop[s].left # <<>>
          BY <1>0, <3>2 DEF StopCloses, StopForgets, Sound, Listed
        <4>2. Range(Tail(stop[s].left)) \subseteq Range(stop[s].left)
          BY <1>0, <4>1, SeqFacts
        <4>3. stop'[s].left \in {stop[s].left, Tail(stop[s].left)}
          BY <1>0, <3>2 DEF StopCloses, StopForgets
        <4> QED
          BY <4>2, <4>3
      <3> QED
        BY <1>2, <3>1, <3>2 DEF Stop, StopStep
    <2>6. Made'
      <3> SUFFICES ASSUME NEW o \in Objects, o > made'
                   PROVE  /\ o \notin Range(socks')
                          /\ \A t \in Stops : o \notin Range(stop'[t].left)
                          /\ \A a \in Loops : Running(a)' => loop'[a].obj # o
        BY DEF Made
      <3>1. o > made
        BY <2>1
      <3>2. \A t \in Stops : o \notin Range(stop'[t].left)
        BY <1>0, <2>1, <2>5, <3>1 DEF Made
      <3> QED
        BY <1>0, <2>1, <2>3, <3>1, <3>2 DEF Made
    <2>7. Live'
      BY <1>0, <2>1 DEF Live
    <2>8. \A h \in Handles : CloseHolds(h) => CloseHolds(h)'
      BY <2>1 DEF CloseHolds
    <2>9. Known'
      BY <1>0, <2>1, <2>4, <2>8 DEF Known, HasCtx
    <2>10. \A o \in Objects : InUse(o) => InUse(o)'
      BY <2>1, <2>3 DEF InUse
    <2>11. ASSUME NEW h \in Handles, ObjectHolds(h)
           PROVE  Holds(h)'
      <3>1. PICK o \in Objects : InUse(o) /\ ~Busy(o) /\ sock[o] = h
        BY <2>11 DEF ObjectHolds
      <3>2. CASE Stop(s) \/ StopBegins(s) \/ StopCancels(s)
        <4>1. sock' = sock /\ stop'[s].at # "closing"
          BY <1>0, <3>2 DEF Stop, StopBegins, StopCancels
        <4>2. ~Busy(o)'
          BY <2>1, <3>1, <4>1 DEF Busy
        <4> QED
          BY <2>10, <3>1, <4>1, <4>2 DEF ObjectHolds, Holds
      <3>3. CASE StopForgets(s)
        <4>1. stop'[s].at = "cancel" /\ sock' = [sock EXCEPT ![Head(stop[s].left)] = None]
          BY <1>0, <3>3 DEF StopForgets
        <4>2. o # Head(stop[s].left)
          BY <3>1, <3>3 DEF Busy, StopForgets
        <4>3. sock'[o] = h
          BY <1>0, <3>1, <4>1, <4>2 DEF Shape
        <4>4. ~Busy(o)'
          BY <2>1, <3>1, <4>1 DEF Busy
        <4> QED
          BY <2>10, <3>1, <4>3, <4>4 DEF ObjectHolds, Holds
      <3>4. CASE StopCloses(s)
        <4>1. stop[s].at = "close" /\ stop[s].left # <<>> /\ sock' = sock
          BY <1>0, <3>4 DEF StopCloses, Sound, Listed
        <4>2. CASE sock[Head(stop[s].left)] = None
          <5>1. stop'[s].at = "cancel"
            BY <1>0, <3>4, <4>2 DEF StopCloses
          <5>2. ~Busy(o)'
            BY <2>1, <3>1, <5>1 DEF Busy
          <5> QED
            BY <2>10, <3>1, <4>1, <5>2 DEF ObjectHolds, Holds
        <4>3. CASE sock[Head(stop[s].left)] # None /\ o # Head(stop[s].left)
          <5>1. stop'[s].left = stop[s].left
            BY <1>0, <3>4, <4>3 DEF StopCloses
          <5>2. ~Busy(o)'
            BY <2>1, <3>1, <4>3, <5>1 DEF Busy
          <5> QED
            BY <2>10, <3>1, <4>1, <5>2 DEF ObjectHolds, Holds
        <4>4. CASE sock[Head(stop[s].left)] # None /\ o = Head(stop[s].left)
          <5>1. Close(h, <<"stop", s>>) \in closing'
            BY <3>1, <3>4, <4>4 DEF StopCloses
          <5>2. Close(h, <<"stop", s>>).fd = h
            BY DEF Close
          <5> QED
            BY <5>1, <5>2 DEF CloseHolds, Holds
        <4> QED
          BY <4>2, <4>3, <4>4
      <3> QED
        BY <1>2, <3>2, <3>3, <3>4 DEF Stop, StopStep
    <2>12. Held'
      BY <1>0, <2>1, <2>3, <2>8, <2>11 DEF Held, Holds
    <2> QED
      BY <2>6, <2>7, <2>9, <2>12
  <1> QED
    BY <1>1, <1>2

LEMMA CloseKeepsSafe ==
    ASSUME Safe, NEW c \in closing, CloseCancels(c) \/ CloseDeletes(c) \/ CloseEnds(c)
    PROVE  Made' /\ Live' /\ Known' /\ Held'
  <1>0. Shape /\ Made /\ Live /\ Known /\ Held /\ Sound /\ c \in CloseType /\ c.fd \in Handles
    BY DEF Safe, Sound, Shape, CloseType
  <1>1. UNCHANGED <<socks, made, sock, loop, stop, clients>>
    BY DEF CloseCancels, CloseDeletes, CloseEnds, apiVars, handVars
  <1>2. OnlyWakes
    BY <1>0, OutsideOnlyWakes DEF Outside, CloseStep
  <1>3. /\ \A a \in Loops : Running(a)' <=> Running(a)
        /\ \A h \in Handles : LoopHolds(h) => LoopHolds(h)'
        /\ \A h \in Handles : AtCtx(h) => AtCtx(h)'
    BY <1>2 DEF OnlyWakes, Running, LoopHolds, Accepting, AtCtx
  <1>4. Made'
    BY <1>0, <1>1, <1>3 DEF Made
  <1>5. \A h \in Handles : ObjectHolds(h) => ObjectHolds(h)'
    BY <1>1, <1>3 DEF ObjectHolds, InUse, Busy
  <1>6. ASSUME CloseCancels(c) \/ CloseDeletes(c)
        PROVE  Live' /\ Known' /\ Held'
    <2>1. PICK l \in {"close", "del"} : closing' = (closing \ {c}) \cup {[c EXCEPT !.at = l]}
      BY <1>6 DEF CloseCancels, CloseDeletes
    <2>2. [c EXCEPT !.at = l].fd = c.fd
      BY <1>0, <2>1, CloseTyped
    <2>3. \A h \in Handles : CloseHolds(h) => CloseHolds(h)'
      BY <2>1, <2>2 DEF CloseHolds
    <2>4. CloseHolds(c.fd)
      BY DEF CloseHolds
    <2>5. kind' = kind /\ inflight' \subseteq inflight
      <3>1. CASE CloseCancels(c)
        BY <1>0, <3>1, CancelsTyped DEF CloseCancels
      <3>2. CASE CloseDeletes(c)
        BY <3>2 DEF CloseDeletes, kernelVars
      <3> QED
        BY <1>6, <3>1, <3>2
    <2>6. \A h \in Handles : h = c.fd \/ datas'[h] = datas[h]
      BY <1>0, <1>6 DEF CloseCancels, CloseDeletes, Shape
    <2>7. Known'
      BY <1>0, <1>3, <2>3, <2>4, <2>5, <2>6 DEF Known, HasCtx
    <2>8. Held'
      BY <1>0, <1>1, <1>3, <1>5, <2>3, <2>5 DEF Held, Holds
    <2> QED
      BY <1>0, <2>5, <2>7, <2>8 DEF Live
  <1>7. ASSUME CloseEnds(c)
        PROVE  Live' /\ Known' /\ Held'
    <2>1. /\ closing' = closing \ {c} /\ kind' = [kind EXCEPT ![c.fd] = "free"]
          /\ inflight' = {i \in inflight : c.fd \notin {i.lfd, i.new}}
      BY <1>7 DEF CloseEnds
    <2>2. \A h \in Handles : kind'[h] # "free" => h # c.fd /\ kind[h] # "free"
      BY <1>0, <2>1 DEF Shape
    <2>3. \A h \in Handles : h # c.fd /\ CloseHolds(h) => CloseHolds(h)'
      BY <2>1 DEF CloseHolds
    <2>4. \A h \in Handles : h # c.fd => datas'[h] = datas[h]
      BY <1>0, <1>7 DEF CloseEnds, Shape
    <2>5. Known'
      BY <1>0, <1>3, <2>2, <2>3, <2>4 DEF Known, HasCtx
    <2>6. Held'
      BY <1>0, <1>1, <1>3, <1>5, <2>2, <2>3 DEF Held, Holds
    <2>7. Live'
      BY <1>0, <2>1 DEF Live, Shape
    <2> QED
      BY <2>5, <2>6, <2>7
  <1> QED
    BY <1>4, <1>6, <1>7

LEMMA OthersKeepSafe ==
    ASSUME Safe,
           \/ KernelStep
           \/ \E p \in Peers, h \in Handles : Connect(p, h)
           \/ \E h \in Handles : HandlerCloses(h)
    PROVE  Made' /\ Live' /\ Known' /\ Held'
  <1>0. Shape /\ Made /\ Live /\ Known /\ Held /\ Sound
    BY DEF Safe, Sound
  <1>1. UNCHANGED <<socks, made, sock, loop, stop, datas>>
    BY DEF KernelStep, Complete, CompleteFails, Deliver, Connect, HandlerCloses, apiVars, fdVars
  <1>2. OnlyWakes
    BY <1>0, OutsideOnlyWakes DEF Outside
  <1>3. /\ \A a \in Loops : Running(a)' <=> Running(a)
        /\ \A h \in Handles : LoopHolds(h) => LoopHolds(h)'
        /\ \A h \in Handles : AtCtx(h) => AtCtx(h)'
    BY <1>2 DEF OnlyWakes, Running, LoopHolds, Accepting, AtCtx
  <1>4. Made'
    BY <1>0, <1>1, <1>3 DEF Made
  <1>5. \A h \in Handles : ObjectHolds(h) => ObjectHolds(h)'
    BY <1>1, <1>3 DEF ObjectHolds, InUse, Busy
  <1>6. closing \subseteq closing'
    BY DEF KernelStep, Complete, CompleteFails, Deliver, Connect, HandlerCloses, fdVars
  <1>7. \A h \in Handles : CloseHolds(h) => CloseHolds(h)'
    BY <1>6 DEF CloseHolds
  <1>8. \A h \in Handles : kind'[h] # "free" <=> kind[h] # "free"
    <2>1. ASSUME NEW i \in inflight, NEW p \in Peers, Complete(i, p)
          PROVE  \A h \in Handles : kind'[h] # "free" <=> kind[h] # "free"
      BY <1>0, <2>1 DEF Complete, Connected, Live, Shape
    <2>2. CASE \/ \E q \in port : Deliver(q)
               \/ \E i \in inflight, p \in Peers : CompleteFails(i, p)
               \/ \E p \in Peers, h \in Handles : Connect(p, h)
               \/ \E h \in Handles : HandlerCloses(h)
      BY <2>2 DEF Deliver, CompleteFails, Connect, HandlerCloses, kernelVars
    <2> QED
      BY <2>1, <2>2 DEF KernelStep
  <1>9. inflight' \subseteq inflight
    BY DEF KernelStep, Complete, CompleteFails, Deliver, Connect, HandlerCloses, kernelVars
  <1>10. Live'
    BY <1>0, <1>8, <1>9 DEF Live, Shape, PendingType
  <1>11. Known'
    BY <1>0, <1>1, <1>3, <1>7, <1>8 DEF Known, HasCtx
  <1>12. ASSUME NEW h \in clients
         PROVE  Holds(h)'
    <2>1. CASE HandlerCloses(h)
      <3>1. Close(h, <<"handler", h>>) \in closing' /\ Close(h, <<"handler", h>>).fd = h
        BY <2>1 DEF HandlerCloses, Close
      <3> QED
        BY <3>1 DEF Holds, CloseHolds
    <2>2. CASE ~HandlerCloses(h)
      <3>1. h \in clients'
        BY <2>2 DEF KernelStep, Complete, CompleteFails, Deliver, Connect, HandlerCloses, handVars
      <3> QED
        BY <3>1 DEF Holds
    <2> QED
      BY <2>1, <2>2
  <1>13. Held'
    BY <1>0, <1>3, <1>5, <1>7, <1>8, <1>12 DEF Held, Holds
  <1> QED
    BY <1>4, <1>10, <1>11, <1>13

LEMMA StartKeepsSafe ==
    ASSUME Safe, Start
    PROVE  Made' /\ Live' /\ Known' /\ Held'
  <1>0. Shape /\ Made /\ Live /\ Known /\ Held /\ Sound
    BY DEF Safe, Sound
  <1>1. UNCHANGED <<socks, made, sock, stop, datas, closing, kind, inflight, clients>>
    BY DEF Start, fdVars, kernelVars, handVars
  <1>2. PICK n \in Nat :
            /\ n + Len(socks) <= MaxLoops
            /\ \A a \in Loops : pc[a] # "none" <=> a <= n
            /\ \A a \in Loops : a <= n \/ a > n + Len(socks) => pc'[a] = pc[a] /\ loop'[a] = loop[a]
            /\ \A a \in Loops : a > n /\ a <= n + Len(socks) =>
                  /\ pc'[a] = "loop" /\ a - n \in 1..Len(socks)
                  /\ loop'[a] = [NoLoop EXCEPT !.obj = socks[a - n]]
    BY <1>0, StartsTheNext
  <1>3. ASSUME NEW a \in Loops
        PROVE  \/ pc'[a] = pc[a] /\ loop'[a] = loop[a]
               \/ pc[a] = "none" /\ pc'[a] = "loop" /\ loop'[a].obj \in Range(socks)
    <2>1. socks \in Seq(Objects) /\ Len(socks) \in Nat /\ a \in Nat /\ DOMAIN socks = 1..Len(socks)
      BY <1>0 DEF Shape, Loops
    <2>2. CASE a <= n \/ a > n + Len(socks)
      BY <1>2, <2>2
    <2>3. CASE a > n /\ a <= n + Len(socks)
      <3>1. /\ pc[a] = "none" /\ pc'[a] = "loop" /\ a - n \in 1..Len(socks)
            /\ loop'[a] = [NoLoop EXCEPT !.obj = socks[a - n]]
        BY <1>2, <2>1, <2>3
      <3>2. socks[a - n] \in Range(socks)
        BY <2>1, <3>1 DEF Range
      <3> QED
        BY <3>1, <3>2 DEF NoLoop
    <2> QED
      BY <1>2, <2>1, <2>2, <2>3
  <1>4. Made'
    BY <1>0, <1>1, <1>3 DEF Made, Running
  <1>5. Live' /\ Known'
    BY <1>0, <1>1, <1>3 DEF Live, Known, HasCtx, CloseHolds, AtCtx
  <1>6. Held'
    BY <1>0, <1>1, <1>3 DEF Held, Holds, ObjectHolds, InUse, Busy, Running, LoopHolds, Accepting, CloseHolds
  <1> QED
    BY <1>4, <1>5, <1>6

LEMMA LoopFrame ==
    ASSUME Sound, NEW a \in Loops, LoopStep(a)
    PROVE  /\ UNCHANGED <<apiVars, stop>>
           /\ \A b \in Loops : b # a => pc'[b] = pc[b] /\ loop'[b] = loop[b]
           /\ Running(a) /\ loop'[a].obj = loop[a].obj
           /\ closing \subseteq closing'
           /\ ~Leave(a) => sock' = sock /\ Running(a)'
  <1>0. pc \in [Loops -> Places] /\ loop \in [Loops -> LoopType]
    BY DEF Sound, Shape
  <1>1. UNCHANGED <<apiVars, stop>> /\ closing \subseteq closing' /\ (~Leave(a) => sock' = sock)
    BY DEF LoopStep, Leave, NewSocket, KeepCtx, MissCtx, MakeCtx, Proceed,
             FindCtx, FindsNone, AcceptFails, AcceptReturns,
           AcceptSucceeds, AcceptPends, AddEvent, AddEventFails, HandOver, Crash, fdVars
  <1>2. \A b \in Loops : b # a => pc'[b] = pc[b] /\ loop'[b] = loop[b]
    BY <1>0 DEF LoopStep, Goto, Leave, NewSocket, KeepCtx, MissCtx, MakeCtx, Proceed,
             FindCtx, FindsNone, AcceptFails,
           AcceptReturns, AcceptSucceeds, AcceptPends, AddEvent, AddEventFails, HandOver, Crash
  <1>3. Running(a) /\ (~Leave(a) => Running(a)')
    BY <1>0 DEF LoopStep, Goto, Leave, NewSocket, KeepCtx, MissCtx, MakeCtx, Proceed,
             FindCtx, FindsNone, AcceptFails,
           AcceptReturns, AcceptSucceeds, AcceptPends, AddEvent, AddEventFails, HandOver, Crash, Running
  <1>4. loop'[a].obj = loop[a].obj
    <2>1. CASE NewSocket(a) \/ KeepCtx(a) \/ MakeCtx(a)
      BY <1>0, <2>1 DEF NewSocket, KeepCtx, MakeCtx, Proceed, LoopType
    <2>2. CASE AcceptReturns(a) \/ HandOver(a)
      BY <1>0, <2>2 DEF AcceptReturns, HandOver, Between, NoLoop
    <2>3. CASE loop' = loop
      BY <2>3
    <2> QED
      BY <2>1, <2>2, <2>3 DEF LoopStep, Leave, MissCtx, FindCtx, FindsNone, AcceptFails,
           AcceptSucceeds, AcceptPends, AddEvent, AddEventFails, Crash
  <1> QED
    BY <1>1, <1>2, <1>3, <1>4

(* A loop that leaves passes its socket on: to m_socks, to another loop or *)
(* to ~Socket.                                                             *)
LEMMA LeaveKeepsObjects ==
    ASSUME Safe, NEW a \in Loops, Leave(a), NEW h \in Handles, ObjectHolds(h)
    PROVE  Holds(h)'
  <1>0. Shape /\ Sound /\ pc \in [Loops -> Places]
    BY DEF Safe, Sound, Shape
  <1>1. /\ UNCHANGED <<socks, stop, loop>> /\ pc' = [pc EXCEPT ![a] = "done"]
        /\ Running(a)
    BY DEF Leave, apiVars, Goto, Running
  <1>2. \A b \in Loops : b # a => (Running(b)' <=> Running(b))
    BY <1>0, <1>1 DEF Running
  <1>3. PICK o \in Objects : InUse(o) /\ ~Busy(o) /\ sock[o] = h
    BY DEF ObjectHolds
  <1>4. ~Busy(o)'
    BY <1>1, <1>3 DEF Busy
  <1>5. CASE LastHolder(a) /\ o = loop[a].obj
    <2>1. Close(h, <<"loop", a>>) \in closing' /\ Close(h, <<"loop", a>>).fd = h
      BY <1>3, <1>5 DEF Leave, Close
    <2> QED
      BY <2>1 DEF CloseHolds, Holds
  <1>6. CASE ~(LastHolder(a) /\ o = loop[a].obj)
    <2>1. sock'[o] = h
      <3>1. CASE LastHolder(a)
        <4>1. sock' = [sock EXCEPT ![loop[a].obj] = None]
          BY <3>1 DEF Leave
        <4> QED
          BY <1>0, <1>3, <1>6, <3>1, <4>1 DEF Shape
      <3>2. CASE ~LastHolder(a)
        BY <1>3, <3>2 DEF Leave
      <3> QED
        BY <3>1, <3>2
    <2>2. h # None
      BY ServerBounds
    <2>3. o \in Range(socks) \/ \E b \in Loops \ {a} : Running(b) /\ loop[b].obj = o
      BY <1>1, <1>3, <1>6, <2>2 DEF InUse, LastHolder
    <2>4. InUse(o)'
      BY <1>1, <1>2, <2>3 DEF InUse
    <2> QED
      BY <1>4, <2>1, <2>4 DEF ObjectHolds, Holds
  <1> QED
    BY <1>5, <1>6

LEMMA LoopKeepsSafe ==
    ASSUME Safe, NEW a \in Loops, LoopStep(a)
    PROVE  Made' /\ Live' /\ Known' /\ Held'
  <1>0. /\ Shape /\ Made /\ Live /\ Known /\ Held /\ Sound /\ Working
        /\ pc \in [Loops -> Places] /\ loop \in [Loops -> LoopType] /\ loop[a] \in LoopType
        /\ pc[a] \in {"ctx", "fill", "add", "held", "init"} => loop[a].new \in Handles
    BY DEF Safe, Sound, Shape, Working
  <1>1. /\ UNCHANGED <<apiVars, stop>>
        /\ \A b \in Loops : b # a => pc'[b] = pc[b] /\ loop'[b] = loop[b]
        /\ Running(a) /\ loop'[a].obj = loop[a].obj
        /\ closing \subseteq closing'
        /\ ~Leave(a) => sock' = sock /\ Running(a)'
    BY <1>0, LoopFrame
  <1>2. \A b \in Loops : Running(b)' => Running(b) /\ loop'[b].obj = loop[b].obj
    BY <1>1 DEF Running
  <1>3. Made'
    BY <1>0, <1>1, <1>2 DEF Made, apiVars
  <1>4. \A h \in Handles : CloseHolds(h) => CloseHolds(h)'
    BY <1>1 DEF CloseHolds
  <1>5. ASSUME NEW h \in Handles, ObjectHolds(h)
        PROVE  Holds(h)'
    <2>1. CASE Leave(a)
      BY <1>5, <2>1, LeaveKeepsObjects
    <2>2. CASE ~Leave(a)
      <3>1. PICK o \in Objects : InUse(o) /\ ~Busy(o) /\ sock[o] = h
        BY <1>5 DEF ObjectHolds
      <3>2. \A b \in Loops : Running(b) => Running(b)' /\ loop'[b].obj = loop[b].obj
        BY <1>1, <2>2 DEF Running
      <3>3. InUse(o)' /\ ~Busy(o)' /\ sock'[o] = h
        BY <1>1, <2>2, <3>1, <3>2 DEF InUse, Busy, apiVars
      <3> QED
        BY <3>3 DEF ObjectHolds, Holds
    <2> QED
      BY <2>1, <2>2
  <1>6. clients \subseteq clients'
    BY DEF LoopStep, Leave, NewSocket, KeepCtx, MissCtx, MakeCtx, Proceed,
             FindCtx, FindsNone, AcceptFails, AcceptReturns,
           AcceptSucceeds, AcceptPends, AddEvent, AddEventFails, HandOver, Crash, handVars
  (* The loop's own socket: it goes on with it, hands it over or closes it; and
     drops one that has no FdCtx, which others close or are about to open. *)
  <1>7. ASSUME NEW h \in Handles, pc[a] \in Accepting, loop[a].new = h, kind[h] # "free"
        PROVE  Holds(h)'
    <2>1. CASE loop'[a].new = h /\ pc'[a] \in Accepting
      BY <2>1 DEF LoopHolds, Holds
    <2>2. CASE AcceptFails(a)
      <3>1. loop[a].new # None
        BY <1>7, ServerBounds
      <3>2. Close(h, <<"loop", a>>) \in closing' /\ Close(h, <<"loop", a>>).fd = h
        BY <1>7, <2>2, <3>1 DEF AcceptFails, Close
      <3> QED
        BY <3>2 DEF CloseHolds, Holds
    <2>3. CASE HandOver(a)
      <3>1. CASE datas[h] # None
        <4>1. h \in clients'
          BY <1>7, <2>3, <3>1 DEF HandOver
        <4> QED
          BY <4>1 DEF Holds
      <3>2. CASE datas[h] = None
        <4>1. CloseHolds(h) \/ AtCtx(h)
          BY <1>0, <1>7, <3>2 DEF Known, HasCtx
        <4>2. CASE CloseHolds(h)
          BY <1>4, <4>2 DEF Holds
        <4>3. CASE AtCtx(h)
          <5>1. PICK b \in Loops : pc[b] \in {"ctx", "fill"} /\ loop[b].new = h
            BY <4>3 DEF AtCtx
          <5>2. b # a
            BY <2>3, <5>1 DEF HandOver
          <5> QED
            BY <1>1, <5>1, <5>2 DEF LoopHolds, Accepting, Holds
        <4> QED
          BY <4>1, <4>2, <4>3
      <3> QED
        BY <3>1, <3>2
    <2>4. CASE \/ KeepCtx(a) \/ MissCtx(a) \/ MakeCtx(a) \/ FindCtx(a)
               \/ AcceptSucceeds(a) \/ AcceptPends(a) \/ AddEvent(a)
      <3>1. pc'[a] \in Accepting
        BY <1>0, <2>4 DEF KeepCtx, MissCtx, MakeCtx, Proceed, FindCtx, AcceptSucceeds, AcceptPends,
                          AddEvent, Goto, Accepting
      <3>2. loop'[a].new = h
        BY <1>0, <1>7, <2>4 DEF KeepCtx, MissCtx, MakeCtx, Proceed, FindCtx, AcceptSucceeds,
                                AcceptPends, AddEvent, LoopType
      <3> QED
        BY <2>1, <3>1, <3>2
    <2>5. CASE FindsNone(a) \/ AddEventFails(a)
      BY <1>7, <2>1, <2>5 DEF FindsNone, AddEventFails, Crash
    <2>6. ~(Leave(a) \/ NewSocket(a) \/ AcceptReturns(a))
      BY <1>7 DEF Leave, NewSocket, AcceptReturns, Accepting
    <2> QED
      BY <2>2, <2>3, <2>4, <2>5, <2>6 DEF LoopStep
  <1>8. ASSUME NEW h \in Handles, kind[h] # "free"
        PROVE  Holds(h)'
    <2>1. CASE LoopHolds(h)
      <3>1. PICK b \in Loops : pc[b] \in Accepting /\ loop[b].new = h
        BY <2>1 DEF LoopHolds
      <3>2. CASE b = a
        BY <1>7, <1>8, <3>1, <3>2
      <3>3. CASE b # a
        BY <1>1, <3>1, <3>3 DEF LoopHolds, Holds
      <3> QED
        BY <3>2, <3>3
    <2>2. CASE ~LoopHolds(h)
      BY <1>0, <1>4, <1>5, <1>6, <1>8, <2>2 DEF Held, Holds
    <2> QED
      BY <2>1, <2>2
  <1>9. ASSUME NEW h \in Handles, kind[h] # "free"
        PROVE  HasCtx(h)'
    <2>1. CASE datas[h] # None
      <3>1. datas'[h] # None
        <4>1. CASE HandOver(a)
          <5>1. CASE datas[loop[a].new] = None
            BY <2>1, <4>1, <5>1 DEF HandOver
          <5>2. CASE datas[loop[a].new] # None
            <6>1. /\ datas' = [datas EXCEPT ![loop[a].new] = [@ EXCEPT !.recv = TRUE]]
                  /\ datas \in [Handles -> CtxType \cup {None}]
              BY <1>0, <4>1, <5>2 DEF HandOver, Shape
            <6>2. datas[h] \in CtxType /\ [datas[h] EXCEPT !.recv = TRUE] \in CtxType
              BY <2>1, <6>1 DEF CtxType
            <6> QED
              BY <2>1, <6>1, <6>2, CtxNotNone
          <5> QED
            BY <5>1, <5>2
        <4>2. CASE MakeCtx(a)
          BY <1>0, <2>1, <4>2, CtxNotNone DEF MakeCtx, Shape
        <4>3. CASE ~HandOver(a) /\ ~MakeCtx(a)
          BY <2>1, <4>3 DEF LoopStep, Leave, NewSocket, KeepCtx, MissCtx, FindCtx, FindsNone, AcceptFails, AcceptReturns,
             AcceptSucceeds, AcceptPends, AddEvent, AddEventFails, Crash, fdVars
        <4> QED
          BY <4>1, <4>2, <4>3
      <3> QED
        BY <3>1 DEF HasCtx
    <2>2. CASE CloseHolds(h)
      BY <1>4, <2>2 DEF HasCtx
    <2>3. CASE datas[h] = None /\ AtCtx(h)
      <3>1. PICK b \in Loops : pc[b] \in {"ctx", "fill"} /\ loop[b].new = h
        BY <2>3 DEF AtCtx
      <3>2. CASE b # a
        BY <1>1, <3>1, <3>2 DEF AtCtx, HasCtx
      <3>3. CASE b = a
        <4>1. MakeCtx(a) \/ MissCtx(a)
          BY <2>3, <3>1, <3>3 DEF LoopStep, Leave, NewSocket, KeepCtx, FindCtx, FindsNone, AcceptFails,
             AcceptReturns, AcceptSucceeds, AcceptPends, AddEvent, AddEventFails, HandOver
        <4>2. CASE MakeCtx(a)
          <5>1. datas'[h] = NewCtx
            BY <1>0, <2>3, <3>1, <3>3, <4>2 DEF MakeCtx, Shape
          <5> QED
            BY <5>1, CtxNotNone DEF HasCtx
        <4>3. CASE MissCtx(a)
          BY <1>0, <3>1, <3>3, <4>3 DEF MissCtx, Goto, AtCtx, HasCtx
        <4> QED
          BY <4>1, <4>2, <4>3
      <3> QED
        BY <3>2, <3>3
    <2> QED
      BY <1>0, <1>9, <2>1, <2>2, <2>3 DEF Known, HasCtx
  <1>10. CASE NewSocket(a) /\ Free # {}
    <2>1. /\ NextFree \in Handles /\ kind[NextFree] = "free"
          /\ loop' = [loop EXCEPT ![a].new = NextFree] /\ Goto(a, "ctx")
          /\ kind' = [kind EXCEPT ![NextFree] = "plain"] /\ inflight' = inflight
      BY <1>10, NextIsFree DEF NewSocket
    <2>2. pc'[a] = "ctx" /\ loop'[a].new = NextFree
      BY <1>0, <2>1 DEF Goto, LoopType
    <2>3. \A h \in Handles : kind[h] # "free" \/ h = NextFree \/ kind'[h] = "free"
      BY <1>0, <2>1 DEF Shape
    <2>4. \A h \in Handles : kind[h] # "free" => kind'[h] # "free"
      BY <1>0, <2>1 DEF Shape
    <2>5. Live'
      BY <1>0, <2>1, <2>4 DEF Live, Shape
    <2>6. \A h \in Handles : h = NextFree => HasCtx(h)' /\ Holds(h)'
      BY <2>2 DEF HasCtx, AtCtx, Holds, LoopHolds, Accepting
    <2> QED
      BY <1>3, <1>8, <1>9, <2>3, <2>5, <2>6 DEF Known, Held
  <1>11. CASE ~(NewSocket(a) /\ Free # {})
    <2>1. \A h \in Handles : kind'[h] # "free" <=> kind[h] # "free"
      <3>1. CASE AcceptSucceeds(a)
        <4>1. kind' = [kind EXCEPT ![loop[a].new] = "connected"] /\ kind[loop[a].new] = "plain"
          BY <3>1 DEF AcceptSucceeds, CanAccept, Connected
        <4> QED
          BY <1>0, <4>1 DEF Shape
      <3>2. CASE ~AcceptSucceeds(a)
        <4>1. kind' = kind
          BY <1>11, <3>2 DEF LoopStep, Leave, NewSocket, KeepCtx, MissCtx, MakeCtx, Proceed,
             FindCtx, FindsNone, AcceptFails,
             AcceptReturns, AcceptPends, AddEvent, AddEventFails, HandOver, Crash, kernelVars
        <4> QED
          BY <4>1
      <3> QED
        BY <3>1, <3>2
    <2>2. Live'
      <3>1. CASE AcceptPends(a)
        <4>1. /\ inflight' = inflight \cup {[lfd |-> loop[a].lfd, new |-> loop[a].new, by |-> a]}
              /\ kind[loop[a].new] = "plain" /\ kind' = kind
          BY <3>1 DEF AcceptPends, CanAccept
        <4> QED
          BY <1>0, <4>1 DEF Live
      <3>2. CASE ~AcceptPends(a)
        <4>1. inflight' = inflight
          BY <3>2 DEF LoopStep, Leave, NewSocket, KeepCtx, MissCtx, MakeCtx, Proceed,
             FindCtx, FindsNone, AcceptFails,
             AcceptReturns, AcceptSucceeds, AddEvent, AddEventFails, HandOver, Crash, kernelVars
        <4> QED
          BY <1>0, <2>1, <4>1 DEF Live, Shape, PendingType
      <3> QED
        BY <3>1, <3>2
    <2> QED
      BY <1>3, <1>8, <1>9, <2>1, <2>2 DEF Known, Held
  <1> QED
    BY <1>10, <1>11

LEMMA SafeNext ==
    ASSUME Safe, [Next]_vars
    PROVE  Safe'
  <1>1. Sound'
    BY SoundNext DEF Safe
  <1> SUFFICES Made' /\ Live' /\ Known' /\ Held'
    BY <1>1 DEF Safe
  <1>2. ASSUME NEW s \in Stops, Stop(s) \/ StopStep(s)
        PROVE  Made' /\ Live' /\ Known' /\ Held'
    BY <1>2, StopKeepsSafe
  <1>3. ASSUME NEW c \in closing, CloseCancels(c) \/ CloseDeletes(c) \/ CloseEnds(c)
        PROVE  Made' /\ Live' /\ Known' /\ Held'
    BY <1>3, CloseKeepsSafe
  <1>4. ASSUME NEW a \in Loops, LoopStep(a)
        PROVE  Made' /\ Live' /\ Known' /\ Held'
    BY <1>4, LoopKeepsSafe
  <1>5. CASE UNCHANGED vars
    <2>1. /\ UNCHANGED <<socks, sock, made, pc, loop, stop, closing, datas, kind, inflight, clients>>
          /\ Made /\ Live /\ Known /\ Held
      BY <1>5 DEF Safe, vars, apiVars, fdVars, eventVars, kernelVars, handVars
    <2>2. Made' /\ Live' /\ Known'
      BY <2>1 DEF Made, Live, Known, HasCtx, CloseHolds, AtCtx, Running
    <2>3. Held'
      BY <2>1 DEF Held, Holds, ObjectHolds, LoopHolds, CloseHolds, InUse, Busy, Running
    <2> QED
      BY <2>2, <2>3
  <1>6. CASE Bind \/ Start
    BY <1>6, BindKeepsSafe, StartKeepsSafe
  <1>7. CASE KernelStep \/ (\E p \in Peers, h \in Handles : Connect(p, h))
             \/ (\E h \in Handles : HandlerCloses(h))
    BY <1>7, OthersKeepSafe
  <1> QED
    BY <1>2, <1>3, <1>4, <1>5, <1>6, <1>7 DEF Next, CloseStep

LEMMA SafeInv == Spec => []Safe
  <1>1. Safe /\ [Next]_vars => Safe'
    BY SafeNext
  <1> QED
    BY <1>1, SafeInit, PTL DEF Spec

(* The types of the server's state, and what its loops work with: a loop    *)
(* that waits or has been answered has the descriptors of its call.         *)
THEOREM TypeCorrect == Spec => [](Shape /\ Working)
  <1>1. Safe => Shape /\ Working
    BY DEF Safe, Sound
  <1> QED
    BY <1>1, SafeInv, PTL

(* Whatever accept loops, binds, stops and handlers do at the same time, and *)
(* however often descriptors are handed out again, every open socket is in   *)
(* the hands of somebody who will use or close it.                           *)
THEOREM SocketsAreOwned == Spec => []NothingLeaks
  <1>1. Safe => NothingLeaks
    <2> SUFFICES ASSUME Safe, NEW h \in Handles, Holds(h)
                 PROVE  h \in Owned
      BY DEF NothingLeaks, Safe, Held
    <2>1. CASE ObjectHolds(h)
      <3>1. PICK o \in Objects : InUse(o) /\ sock[o] = h
        BY <2>1 DEF ObjectHolds
      <3>2. o \in Range(socks) \cup {loop[a].obj : a \in {b \in Loops : Running(b)}}
        BY <3>1 DEF InUse
      <3> QED
        BY <3>1, <3>2 DEF Owned
    <2>2. CASE LoopHolds(h) \/ h \in clients \/ CloseHolds(h)
      BY <2>2 DEF LoopHolds, CloseHolds, Owned
    <2> QED
      BY <2>1, <2>2 DEF Holds
  <1> QED
    BY <1>1, SafeInv, PTL

-----------------------------------------------------------------------------
(* Everybody knows the socket he works with, as long as two functions of   *)
(* stop() do not go through m_socks at the same time.                      *)
Fit ==
    \/ world.manners = "orderly"
    \/ world.stops <= 1
    \/ \A s \in Stops : stop[s].at = "none"

Active(s) == stop[s].at \notin {"none", "done"}

(* One function of stop() at a time, on sockets that stay in m_socks.      *)
OneStop ==
    /\ \A s \in Stops : stop[s].at # "none" => s <= world.stops
    /\ world.manners = "orderly" => \A s \in Stops : Active(s) => isStop
    /\ \A s, t \in Stops : Active(s) /\ Active(t) => s = t
    /\ \A s \in Stops : stop[s].at \in {"cancel", "close", "closing"} =>
                           Range(stop[s].left) \subseteq Range(socks)

(* Nobody shares a descriptor: neither two listening objects, unless        *)
(* stop() is just closing the one, nor two loops, handlers or closes.       *)
Listeners ==
    /\ \A o, p \in Objects :
          ~Busy(o) /\ ~Busy(p) /\ sock[o] = sock[p] /\ sock[o] # None => o = p
    /\ \A o \in Objects :
          ~Busy(o) /\ sock[o] # None => kind[sock[o]] = "listening" /\ ~CloseHolds(sock[o])

IsClient(h) == kind[h] \in {"plain", "connected"}

Acceptors ==
    \A a \in Loops : pc[a] \in Accepting /\ loop[a].new # None =>
        /\ IsClient(loop[a].new) /\ loop[a].new \notin clients /\ ~CloseHolds(loop[a].new)
        /\ \A b \in Loops : pc[b] \in Accepting /\ loop[b].new = loop[a].new => a = b

Handlers == \A h \in clients : IsClient(h) /\ ~CloseHolds(h)

Closes ==
    /\ \A c, d \in closing : c.fd = d.fd => c = d
    /\ \A c \in closing : kind[c.fd] # "free"

Pending == \A i \in inflight : IsClient(i.new)

(* What FdManager has under a descriptor is of the socket behind it.       *)
Fresh ==
    /\ \A h \in Handles : datas[h] # None => ~datas[h].stale
    /\ \A c \in closing : c.at = "close" => datas[c.fd] = None
    /\ \A h \in clients : datas[h] # None /\ datas[h].recv

Unshared == Listeners /\ Acceptors /\ Handlers /\ Closes /\ Pending /\ Fresh

Apart == OneStop /\ Unshared

(* A server that nobody stops: a listening socket belongs to one loop,     *)
(* which waits at it for the client it is told of.                         *)
Quiet ==
    /\ ~crashed /\ ~phantoms
    /\ isStop => \A a \in Loops : pc[a] = "none"
    /\ \A i, j \in 1..Len(socks) : socks[i] = socks[j] => i = j
    /\ \A a, b \in Loops : Running(a) /\ Running(b) /\ loop[a].obj = loop[b].obj => a = b
    /\ \A o \in Objects : InUse(o) => sock[o] # None
    /\ \A a \in Loops : pc[a] \in {"find", "issue", "add", "held"} => loop[a].lfd = sock[loop[a].obj]
    /\ \A a \in Loops : pc[a] = "init" => peer[loop[a].new] # None

(* What the kernel and the port have for a loop is the result of the call  *)
(* it is in.                                                               *)
Answers ==
    /\ \A i \in inflight : /\ pc[i.by] \in {"add", "held"}
                           /\ i.new = loop[i.by].new /\ i.lfd = loop[i.by].lfd
    /\ \A q \in port : pc[q.by] \in {"add", "held"} /\ peer[loop[q.by].new] # None
    /\ \A i \in inflight, q \in port : i.by # q.by
    /\ \A q, r \in port : q.by = r.by => q = r

Nobody == \A s \in Stops : stop[s].at = "none"

KnowsInv ==
    /\ Fit /\ ~crashed => Apart
    /\ Nobody => Quiet /\ Answers

LEMMA FitBefore ==
    ASSUME Sound, [Next]_vars
    PROVE  world' = world /\ (Fit' => Fit) /\ (Nobody' => Nobody /\ stop' = stop)
  <1>0. stop \in [Stops -> [at : StopPlaces, left : Seq(Objects)]]
    BY DEF Sound, Shape
  <1>1. ASSUME NEW s \in Stops, Stop(s) \/ StopStep(s)
        PROVE  /\ world' = world /\ stop'[s].at # "none"
               /\ \A t \in Stops : t # s => stop'[t] = stop[t]
    <2>1. CASE Stop(s) \/ StopBegins(s) \/ StopForgets(s)
      BY <1>0, <2>1 DEF Stop, StopBegins, StopForgets, apiVars
    <2>2. CASE StopCancels(s) \/ StopEnds(s)
      BY <1>0, <2>2 DEF StopCancels, StopEnds, apiVars
    <2>3. CASE StopCloses(s)
      BY <1>0, <2>3 DEF StopCloses, apiVars
    <2> QED
      BY <1>1, <2>1, <2>2, <2>3 DEF StopStep
  <1>2. CASE \E s \in Stops : Stop(s) \/ StopStep(s)
    BY <1>1, <1>2 DEF Fit, Nobody
  <1>3. CASE Bind \/ Start
    <2>1. world' = world /\ stop' = stop
      BY <1>3 DEF Bind, BindSucceeds, BindFails, Start
    <2> QED
      BY <2>1 DEF Fit, Nobody
  <1>4. CASE \E a \in Loops : LoopStep(a)
    <2>1. world' = world /\ stop' = stop
      BY <1>4, LoopFrame DEF apiVars
    <2> QED
      BY <2>1 DEF Fit, Nobody
  <1>5. CASE \/ CloseStep \/ KernelStep \/ UNCHANGED vars
             \/ \E p \in Peers, h \in Handles : Connect(p, h)
             \/ \E h \in Handles : HandlerCloses(h)
    <2>1. world' = world /\ stop' = stop
      BY <1>5 DEF CloseStep, CloseCancels, CloseDeletes, CloseEnds, KernelStep, Complete, CompleteFails, Deliver,
                  Connect, HandlerCloses, vars, apiVars
    <2> QED
      BY <2>1 DEF Fit, Nobody
  <1> QED
    BY <1>2, <1>3, <1>4, <1>5 DEF Next

LEMMA OneStopNext ==
    ASSUME Safe, Fit', OneStop, Next, ~crashed'
    PROVE  OneStop'
  <1>0. /\ Sound /\ Shape /\ stop \in [Stops -> [at : StopPlaces, left : Seq(Objects)]]
        /\ Range(<<>>) = {} /\ world' = world
    <2>1. Sound /\ Shape
      BY DEF Safe, Sound
    <2>2. Range(<<>>) = {}
      BY EmptySeq DEF Range
    <2>3. world' = world
      BY <2>1, FitBefore
    <2> QED
      BY <2>1, <2>2, <2>3 DEF Shape
  <1>1. CASE Bind
    <2>1. stop' = stop /\ isStop' = isStop /\ ~Iterating({})
      BY <1>1 DEF Bind, BindSucceeds, BindFails
    <2>2. \A s \in Stops : stop'[s].at \in {"cancel", "close", "closing"} =>
                              Range(stop'[s].left) \subseteq Range(socks')
      BY <1>0, <2>1 DEF Iterating, OneStop
    <2> QED
      BY <1>0, <2>1, <2>2 DEF OneStop, Active
  <1>2. CASE Start
    <2>1. stop' = stop /\ socks' = socks /\ (world.manners = "hasty" \/ AtRest)
      BY <1>2 DEF Start
    <2>2. world.manners = "orderly" => \A s \in Stops : ~Active(s)
      BY <2>1 DEF AtRest, Active
    <2> QED
      BY <1>0, <2>1, <2>2 DEF OneStop, Active
  <1>3. ASSUME NEW s \in Stops, Stop(s)
        PROVE  OneStop'
    <2>1. /\ stop[s].at = "none" /\ s <= world.stops /\ isStop' = TRUE /\ socks' = socks
          /\ \A t \in Stops : stop'[t].at = (IF t = s THEN "queued" ELSE stop[t].at)
          /\ \A t \in Stops : stop'[t].left = stop[t].left
          /\ world.manners = "hasty" \/ ~isStop
      BY <1>0, <1>3 DEF Stop
    <2>2. \A t \in Stops : Active(t)' => t = s \/ Active(t)
      BY <2>1 DEF Active
    <2>3. ASSUME NEW t \in Stops, Active(t)
          PROVE  FALSE
      <3>1. world.manners = "hasty"
        <4>1. world.manners \in {"orderly", "hasty"}
          BY <1>0, WorldsAssumption DEF Shape, Manners
        <4> QED
          BY <2>1, <2>3, <4>1 DEF OneStop
      <3>2. world.stops <= 1
        BY <1>0, <2>1, <3>1 DEF Fit
      <3>3. t <= world.stops /\ s <= world.stops /\ world.stops \in Nat /\ s \in Nat /\ t \in Nat
            /\ s >= 1 /\ t >= 1
        BY <1>0, <2>1, <2>3, WorldsAssumption, ServerBounds DEF OneStop, Active, Stops, Shape
      <3>4. s = t
        BY <3>2, <3>3
      <3> QED
        BY <2>1, <2>3, <3>4 DEF Active
    <2> QED
      BY <1>0, <2>1, <2>2, <2>3 DEF OneStop
  <1>4. ASSUME NEW s \in Stops, StopStep(s)
        PROVE  OneStop'
    <2>1. Active(s) /\ isStop' = isStop /\ (\A t \in Stops : t # s => stop'[t] = stop[t])
      <3>1. CASE StopBegins(s) \/ StopForgets(s)
        BY <1>0, <3>1 DEF StopBegins, StopForgets, apiVars, Active
      <3>2. CASE StopCancels(s) \/ StopEnds(s)
        BY <1>0, <3>2 DEF StopCancels, StopEnds, apiVars, Active
      <3>3. CASE StopCloses(s)
        BY <1>0, <3>3 DEF StopCloses, apiVars, Active
      <3> QED
        BY <1>4, <3>1, <3>2, <3>3 DEF StopStep
    <2>2. \A t \in Stops : Active(t)' => Active(t)
      BY <2>1 DEF Active
    <2>3. \A t \in Stops : t # s => stop'[t].at \in {"none", "done"}
      BY <2>1 DEF OneStop, Active
    <2>4. stop'[s].at \in {"cancel", "close", "closing"} => Range(stop'[s].left) \subseteq Range(socks')
      <3>1. CASE StopBegins(s)
        BY <1>0, <3>1 DEF StopBegins, apiVars
      <3>2. CASE StopCancels(s)
        BY <1>0, <3>2 DEF StopCancels, apiVars, OneStop
      <3>3. CASE StopCloses(s) \/ StopForgets(s)
        <4>1. stop[s].left # <<>> /\ stop[s].left \in Seq(Objects) /\ stop[s].at \in {"close", "closing"}
          BY <1>0, <3>3 DEF StopCloses, StopForgets, Sound, Listed
        <4>2. Range(Tail(stop[s].left)) \subseteq Range(stop[s].left)
          BY <4>1, SeqFacts
        <4>3. stop'[s].left \in {stop[s].left, Tail(stop[s].left)} /\ socks' = socks
          BY <1>0, <3>3 DEF StopCloses, StopForgets, apiVars
        <4> QED
          BY <4>1, <4>2, <4>3 DEF OneStop
      <3>4. CASE StopEnds(s)
        BY <1>0, <3>4 DEF StopEnds
      <3> QED
        BY <1>4, <3>1, <3>2, <3>3, <3>4 DEF StopStep
    <2>5. \A t \in Stops : stop'[t].at # "none" => t <= world.stops
      BY <2>1, <2>3 DEF OneStop, Active
    <2> QED
      BY <1>0, <2>1, <2>2, <2>3, <2>4, <2>5 DEF OneStop
  <1>5. ASSUME UNCHANGED <<isStop, socks, stop>>
        PROVE  OneStop'
    BY <1>0, <1>5 DEF OneStop, Active
  <1>6. CASE \E a \in Loops : LoopStep(a)
    BY <1>0, <1>5, <1>6, LoopFrame DEF apiVars
  <1>7. CASE \/ CloseStep \/ KernelStep
             \/ \E p \in Peers, h \in Handles : Connect(p, h)
             \/ \E h \in Handles : HandlerCloses(h)
    BY <1>5, <1>7 DEF CloseStep, CloseCancels, CloseDeletes, CloseEnds, KernelStep, Complete, CompleteFails, Deliver,
                      Connect, HandlerCloses, apiVars
  <1> QED
    BY <1>1, <1>2, <1>3, <1>4, <1>6, <1>7 DEF Next

LEMMA ClearKeepsUnshared ==
    ASSUME Safe, Unshared, Clear, UNCHANGED <<pc, loop, clients, closing>>,
           \A o \in Range(socks) : ~Busy(o),
           \A o \in Objects : Busy(o)' <=> Busy(o)
    PROVE  Unshared'
  <1> DEFINE held == {loop[a].obj : a \in {b \in Loops : Running(b)}}
             dropped == {sock[o] : o \in Range(socks) \ held}
  <1>0. /\ Shape /\ Listeners /\ Acceptors /\ Handlers /\ Closes /\ Pending /\ Fresh
        /\ clients \subseteq Handles
        /\ \A c \in closing : c.fd \in Handles
        /\ \A i \in inflight : i.new \in Handles
        /\ \A a \in Loops : loop[a].new # None => loop[a].new \in Handles
    BY DEF Safe, Sound, Shape, Unshared, CloseType, PendingType, LoopType
  <1>1. Range(socks) \subseteq Objects
    BY <1>0, SeqFacts DEF Shape
  <1>2. /\ sock' = [o \in Objects |-> IF sock[o] \in dropped THEN None ELSE sock[o]]
        /\ kind' = [h \in Handles |-> IF h \in dropped THEN "free" ELSE kind[h]]
        /\ datas' = [h \in Handles |-> IF h \in dropped THEN None ELSE datas[h]]
        /\ inflight' = {i \in inflight : i.lfd \notin dropped /\ i.new \notin dropped}
    BY DEF Clear
  <1>3. \A h \in Handles : h \in dropped => kind[h] = "listening" /\ ~CloseHolds(h)
    <2> SUFFICES ASSUME NEW o \in Range(socks), sock[o] \in Handles
                 PROVE  kind[sock[o]] = "listening" /\ ~CloseHolds(sock[o])
      OBVIOUS
    <2>1. sock[o] # None /\ o \in Objects
      BY <1>1, ServerBounds
    <2> QED
      BY <1>0, <2>1 DEF Listeners
  <1> HIDE DEF held, dropped
  <1>4. \A h \in Handles : h \notin dropped => kind'[h] = kind[h] /\ datas'[h] = datas[h]
    BY <1>2
  <1>5. \A h \in Handles : IsClient(h) => h \notin dropped /\ IsClient(h)'
    BY <1>3, <1>4 DEF IsClient
  <1>6. \A h : CloseHolds(h)' <=> CloseHolds(h)
    BY DEF CloseHolds
  <1>7. Listeners'
    <2>1. \A o \in Objects : sock'[o] # None => sock'[o] = sock[o] /\ sock[o] \notin dropped /\ sock[o] \in Handles
      BY <1>0, <1>2 DEF Shape
    <2> QED
      BY <1>0, <1>4, <1>6, <2>1 DEF Listeners
  <1>8. Acceptors' /\ Handlers'
    BY <1>0, <1>5, <1>6 DEF Acceptors, Handlers
  <1>9. Closes'
    <2>1. \A c \in closing : c.fd \notin dropped
      BY <1>0, <1>3 DEF CloseHolds
    <2> QED
      BY <1>0, <1>4, <2>1 DEF Closes
  <1>10. Pending'
    BY <1>0, <1>2, <1>5 DEF Pending
  <1>11. Fresh'
    <2>1. \A h \in Handles : datas'[h] # None => datas'[h] = datas[h]
      BY <1>2
    <2>2. \A c \in closing : c.at = "close" => datas'[c.fd] = None
      BY <1>0, <2>1 DEF Fresh
    <2>3. \A h \in clients : datas'[h] = datas[h]
      BY <1>0, <1>4, <1>5 DEF Handlers
    <2> QED
      BY <1>0, <2>1, <2>2, <2>3 DEF Fresh
  <1> QED
    BY <1>7, <1>8, <1>9, <1>10, <1>11 DEF Unshared

LEMMA BindKeepsUnshared ==
    ASSUME Safe, Unshared, Bind, ~crashed'
    PROVE  Unshared'
  <1>0. /\ Shape /\ Listeners /\ Acceptors /\ Handlers /\ Closes /\ Pending /\ Fresh
        /\ clients \subseteq Handles
        /\ \A c \in closing : c.fd \in Handles
        /\ \A i \in inflight : i.new \in Handles
        /\ \A a \in Loops : loop[a].new # None => loop[a].new \in Handles
    BY DEF Safe, Sound, Shape, Unshared, CloseType, PendingType, LoopType
  <1>1. ASSUME NEW fd \in [1..Cardinality(Addrs) -> Free], NEW passed, BindSucceeds(passed, fd)
        PROVE  Unshared'
    <2> DEFINE n == Cardinality(Addrs)
    <2>1. n \in Nat
      BY ServerBounds, FS_CardinalityType
    <2> HIDE DEF n
    <2>2. /\ fd \in [1..n -> Free] /\ Free \subseteq Handles /\ DOMAIN fd = 1..n
          /\ \A h \in Free : kind[h] = "free"
      BY DEF Free, n
    <2>3. \A h \in Range(fd) : h \in Handles /\ kind[h] = "free" /\ h # None
      <3>1. \A h \in Range(fd) : \E j \in 1..n : h = fd[j]
        BY <2>2 DEF Range
      <3>2. \A j \in 1..n : fd[j] \in Free
        BY <2>2
      <3>3. \A h \in Free : h \in Handles /\ kind[h] = "free"
        BY <2>2
      <3>4. None \notin Handles
        BY ServerBounds
      <3> HIDE DEF n
      <3> QED
        BY <3>1, <3>2, <3>3, <3>4
    <2>4. /\ sock' = [o \in Objects |-> IF o - made \in 1..n THEN fd[o - made] ELSE sock[o]]
          /\ kind' = [h \in Handles |-> IF h \in Range(fd) THEN "listening" ELSE kind[h]]
          /\ datas' = [h \in Handles |-> IF h \in Range(fd) /\ datas[h] = None THEN NewCtx
                                         ELSE datas[h]]
          /\ UNCHANGED <<pc, loop, stop, closing, inflight, clients>> /\ IsInjective(fd)
      BY <1>1, <2>2 DEF BindSucceeds, handVars
    <2>5. \A i, j \in 1..n : fd[i] = fd[j] => i = j
      BY <2>2, <2>4 DEF IsInjective
    <2>6. \A h \in Handles : kind[h] # "free" => h \notin Range(fd) /\ kind'[h] = kind[h] /\ datas'[h] = datas[h]
      BY <2>3, <2>4
    <2>7. /\ \A h : CloseHolds(h)' <=> CloseHolds(h)
          /\ \A o : Busy(o)' <=> Busy(o)
      BY <2>4 DEF CloseHolds, Busy
    <2>8. \A h \in Range(fd) : ~CloseHolds(h)
      BY <1>0, <2>3 DEF CloseHolds, Closes
    <2>9. Listeners'
      <3>1. \A o \in Objects : o - made \in 1..n => sock'[o] = fd[o - made] /\ fd[o - made] \in Range(fd)
        BY <2>2, <2>4 DEF Range
      <3>2. \A o \in Objects : o - made \notin 1..n => sock'[o] = sock[o]
        BY <2>4
      <3>3. \A o \in Objects : ~Busy(o) /\ sock[o] # None =>
               kind[sock[o]] = "listening" /\ ~CloseHolds(sock[o]) /\ sock[o] \notin Range(fd)
        BY <1>0, <2>3 DEF Listeners
      <3>4. ASSUME NEW o \in Objects, NEW p \in Objects,
                   ~Busy(o), ~Busy(p), sock'[o] = sock'[p], sock'[o] # None
            PROVE  o = p
        <4>1. CASE o - made \in 1..n /\ p - made \in 1..n
          <5>1. o - made = p - made
            BY <2>5, <3>1, <3>4, <4>1
          <5> QED
            BY <1>0, <5>1 DEF Objects, Shape
        <4>2. CASE o - made \notin 1..n /\ p - made \notin 1..n
          BY <1>0, <3>2, <3>4, <4>2 DEF Listeners
        <4>3. CASE o - made \in 1..n /\ p - made \notin 1..n
          BY <3>1, <3>2, <3>3, <3>4, <4>3
        <4>4. CASE o - made \notin 1..n /\ p - made \in 1..n
          BY <3>1, <3>2, <3>3, <3>4, <4>4
        <4> QED
          BY <4>1, <4>2, <4>3, <4>4
      <3>5. ASSUME NEW o \in Objects, ~Busy(o), sock'[o] # None
            PROVE  kind'[sock'[o]] = "listening" /\ ~CloseHolds(sock'[o])
        <4>1. CASE o - made \in 1..n
          BY <2>3, <2>4, <2>8, <3>1, <4>1
        <4>2. CASE o - made \notin 1..n
          <5>1. sock[o] \in Handles
            BY <1>0, <3>2, <3>5, <4>2 DEF Shape
          <5> QED
            BY <2>6, <3>2, <3>3, <3>5, <4>2, <5>1
        <4> QED
          BY <4>1, <4>2
      <3> QED
        BY <2>7, <3>4, <3>5 DEF Listeners, CloseHolds
    <2>10. \A h \in Handles : IsClient(h) => IsClient(h)'
      BY <2>6 DEF IsClient
    <2>11. Acceptors' /\ Handlers' /\ Pending'
      BY <1>0, <2>4, <2>7, <2>10 DEF Acceptors, Handlers, Pending
    <2>12. Closes'
      BY <1>0, <2>4, <2>6 DEF Closes
    <2>13. Fresh'
      <3>1. \A h \in Handles : datas'[h] # None => ~datas'[h].stale
        BY <1>0, <2>4 DEF Fresh, NewCtx
      <3>2. \A c \in closing : datas'[c.fd] = datas[c.fd]
        BY <1>0, <2>6 DEF Closes
      <3>3. \A h \in clients : datas'[h] = datas[h]
        BY <1>0, <2>6 DEF Handlers, IsClient
      <3> QED
        BY <1>0, <2>4, <3>1, <3>2, <3>3 DEF Fresh
    <2> QED
      BY <2>9, <2>11, <2>12, <2>13 DEF Unshared
  <1>2. ASSUME NEW F, NEW passed, BindFails(F, passed)
        PROVE  Unshared'
    <2>1. UNCHANGED <<pc, loop, clients, closing, stop>> /\ Clear /\ ~Iterating({})
      BY <1>2 DEF BindFails, handVars, Bind
    <2>2. \A o \in Range(socks) : ~Busy(o)
      <3>1. Range(<<>>) = {}
        BY EmptySeq DEF Range
      <3> QED
        BY <2>1, <3>1 DEF Iterating, Busy
    <2> QED
      BY <2>1, <2>2, ClearKeepsUnshared DEF Busy
  <1> QED
    BY <1>1, <1>2 DEF Bind

(* Who wakes a loop takes nothing from it: it keeps its socket.            *)
LEMMA WakingKeepsAcceptors ==
    ASSUME Shape, Acceptors, OnlyWakes, clients' \subseteq clients,
           \A h \in Handles : IsClient(h) /\ ~CloseHolds(h) /\ h \notin clients =>
                                IsClient(h)' /\ ~CloseHolds(h)'
    PROVE  Acceptors'
  <1>1. \A a \in Loops : (pc'[a] \in Accepting <=> pc[a] \in Accepting) /\ loop'[a] = loop[a]
    BY DEF OnlyWakes, Accepting
  <1> SUFFICES ASSUME NEW a \in Loops, pc[a] \in Accepting, loop[a].new # None
               PROVE  /\ kind'[loop[a].new] \in {"plain", "connected"}
                      /\ loop[a].new \notin clients'
                      /\ \A c \in closing' : c.fd # loop[a].new
                      /\ \A b \in Loops : pc[b] \in Accepting /\ loop[b].new = loop[a].new => a = b
    BY <1>1 DEF Acceptors, IsClient, CloseHolds
  <1>2. PICK h \in Handles : h = loop[a].new
    BY DEF Shape, LoopType
  <1>3. IsClient(h)' /\ ~CloseHolds(h)' /\ h \notin clients'
    BY <1>2 DEF Acceptors
  <1> QED
    BY <1>2, <1>3 DEF Acceptors, IsClient, CloseHolds

LEMMA StopKeepsUnshared ==
    ASSUME Safe, Apart, NEW s \in Stops, Stop(s) \/ StopStep(s)
    PROVE  Unshared'
  <1> DEFINE StopType == [at : StopPlaces, left : Seq(Objects)]
  <1>0. /\ Sound /\ Shape /\ Listeners /\ Acceptors /\ Handlers /\ Closes /\ Pending /\ Fresh /\ OneStop
        /\ Unshared /\ stop \in [Stops -> StopType] /\ stop[s].left \in Seq(Objects)
        /\ sock \in [Objects -> Handles \cup {None}]
    BY DEF Safe, Sound, Shape, Apart, Unshared
  <1>1. CASE StopEnds(s)
    <2>1. /\ UNCHANGED <<pc, loop, clients, closing>> /\ Clear
          /\ stop' = [stop EXCEPT ![s] = [at |-> "done", left |-> <<>>]]
          /\ stop[s].at = "cancel"
      BY <1>1 DEF StopEnds, handVars
    <2>2. \A t \in Stops : stop'[t] = IF t = s THEN [at |-> "done", left |-> <<>>] ELSE stop[t]
      BY <1>0, <2>1
    <2>3. \A t \in Stops : stop[t].at # "closing"
      BY <1>0, <2>1 DEF OneStop, Active
    <2>4. (\A o : ~Busy(o)) /\ (\A o \in Objects : Busy(o)' <=> Busy(o))
      BY <2>2, <2>3 DEF Busy
    <2> QED
      BY <1>0, <2>1, <2>4, ClearKeepsUnshared
  <1>2. ASSUME Stop(s) \/ StopBegins(s) \/ StopCancels(s)
        PROVE  Unshared'
    <2>1. UNCHANGED <<sock, kind, closing, clients, datas>> /\ inflight' \subseteq inflight
      <3>1. CASE StopCancels(s)
        BY <1>0, <3>1, CancelsTyped DEF StopCancels, fdVars, handVars
      <3>2. CASE Stop(s) \/ StopBegins(s)
        BY <3>2 DEF Stop, StopBegins, fdVars, kernelVars, handVars
      <3> QED
        BY <1>2, <3>1, <3>2
    <2>2. OnlyWakes
      BY <1>0, <1>2, OutsideOnlyWakes DEF Outside, StopStep
    <2>3. stop[s].at # "closing" /\ stop'[s].at # "closing" /\ \A t \in Stops : t # s => stop'[t] = stop[t]
      BY <1>0, <1>2 DEF Stop, StopBegins, StopCancels
    <2>4. \A o : Busy(o)' <=> Busy(o)
      BY <2>3 DEF Busy
    <2>5. Listeners'
      BY <1>0, <2>1, <2>4 DEF Listeners, CloseHolds
    <2>6. Acceptors'
      <3>1. \A h : IsClient(h) /\ ~CloseHolds(h) => IsClient(h)' /\ ~CloseHolds(h)'
        BY <2>1 DEF IsClient, CloseHolds
      <3> QED
        BY <1>0, <2>1, <2>2, <3>1, WakingKeepsAcceptors
    <2>7. Handlers' /\ Closes' /\ Pending' /\ Fresh'
      BY <1>0, <2>1 DEF Handlers, Closes, Pending, Fresh, IsClient, CloseHolds
    <2> QED
      BY <2>5, <2>6, <2>7 DEF Unshared
  <1>3. ASSUME StopCloses(s)
        PROVE  Unshared'
    <2>1. /\ UNCHANGED <<sock, kind, clients, datas, pc, loop, inflight>>
          /\ stop[s].at = "close" /\ \A t \in Stops : t # s => stop'[t] = stop[t]
      BY <1>0, <1>3 DEF StopCloses, apiVars, kernelVars, handVars
    <2>2. \A t \in Stops : stop[t].at # "closing"
      BY <1>0, <2>1 DEF OneStop, Active
    <2>3. \A o : ~Busy(o)
      BY <2>2 DEF Busy
    <2>4. CASE sock[Head(stop[s].left)] = None
      <3>1. closing' = closing /\ stop'[s].at = "cancel"
        BY <1>0, <1>3, <2>4 DEF StopCloses
      <3>2. \A o : ~Busy(o)'
        BY <2>1, <2>2, <3>1 DEF Busy
      <3>3. Listeners'
        BY <1>0, <2>1, <2>3, <3>1, <3>2 DEF Listeners, CloseHolds
      <3>4. Acceptors' /\ Handlers' /\ Closes' /\ Pending' /\ Fresh'
        BY <1>0, <2>1, <3>1 DEF Acceptors, Handlers, Closes, Pending, Fresh, IsClient, CloseHolds
      <3> QED
        BY <3>3, <3>4 DEF Unshared
    <2>5. CASE sock[Head(stop[s].left)] # None
      <3>1. PICK o \in Objects : o = Head(stop[s].left)
        <4>1. stop[s].left # <<>>
          BY <1>0, <2>1 DEF Sound, Listed
        <4> QED
          BY <1>0, <4>1, HeadTailProperties
      <3>2. /\ closing' = closing \cup {Close(sock[o], <<"stop", s>>)}
            /\ stop'[s].at = "closing" /\ stop'[s].left = stop[s].left /\ sock[o] # None
        BY <1>0, <1>3, <2>5, <3>1 DEF StopCloses
      <3> DEFINE new == Close(sock[o], <<"stop", s>>)
      <3>3. new.fd = sock[o] /\ new.at = "cancel"
        BY DEF Close
      <3> HIDE DEF new
      <3>4. \A p : Busy(p)' <=> p = o
        BY <2>1, <2>2, <3>1, <3>2 DEF Busy
      <3>5. \A h : CloseHolds(h)' <=> CloseHolds(h) \/ h = sock[o]
        BY <3>2, <3>3 DEF CloseHolds, new
      <3>6. kind[sock[o]] = "listening" /\ ~CloseHolds(sock[o])
        BY <1>0, <2>3, <3>2 DEF Listeners
      <3>7. Listeners'
        <4>1. \A p \in Objects : p # o /\ sock[p] # None => sock[p] # sock[o]
          BY <1>0, <2>3 DEF Listeners
        <4>2. ASSUME NEW p \in Objects, ~Busy(p)', sock'[p] # None
              PROVE  kind'[sock'[p]] = "listening" /\ ~CloseHolds(sock[p])'
          <5>1. p # o /\ sock[p] # None
            BY <2>1, <3>4, <4>2
          <5>2. CloseHolds(sock[p])' <=> (\E c \in closing' : c.fd = sock[p])
            BY <2>1 DEF CloseHolds
          <5>3. \A c \in closing' : c \in closing \/ c.fd = sock[o]
            BY <3>2, <3>3 DEF new
          <5>4. ~CloseHolds(sock[p]) /\ kind[sock[p]] = "listening" /\ sock[p] # sock[o]
            BY <1>0, <2>3, <4>1, <5>1 DEF Listeners
          <5> QED
            BY <2>1, <5>2, <5>3, <5>4 DEF CloseHolds
        <4>3. \A p, q \in Objects : sock'[p] = sock'[q] /\ sock'[p] # None => p = q
          BY <1>0, <2>1, <2>3 DEF Listeners
        <4> QED
          BY <4>2, <4>3 DEF Listeners
      <3>8. \A h : IsClient(h) /\ ~CloseHolds(h) => IsClient(h)' /\ ~CloseHolds(h)'
        BY <2>1, <3>5, <3>6 DEF IsClient
      <3>9. Acceptors' /\ Handlers' /\ Pending'
        <4>1. Acceptors'
          <5>1. OnlyWakes
            BY <1>0, <1>3, OutsideOnlyWakes DEF Outside, StopStep
          <5> QED
            BY <1>0, <2>1, <3>8, <5>1, WakingKeepsAcceptors
        <4>2. Handlers'
          BY <1>0, <2>1, <3>8 DEF Handlers
        <4>3. Pending'
          BY <1>0, <2>1 DEF Pending, IsClient
        <4> QED
          BY <4>1, <4>2, <4>3
      <3>10. Closes' /\ Fresh'
        <4>1. \A c \in closing : c.fd # sock[o]
          BY <3>6 DEF CloseHolds
        <4>2. closing' = closing \cup {new}
          BY <3>2 DEF new
        <4> QED
          BY <1>0, <2>1, <3>3, <3>6, <4>1, <4>2 DEF Closes, Fresh
      <3> QED
        BY <3>7, <3>9, <3>10 DEF Unshared
    <2> QED
      BY <2>4, <2>5
  <1>4. ASSUME StopForgets(s)
        PROVE  Unshared'
    <2>1. /\ UNCHANGED <<kind, closing, clients, datas, pc, loop, inflight>>
          /\ stop[s].at = "closing" /\ stop'[s].at = "cancel"
          /\ \A t \in Stops : t # s => stop'[t] = stop[t]
          /\ sock' = [sock EXCEPT ![Head(stop[s].left)] = None]
      BY <1>0, <1>4 DEF StopForgets, apiVars, fdVars, kernelVars, handVars
    <2>2. \A t \in Stops : stop[t].at = "closing" => t = s
      BY <1>0, <2>1 DEF OneStop, Active
    <2>3. \A o : Busy(o) => o = Head(stop[s].left)
      BY <2>2 DEF Busy
    <2>4. Listeners'
      <3>1. \A o \in Objects : sock'[o] # None => sock'[o] = sock[o] /\ ~Busy(o)
        BY <1>0, <2>1, <2>3
      <3> QED
        BY <1>0, <2>1, <3>1 DEF Listeners, CloseHolds
    <2>5. Acceptors' /\ Handlers' /\ Closes' /\ Pending' /\ Fresh'
      BY <1>0, <2>1 DEF Acceptors, Handlers, Closes, Pending, Fresh, IsClient, CloseHolds
    <2> QED
      BY <2>4, <2>5 DEF Unshared
  <1> QED
    BY <1>1, <1>2, <1>3, <1>4 DEF StopStep

LEMMA CloseKeepsUnshared ==
    ASSUME Safe, Unshared, NEW c \in closing, CloseCancels(c) \/ CloseDeletes(c) \/ CloseEnds(c)
    PROVE  Unshared'
  <1>0. /\ Sound /\ Shape /\ Listeners /\ Acceptors /\ Handlers /\ Closes /\ Pending /\ Fresh
        /\ c \in CloseType /\ c.fd \in Handles /\ CloseHolds(c.fd) /\ c.at \in {"cancel", "del", "close"}
        /\ sock \in [Objects -> Handles \cup {None}] /\ clients \subseteq Handles
        /\ \A d \in closing : d.fd \in Handles
        /\ datas \in [Handles -> CtxType \cup {None}]
        /\ \A i \in inflight : i.new \in Handles
    BY DEF Safe, Sound, Shape, Unshared, CloseType, CloseHolds, PendingType
  <1>1. UNCHANGED <<sock, loop, stop, clients>>
    BY DEF CloseCancels, CloseDeletes, CloseEnds, apiVars, handVars
  <1>2. OnlyWakes
    BY <1>0, OutsideOnlyWakes DEF Outside, CloseStep
  <1>3. \A o : Busy(o)' <=> Busy(o)
    BY <1>1 DEF Busy
  <1>4. ASSUME CloseCancels(c) \/ CloseDeletes(c)
        PROVE  Unshared'
    <2>1. PICK l \in {"close", "del"} :
             /\ closing' = (closing \ {c}) \cup {[c EXCEPT !.at = l]}
             /\ l = "close" => datas'[c.fd] = None
      BY <1>0, <1>4 DEF CloseCancels, CloseDeletes
    <2> DEFINE d == [c EXCEPT !.at = l]
    <2>2. d.fd = c.fd /\ d.at = l
      BY <1>0, <2>1, CloseTyped
    <2>3. closing' = (closing \ {c}) \cup {d}
      BY <2>1
    <2> HIDE DEF d
    <2>4. kind' = kind /\ inflight' \subseteq inflight
      <3>1. CASE CloseCancels(c)
        BY <1>0, <3>1, CancelsTyped DEF CloseCancels
      <3>2. CASE CloseDeletes(c)
        BY <3>2 DEF CloseDeletes, kernelVars
      <3> QED
        BY <1>4, <3>1, <3>2
    <2>5. \A h : CloseHolds(h)' <=> CloseHolds(h)
      BY <2>2, <2>3 DEF CloseHolds
    <2>6. \A h : IsClient(h)' <=> IsClient(h)
      BY <2>4 DEF IsClient
    <2>7. Acceptors'
      BY <1>0, <1>1, <1>2, <2>5, <2>6, WakingKeepsAcceptors
    <2>8. Listeners'
      <3>1. \A o \in Objects : ~Busy(o) /\ sock[o] # None =>
                               kind'[sock[o]] = "listening" /\ \A e \in closing' : e.fd # sock[o]
        BY <1>0, <2>2, <2>3, <2>4 DEF Listeners, CloseHolds
      <3> QED
        BY <1>0, <1>1, <1>3, <3>1 DEF Listeners, CloseHolds
    <2>9. Handlers' /\ Pending'
      BY <1>0, <1>1, <2>4, <2>5, <2>6 DEF Handlers, Pending
    <2>10. Closes'
      BY <1>0, <2>2, <2>3, <2>4 DEF Closes
    <2>11. Fresh'
      <3>1. \A h \in Handles : h # c.fd => datas'[h] = datas[h]
        BY <1>0, <1>4 DEF CloseCancels, CloseDeletes
      <3>2. datas'[c.fd] \in {datas[c.fd], None}
        BY <1>0, <1>4 DEF CloseCancels, CloseDeletes
      <3>3. \A e \in closing' : e.at = "close" => datas'[e.fd] = None
        <4>1. \A e \in closing : e # c => e.fd # c.fd
          BY <1>0 DEF Closes
        <4> QED
          BY <1>0, <2>1, <2>2, <2>3, <3>1, <4>1 DEF Fresh
      <3>4. \A h \in clients : datas'[h] = datas[h]
        BY <1>0, <3>1 DEF Handlers
      <3>5. \A h \in Handles : datas'[h] # None => ~datas'[h].stale
        BY <1>0, <3>1, <3>2 DEF Fresh
      <3> QED
        BY <1>0, <1>1, <3>3, <3>4, <3>5 DEF Fresh
    <2> QED
      BY <2>7, <2>8, <2>9, <2>10, <2>11 DEF Unshared
  <1>5. ASSUME CloseEnds(c)
        PROVE  Unshared'
    <2>1. /\ closing' = closing \ {c} /\ kind' = [kind EXCEPT ![c.fd] = "free"]
          /\ inflight' = {i \in inflight : c.fd \notin {i.lfd, i.new}}
          /\ datas' = [datas EXCEPT ![c.fd] = IF @ = None THEN None ELSE [@ EXCEPT !.stale = TRUE]]
          /\ c.at = "close"
      BY <1>5 DEF CloseEnds
    <2>2. datas' = datas
      <3>1. datas[c.fd] = None
        BY <1>0, <2>1 DEF Fresh
      <3> QED
        BY <1>0, <2>1, <3>1
    <2>3. \A h \in Handles : h # c.fd => kind'[h] = kind[h]
      BY <1>0, <2>1 DEF Shape
    <2>4. \A h \in Handles : ~CloseHolds(h) => h # c.fd /\ ~CloseHolds(h)'
      BY <1>0, <2>1 DEF CloseHolds
    <2>5. \A h \in Handles : IsClient(h) /\ ~CloseHolds(h) => IsClient(h)' /\ ~CloseHolds(h)'
      BY <2>3, <2>4 DEF IsClient
    <2>6. Acceptors'
      BY <1>0, <1>1, <1>2, <2>5, WakingKeepsAcceptors
    <2>7. Listeners'
      <3>1. \A o \in Objects : ~Busy(o) /\ sock[o] # None =>
                               kind'[sock[o]] = "listening" /\ \A e \in closing' : e.fd # sock[o]
        <4> SUFFICES ASSUME NEW o \in Objects, ~Busy(o), sock[o] # None
                     PROVE  kind'[sock[o]] = "listening" /\ \A e \in closing' : e.fd # sock[o]
          OBVIOUS
        <4>1. sock[o] \in Handles /\ ~CloseHolds(sock[o]) /\ kind[sock[o]] = "listening"
          BY <1>0 DEF Listeners
        <4> QED
          BY <2>1, <2>3, <2>4, <4>1 DEF CloseHolds
      <3> QED
        BY <1>0, <1>1, <1>3, <3>1 DEF Listeners, CloseHolds
    <2>8. Handlers'
      BY <1>0, <1>1, <2>5 DEF Handlers
    <2>9. Pending'
      BY <1>0, <2>1, <2>3 DEF Pending, IsClient
    <2>10. Closes'
      BY <1>0, <2>1, <2>3 DEF Closes
    <2>11. Fresh'
      BY <1>0, <1>1, <2>1, <2>2 DEF Fresh
    <2> QED
      BY <2>6, <2>7, <2>8, <2>9, <2>10, <2>11 DEF Unshared
  <1> QED
    BY <1>4, <1>5

LEMMA OthersKeepUnshared ==
    ASSUME Safe, Unshared,
           \/ KernelStep
           \/ \E p \in Peers, h \in Handles : Connect(p, h)
           \/ \E h \in Handles : HandlerCloses(h)
    PROVE  Unshared'
  <1>0. /\ Sound /\ Shape /\ Listeners /\ Acceptors /\ Handlers /\ Closes /\ Pending /\ Fresh
        /\ sock \in [Objects -> Handles \cup {None}] /\ clients \subseteq Handles
        /\ \A d \in closing : d.fd \in Handles
        /\ \A i \in inflight : i.new \in Handles
    BY DEF Safe, Sound, Shape, Unshared, CloseType, PendingType
  <1>1. UNCHANGED <<sock, loop, stop, datas>> /\ inflight' \subseteq inflight /\ clients' \subseteq clients
    BY DEF KernelStep, Complete, CompleteFails, Deliver, Connect, HandlerCloses, kernelVars, fdVars, handVars
  <1>2. OnlyWakes
    BY <1>0, OutsideOnlyWakes DEF Outside
  <1>3. \A o : Busy(o)' <=> Busy(o)
    BY <1>1 DEF Busy
  <1>4. /\ \A h \in Handles : IsClient(h)' <=> IsClient(h)
        /\ \A h \in Handles : kind'[h] = kind[h] \/ IsClient(h)
    <2>1. ASSUME NEW i \in inflight, NEW p \in Peers, Complete(i, p)
          PROVE  /\ \A h \in Handles : IsClient(h)' <=> IsClient(h)
                 /\ \A h \in Handles : kind'[h] = kind[h] \/ IsClient(h)
      <3>1. kind' = [kind EXCEPT ![i.new] = "connected"] /\ IsClient(i.new)
        BY <1>0, <2>1 DEF Complete, Connected, Pending
      <3> QED
        BY <1>0, <3>1 DEF IsClient, Shape
    <2>2. CASE \/ \E q \in port : Deliver(q)
               \/ \E i \in inflight, p \in Peers : CompleteFails(i, p)
               \/ \E p \in Peers, h \in Handles : Connect(p, h)
               \/ \E h \in Handles : HandlerCloses(h)
      BY <2>2 DEF Deliver, CompleteFails, Connect, HandlerCloses, kernelVars, IsClient
    <2> QED
      BY <2>1, <2>2 DEF KernelStep
  <1>5. CASE closing' = closing
    <2>1. \A h : CloseHolds(h)' <=> CloseHolds(h)
      BY <1>5 DEF CloseHolds
    <2>2. Acceptors'
      BY <1>0, <1>1, <1>2, <1>4, <2>1, WakingKeepsAcceptors
    <2>3. Listeners'
      BY <1>0, <1>1, <1>3, <1>4, <1>5 DEF Listeners, IsClient, CloseHolds
    <2>4. Handlers' /\ Pending' /\ Closes' /\ Fresh'
      BY <1>0, <1>1, <1>4, <1>5, <2>1 DEF Handlers, Pending, Closes, Fresh, IsClient
    <2> QED
      BY <2>2, <2>3, <2>4 DEF Unshared
  <1>6. ASSUME NEW h \in Handles, HandlerCloses(h)
        PROVE  Unshared'
    <2> DEFINE new == Close(h, <<"handler", h>>)
    <2>1. /\ h \in clients /\ clients' = clients \ {h} /\ kind' = kind
          /\ closing' = closing \cup {new} /\ new.fd = h /\ new.at = "cancel"
      BY <1>6 DEF HandlerCloses, kernelVars, Close
    <2> HIDE DEF new
    <2>2. IsClient(h) /\ ~CloseHolds(h)
      BY <1>0, <2>1 DEF Handlers
    <2>3. \A g : CloseHolds(g)' <=> CloseHolds(g) \/ g = h
      BY <2>1 DEF CloseHolds
    <2>4. Acceptors'
      BY <1>0, <1>1, <1>2, <1>4, <2>1, <2>3, WakingKeepsAcceptors
    <2>5. Listeners'
      <3>1. \A o \in Objects : ~Busy(o) /\ sock[o] # None =>
               kind[sock[o]] = "listening" /\ \A e \in closing' : e.fd # sock[o]
        BY <1>0, <2>1, <2>2 DEF Listeners, CloseHolds, IsClient
      <3> QED
        BY <1>0, <1>1, <1>3, <2>1, <3>1 DEF Listeners, CloseHolds
    <2>6. Handlers' /\ Pending' /\ Closes' /\ Fresh'
      BY <1>0, <1>1, <1>4, <2>1, <2>2, <2>3 DEF Handlers, Pending, Closes, Fresh, IsClient, CloseHolds
    <2> QED
      BY <2>4, <2>5, <2>6 DEF Unshared
  <1> QED
    BY <1>5, <1>6 DEF KernelStep, Complete, CompleteFails, Deliver, Connect, fdVars

LEMMA StartKeepsUnshared ==
    ASSUME Safe, Unshared, Start
    PROVE  Unshared'
  <1>0. Sound /\ Listeners /\ Acceptors /\ Handlers /\ Closes /\ Pending /\ Fresh
    BY DEF Safe, Unshared
  <1>1. UNCHANGED <<sock, stop, datas, closing, kind, inflight, clients>>
    BY DEF Start, fdVars, kernelVars, handVars
  <1>2. \A a \in Loops : pc'[a] \in Accepting => pc[a] \in Accepting /\ loop'[a] = loop[a]
    <2>1. pc' = [a \in Loops |-> IF a - Cardinality({b \in Loops : pc[b] # "none"}) \in DOMAIN socks
                                 THEN "loop" ELSE pc[a]]
      BY DEF Start
    <2>2. \A a \in Loops : pc'[a] # "loop" => pc'[a] = pc[a] /\ loop'[a] = loop[a]
      BY <2>1 DEF Start
    <2> QED
      BY <2>2 DEF Accepting
  <1>3. Listeners'
    BY <1>0, <1>1 DEF Listeners, CloseHolds, Busy
  <1>4. Acceptors'
    BY <1>0, <1>1, <1>2 DEF Acceptors, IsClient, CloseHolds
  <1>5. Handlers' /\ Closes' /\ Pending' /\ Fresh'
    BY <1>0, <1>1 DEF Handlers, Closes, Pending, Fresh, IsClient, CloseHolds
  <1> QED
    BY <1>3, <1>4, <1>5 DEF Unshared

LEMMA LoopKeepsUnshared ==
    ASSUME Safe, Apart, NEW a \in Loops, LoopStep(a)
    PROVE  Unshared'
  <1>0. /\ Sound /\ Shape /\ Listeners /\ Acceptors /\ Handlers /\ Closes /\ Pending /\ Fresh /\ OneStop
        /\ pc \in [Loops -> Places] /\ loop \in [Loops -> LoopType] /\ loop[a] \in LoopType
        /\ sock \in [Objects -> Handles \cup {None}] /\ clients \subseteq Handles
        /\ \A c \in closing : c.fd \in Handles
        /\ \A i \in inflight : i.new \in Handles
        /\ datas \in [Handles -> CtxType \cup {None}] /\ kind \in [Handles -> Kinds]
    BY DEF Safe, Sound, Shape, Apart, Unshared, CloseType, PendingType
  <1>1. /\ UNCHANGED <<apiVars, stop>>
        /\ \A b \in Loops : b # a => pc'[b] = pc[b] /\ loop'[b] = loop[b]
        /\ Running(a) /\ (Running(a) => loop[a].obj \in Objects)
        /\ ~Leave(a) => sock' = sock
    BY <1>0, LoopFrame DEF Sound, Working
  <1>2. \A o : Busy(o)' <=> Busy(o)
    BY <1>1 DEF Busy
  <1>3. CASE NewSocket(a) /\ Free # {}
    <2>1. PICK n \in Handles : n = NextFree /\ kind[n] = "free"
      BY <1>3, NextIsFree
    <2>2. /\ loop' = [loop EXCEPT ![a].new = n] /\ pc' = [pc EXCEPT ![a] = "ctx"]
          /\ kind' = [kind EXCEPT ![n] = "plain"]
          /\ UNCHANGED <<sock, closing, datas, inflight, clients>>
      BY <1>3, <2>1 DEF NewSocket, Goto, fdVars, handVars
    <2>3. pc'[a] = "ctx" /\ loop'[a].new = n
      BY <1>0, <2>2 DEF LoopType
    <2>4. \A h \in Handles : h # n => kind'[h] = kind[h]
      BY <1>0, <2>2
    <2>5. kind'[n] = "plain"
      BY <1>0, <2>1, <2>2
    <2>6. n \notin clients /\ \A c \in closing : c.fd # n
      BY <1>0, <2>1 DEF Handlers, Closes, IsClient
    <2>7. Acceptors'
      <3>1. \A b \in Loops : b # a /\ pc[b] \in Accepting /\ loop[b].new # None => loop[b].new # n /\ loop[b].new \in Handles
        BY <1>0, <2>1 DEF Acceptors, IsClient, LoopType
      <3>2. n # None
        BY <2>1, ServerBounds
      <3> QED
        BY <1>0, <1>1, <2>2, <2>3, <2>4, <2>5, <2>6, <3>1, <3>2 DEF Acceptors, IsClient, CloseHolds, Accepting
    <2>8. Listeners'
      BY <1>0, <1>2, <2>1, <2>2, <2>4 DEF Listeners, CloseHolds
    <2>9. Handlers' /\ Closes' /\ Pending' /\ Fresh'
      BY <1>0, <2>2, <2>4, <2>5 DEF Handlers, Closes, Pending, Fresh, IsClient, CloseHolds
    <2> QED
      BY <2>7, <2>8, <2>9 DEF Unshared
  <1>4. ASSUME ~(NewSocket(a) /\ Free # {})
        PROVE  \A b \in Loops : pc'[b] \in Accepting /\ loop'[b].new # None =>
                                pc[b] \in Accepting /\ loop'[b].new = loop[b].new
    <2>1. pc'[a] \in Accepting /\ loop'[a].new # None => pc[a] \in Accepting /\ loop'[a].new = loop[a].new
      <3>1. CASE NewSocket(a)
        BY <1>0, <1>4, <3>1 DEF NewSocket, LoopType
      <3>2. CASE KeepCtx(a) \/ MissCtx(a) \/ MakeCtx(a)
        BY <1>0, <3>2 DEF KeepCtx, MissCtx, MakeCtx, Proceed, LoopType, Accepting
      <3>3. CASE Leave(a) \/ AcceptFails(a) \/ AcceptReturns(a) \/ HandOver(a)
        BY <1>0, <3>3 DEF Leave, AcceptFails, AcceptReturns, HandOver, Goto, Accepting
      <3>4. CASE FindCtx(a) \/ FindsNone(a) \/ AcceptSucceeds(a) \/ AcceptPends(a) \/ AddEvent(a) \/ AddEventFails(a)
        BY <1>0, <3>4 DEF FindCtx, FindsNone, AcceptSucceeds, AcceptPends, AddEvent, AddEventFails, Crash, Accepting
      <3> QED
        BY <3>1, <3>2, <3>3, <3>4 DEF LoopStep
    <2> QED
      BY <1>1, <2>1
  <1>5. CASE Leave(a)
    <2>1. UNCHANGED <<loop, datas, kind, inflight, clients>> /\ ~(NewSocket(a) /\ Free # {})
      BY <1>5 DEF Leave, NewSocket, kernelVars, handVars
    <2>2. CASE ~LastHolder(a)
      <3>1. UNCHANGED <<closing, sock>>
        BY <1>5, <2>2 DEF Leave
      <3>2. Acceptors'
        BY <1>0, <1>4, <2>1, <3>1 DEF Acceptors, IsClient, CloseHolds
      <3> QED
        BY <1>0, <1>2, <2>1, <3>1, <3>2
           DEF Listeners, Handlers, Closes, Pending, Fresh, IsClient, CloseHolds, Unshared
    <2>3. CASE LastHolder(a)
      <3> DEFINE new == Close(sock[loop[a].obj], <<"loop", a>>)
      <3>1. PICK o \in Objects : o = loop[a].obj
        BY <1>1
      <3>2. /\ sock[o] # None /\ o \notin Range(socks)
            /\ closing' = closing \cup {new} /\ new.fd = sock[o] /\ new.at = "cancel"
            /\ sock' = [sock EXCEPT ![o] = None]
        BY <1>5, <2>3, <3>1 DEF Leave, LastHolder, Close
      <3> HIDE DEF new
      <3>3. ~Busy(o)
        <4> SUFFICES ASSUME NEW s \in Stops, stop[s].at = "closing", Head(stop[s].left) = o
                     PROVE  FALSE
          BY DEF Busy
        <4>1. stop[s].left # <<>> /\ stop[s].left \in Seq(Objects) /\ Range(stop[s].left) \subseteq Range(socks)
          BY <1>0 DEF Sound, Listed, OneStop, Shape
        <4>2. o \in Range(stop[s].left)
          BY <4>1, SeqFacts
        <4> QED
          BY <3>2, <4>1, <4>2
      <3>4. kind[sock[o]] = "listening" /\ \A c \in closing : c.fd # sock[o]
        BY <1>0, <3>2, <3>3 DEF Listeners, CloseHolds
      <3>5. Listeners'
        <4>1. \A p \in Objects : sock'[p] # None => p # o /\ sock'[p] = sock[p]
          BY <1>0, <3>2
        <4>2. \A p \in Objects : ~Busy(p) /\ sock[p] # None /\ p # o =>
                 kind[sock[p]] = "listening" /\ \A c \in closing' : c.fd # sock[p]
          BY <1>0, <3>2, <3>3 DEF Listeners, CloseHolds
        <4>3. \A p \in Objects : ~Busy(p)' /\ sock'[p] # None => kind'[sock'[p]] = "listening" /\ \A c \in closing' : c.fd # sock'[p]
          BY <1>2, <2>1, <4>1, <4>2
        <4>4. \A p, q \in Objects : ~Busy(p)' /\ ~Busy(q)' /\ sock'[p] = sock'[q] /\ sock'[p] # None => p = q
          BY <1>0, <1>2, <4>1 DEF Listeners
        <4> QED
          BY <4>3, <4>4 DEF Listeners, CloseHolds
      <3>6. Acceptors'
        BY <1>0, <1>4, <2>1, <3>2, <3>4 DEF Acceptors, IsClient, CloseHolds
      <3>7. Handlers' /\ Closes' /\ Pending' /\ Fresh'
        BY <1>0, <2>1, <3>2, <3>4 DEF Handlers, Closes, Pending, Fresh, IsClient, CloseHolds
      <3> QED
        BY <3>5, <3>6, <3>7 DEF Unshared
    <2> QED
      BY <2>2, <2>3
  <1>6. CASE AcceptFails(a) /\ loop[a].new # None
    <2> DEFINE new == Close(loop[a].new, <<"loop", a>>)
    <2>1. PICK h \in Handles : h = loop[a].new
      BY <1>0, <1>6 DEF LoopType
    <2>2. /\ UNCHANGED <<sock, loop, datas, kind, inflight, clients>> /\ ~(NewSocket(a) /\ Free # {})
          /\ closing' = closing \cup {new} /\ new.fd = h /\ new.at = "cancel"
          /\ pc[a] = "issue" /\ pc' = [pc EXCEPT ![a] = "closing"]
      BY <1>6, <2>1 DEF AcceptFails, NewSocket, kernelVars, handVars, Close, Goto
    <2> HIDE DEF new
    <2>3. /\ IsClient(h) /\ h \notin clients /\ \A c \in closing : c.fd # h
          /\ \A b \in Loops : pc[b] \in Accepting /\ loop[b].new = h => a = b
      BY <1>0, <1>6, <2>1, <2>2 DEF Acceptors, CloseHolds, Accepting
    <2>4. Listeners'
      <3>1. \A o \in Objects : ~Busy(o) /\ sock[o] # None =>
               kind[sock[o]] = "listening" /\ \A e \in closing' : e.fd # sock[o]
        BY <1>0, <2>2, <2>3 DEF Listeners, CloseHolds, IsClient
      <3> QED
        BY <1>0, <1>2, <2>2, <3>1 DEF Listeners, CloseHolds
    <2>5. Acceptors'
      <3>1. \A b \in Loops : pc'[b] \in Accepting => b # a
        BY <1>0, <2>2 DEF Accepting
      <3>2. \A b \in Loops : pc'[b] \in Accepting /\ loop'[b].new # None => loop[b].new # h
        BY <1>1, <2>3, <3>1
      <3> QED
        BY <1>0, <1>4, <2>2, <3>2 DEF Acceptors, IsClient, CloseHolds
    <2>6. Handlers' /\ Closes' /\ Pending' /\ Fresh'
      BY <1>0, <2>2, <2>3 DEF Handlers, Closes, Pending, Fresh, IsClient, CloseHolds
    <2> QED
      BY <2>4, <2>5, <2>6 DEF Unshared
  <1>7. CASE HandOver(a) /\ datas[loop[a].new] # None
    <2>1. PICK h \in Handles : h = loop[a].new
      BY <1>0, <1>7 DEF HandOver, Sound, Working
    <2>2. /\ UNCHANGED <<sock, closing, kind, inflight>> /\ ~(NewSocket(a) /\ Free # {})
          /\ clients' = clients \cup {h} /\ datas' = [datas EXCEPT ![h] = [@ EXCEPT !.recv = TRUE]]
          /\ pc[a] = "init" /\ pc' = [pc EXCEPT ![a] = "loop"] /\ h # None /\ datas[h] # None
      BY <1>7, <2>1, ServerBounds DEF HandOver, NewSocket, kernelVars, Goto
    <2>3. /\ IsClient(h) /\ \A c \in closing : c.fd # h
          /\ \A b \in Loops : pc[b] \in Accepting /\ loop[b].new = h => a = b
      BY <1>0, <2>1, <2>2 DEF Acceptors, CloseHolds, Accepting
    <2>4. Acceptors'
      <3>1. \A b \in Loops : pc'[b] \in Accepting => b # a
        BY <1>0, <2>2 DEF Accepting
      <3>2. \A b \in Loops : pc'[b] \in Accepting /\ loop'[b].new # None => loop[b].new # h
        BY <1>1, <2>3, <3>1
      <3> QED
        BY <1>0, <1>4, <2>2, <3>2 DEF Acceptors, IsClient, CloseHolds
    <2>5. Fresh'
      <3>1. datas[h] \in CtxType
        BY <1>0, <2>2
      <3>2. /\ datas'[h].recv /\ datas'[h].stale = datas[h].stale /\ datas'[h] \in CtxType
        BY <1>0, <2>2, <3>1 DEF CtxType
      <3>3. \A g \in Handles : g # h => datas'[g] = datas[g]
        BY <1>0, <2>2
      <3>4. datas'[h] # None
        BY <3>2, CtxNotNone
      <3> QED
        BY <1>0, <2>2, <2>3, <3>2, <3>3, <3>4 DEF Fresh
    <2>6. Listeners' /\ Handlers' /\ Closes' /\ Pending'
      BY <1>0, <1>2, <2>2, <2>3 DEF Listeners, Handlers, Closes, Pending, IsClient, CloseHolds
    <2> QED
      BY <2>4, <2>5, <2>6 DEF Unshared
  <1>8. CASE KeepCtx(a) \/ MissCtx(a) \/ MakeCtx(a)
    <2>1. PICK h \in Handles : h = loop[a].new
      BY <1>0, <1>8 DEF KeepCtx, MissCtx, MakeCtx, Sound, Working
    <2>2. /\ UNCHANGED <<sock, closing, kind, inflight, clients>> /\ ~(NewSocket(a) /\ Free # {})
          /\ datas' = datas \/ datas' = [datas EXCEPT ![h] = NewCtx]
          /\ pc[a] \in {"ctx", "fill"} /\ h # None
      BY <1>8, <2>1, ServerBounds DEF KeepCtx, MissCtx, MakeCtx, NewSocket, fdVars, kernelVars, handVars
    <2>3. h \notin clients /\ \A c \in closing : c.fd # h
      BY <1>0, <2>1, <2>2 DEF Acceptors, CloseHolds, Accepting
    <2>4. Fresh'
      <3>1. \A g \in Handles : g # h => datas'[g] = datas[g]
        BY <1>0, <2>2
      <3>2. datas'[h] # None => ~datas'[h].stale
        BY <1>0, <2>2 DEF Fresh, NewCtx
      <3> QED
        BY <1>0, <2>2, <2>3, <3>1, <3>2 DEF Fresh
    <2>5. Acceptors'
      BY <1>0, <1>4, <2>2 DEF Acceptors, IsClient, CloseHolds
    <2>6. Listeners' /\ Handlers' /\ Closes' /\ Pending'
      BY <1>0, <1>2, <2>2 DEF Listeners, Handlers, Closes, Pending, IsClient, CloseHolds
    <2> QED
      BY <2>4, <2>5, <2>6 DEF Unshared
  <1>9. CASE AcceptSucceeds(a) \/ AcceptPends(a)
    <2>1. PICK h \in Handles : h = loop[a].new /\ kind[h] = "plain"
      BY <1>0, <1>9 DEF AcceptSucceeds, AcceptPends, CanAccept, LoopType
    <2>2. /\ UNCHANGED <<sock, closing, clients, datas>> /\ ~(NewSocket(a) /\ Free # {})
      BY <1>9 DEF AcceptSucceeds, AcceptPends, NewSocket, fdVars, handVars
    <2>3. /\ \A g \in Handles : g # h => kind'[g] = kind[g]
          /\ kind'[h] \in {"plain", "connected"}
      BY <1>0, <1>9, <2>1 DEF AcceptSucceeds, AcceptPends, Connected
    <2>4. \A g \in Handles : IsClient(g) => IsClient(g)'
      BY <2>3 DEF IsClient
    <2>5. \A i \in inflight' : i \in inflight \/ i.new = h
      BY <1>9, <2>1 DEF AcceptSucceeds, AcceptPends
    <2>6. Acceptors'
      BY <1>0, <1>4, <2>2, <2>3, <2>4 DEF Acceptors, IsClient, CloseHolds, LoopType
    <2>7. Listeners'
      <3>1. \A o \in Objects : ~Busy(o) /\ sock[o] # None => kind'[sock[o]] = "listening"
        BY <1>0, <2>1, <2>3 DEF Listeners
      <3> QED
        BY <1>0, <1>2, <2>2, <3>1 DEF Listeners, CloseHolds
    <2>8. Handlers' /\ Closes' /\ Fresh'
      BY <1>0, <2>2, <2>3, <2>4 DEF Handlers, Closes, Fresh, CloseHolds
    <2>9. Pending'
      BY <1>0, <2>3, <2>4, <2>5 DEF Pending, IsClient
    <2> QED
      BY <2>6, <2>7, <2>8, <2>9 DEF Unshared
  <1>10. CASE \/ FindCtx(a) \/ FindsNone(a) \/ AcceptReturns(a) \/ AddEvent(a) \/ AddEventFails(a)
              \/ AcceptFails(a) /\ loop[a].new = None
              \/ NewSocket(a) /\ Free = {}
              \/ HandOver(a) /\ datas[loop[a].new] = None
    <2>1. UNCHANGED <<sock, closing, kind, inflight, clients, datas>> /\ ~(NewSocket(a) /\ Free # {})
      BY <1>10 DEF FindCtx, FindsNone, AcceptReturns, AddEvent, AddEventFails, AcceptFails, NewSocket,
                   HandOver, Crash, fdVars, kernelVars, handVars
    <2>2. Acceptors'
      BY <1>0, <1>4, <2>1 DEF Acceptors, IsClient, CloseHolds
    <2>3. Listeners' /\ Handlers' /\ Closes' /\ Pending' /\ Fresh'
      BY <1>0, <1>2, <2>1 DEF Listeners, Handlers, Closes, Pending, Fresh, IsClient, CloseHolds
    <2> QED
      BY <2>2, <2>3 DEF Unshared
  <1> QED
    BY <1>3, <1>5, <1>6, <1>7, <1>8, <1>9, <1>10 DEF LoopStep

LEMMA ApartNext ==
    ASSUME Safe, Apart, Fit', Next, ~crashed'
    PROVE  Apart'
  <1>1. OneStop'
    BY OneStopNext DEF Apart
  <1>2. ASSUME NEW s \in Stops, Stop(s) \/ StopStep(s)
        PROVE  Unshared'
    BY <1>2, StopKeepsUnshared
  <1>3. ASSUME NEW c \in closing, CloseCancels(c) \/ CloseDeletes(c) \/ CloseEnds(c)
        PROVE  Unshared'
    BY <1>3, CloseKeepsUnshared DEF Apart
  <1>4. ASSUME NEW a \in Loops, LoopStep(a)
        PROVE  Unshared'
    BY <1>4, LoopKeepsUnshared
  <1>5. Bind \/ Start => Unshared'
    BY BindKeepsUnshared, StartKeepsUnshared DEF Apart
  <1>6. \/ KernelStep
        \/ \E p \in Peers, h \in Handles : Connect(p, h)
        \/ \E h \in Handles : HandlerCloses(h)
        => Unshared'
    BY OthersKeepUnshared DEF Apart
  <1>7. Unshared'
    BY <1>2, <1>3, <1>4, <1>5, <1>6 DEF Next, CloseStep
  <1> QED
    BY <1>1, <1>7 DEF Apart

LEMMA KnowsInit == Init => KnowsInv
  <1> SUFFICES ASSUME Init PROVE KnowsInv
    OBVIOUS
  <1>1. Range(<<>>) = {}
    BY EmptySeq DEF Range
  <1>2. OneStop
    BY <1>1 DEF Init, OneStop, Active
  <1>3. Unshared
    BY DEF Init, Unshared, Listeners, Acceptors, Accepting, Handlers, Closes, Pending, Fresh
  <1>4. Quiet
    <2>1. \A i, j \in 1..Len(socks) : socks[i] = socks[j] => i = j
      BY EmptySeq DEF Init
    <2>2. \A o \in Objects : ~InUse(o)
      BY <1>1 DEF Init, InUse, Running
    <2> QED
      BY <2>1, <2>2 DEF Init, Quiet, Running
  <1>5. Answers
    BY DEF Init, Answers
  <1> QED
    BY <1>2, <1>3, <1>4, <1>5 DEF KnowsInv, Apart

(* What the steps of a server that nobody stops start from.                *)
Undisturbed == Safe /\ Apart /\ Nobody /\ Quiet /\ Answers

LEMMA QuietObjects ==
    ASSUME Undisturbed
    PROVE  /\ \A o \in Objects : ~Busy(o)
           /\ \A o, p \in Objects : sock[o] = sock[p] /\ sock[o] # None => o = p
           /\ \A a \in Loops : Running(a) =>
                 /\ loop[a].obj \in Objects /\ sock[loop[a].obj] \in Handles
                 /\ kind[sock[loop[a].obj]] = "listening" /\ ~CloseHolds(sock[loop[a].obj])
  <1>0. /\ Shape /\ Working /\ Listeners /\ Nobody /\ Quiet
    BY DEF Undisturbed, Safe, Sound, Apart, Unshared
  <1>1. \A o \in Objects : ~Busy(o)
    BY <1>0 DEF Busy, Nobody
  <1>2. \A o, p \in Objects : sock[o] = sock[p] /\ sock[o] # None => o = p
    BY <1>0, <1>1 DEF Listeners
  <1>3. ASSUME NEW a \in Loops, Running(a)
        PROVE  /\ loop[a].obj \in Objects /\ sock[loop[a].obj] \in Handles
               /\ kind[sock[loop[a].obj]] = "listening" /\ ~CloseHolds(sock[loop[a].obj])
    <2>1. loop[a].obj \in Objects /\ sock[loop[a].obj] # None
      BY <1>0, <1>3 DEF Working, Quiet, InUse
    <2> QED
      BY <1>0, <1>1, <2>1 DEF Listeners, Shape
  <1> QED
    BY <1>1, <1>2, <1>3

LEMMA BindKeepsQuiet ==
    ASSUME Undisturbed, Bind
    PROVE  Quiet' /\ Answers'
  <1>0. Safe /\ Shape /\ Made /\ Working /\ Nobody /\ Quiet /\ Answers
    BY DEF Undisturbed, Safe, Sound
  <1>1. ~crashed'
    BY <1>0 DEF Bind, Iterating, Nobody
  <1>2. UNCHANGED <<isStop, pc, loop, peer, port, phantoms>>
    BY DEF Bind, BindSucceeds, BindFails, kernelVars, handVars
  <1>3. \A a \in Loops : Running(a)' <=> Running(a)
    BY <1>2 DEF Running
  <1>4. ASSUME NEW fd \in [1..Cardinality(Addrs) -> Free], NEW passed, BindSucceeds(passed, fd)
        PROVE  Quiet' /\ Answers'
    <2> DEFINE n == Cardinality(Addrs)
               new == [i \in DOMAIN fd |-> made + i]
    <2>1. n \in Nat
      BY ServerBounds, FS_CardinalityType
    <2> HIDE DEF n
    <2>2. fd \in [1..n -> Free] /\ Free \subseteq Handles /\ DOMAIN fd = 1..n /\ Len(fd) = n
      <3>1. fd \in [1..n -> Free] /\ Free \subseteq Handles
        BY DEF Free, n
      <3> QED
        BY <2>1, <3>1, IsASeq
    <2>3. n \in Nat /\ made \in Nat /\ made + n <= MaxObjects /\ Objects = 1..MaxObjects
      BY <1>0, <1>4, <2>1 DEF BindSucceeds, Shape, n, Objects
    <2>4. \A i \in 1..n : made + i \in Objects /\ new[i] = made + i
      BY <2>2, <2>3, ServerBounds
    <2>5. new \in Seq(Objects) /\ Len(new) = n
      BY <2>2, <2>3, <2>4, IsASeq
    <2>6. /\ socks' = socks \o new
          /\ sock' = [o \in Objects |-> IF o - made \in 1..n THEN fd[o - made] ELSE sock[o]]
          /\ inflight' = inflight
      BY <1>4, <2>2 DEF BindSucceeds
    <2> HIDE DEF new
    <2>7. Range(socks') = Range(socks) \cup Range(new)
      BY <1>0, <2>5, <2>6, SeqFacts DEF Shape
    <2>8. \A o \in Objects : o <= made => sock'[o] = sock[o]
      BY <2>3, <2>6
    <2>9. \A o \in Objects : o \in Range(socks) \/ (\E a \in Loops : Running(a) /\ loop[a].obj = o) => o <= made
      BY <1>0, <2>3 DEF Made
    <2>10. \A i, j \in 1..Len(socks') : socks'[i] = socks'[j] => i = j
      <3>1. /\ socks \in Seq(Objects) /\ Len(socks) \in Nat /\ Len(socks') = Len(socks) + n
            /\ \A i \in 1..Len(socks) : socks'[i] = socks[i] /\ socks[i] \in Range(socks) /\ socks[i] \in Objects
        <4>1. socks \in Seq(Objects) /\ DOMAIN socks = 1..Len(socks) /\ Len(socks) \in Nat
          BY <1>0 DEF Shape
        <4>2. /\ Len(socks') = Len(socks) + n
              /\ \A i \in 1..Len(socks') : socks'[i] = IF i <= Len(socks) THEN socks[i] ELSE new[i - Len(socks)]
          <5>1. /\ Len(socks \o new) = Len(socks) + n
                /\ \A i \in 1..(Len(socks) + n) :
                      (socks \o new)[i] = IF i <= Len(socks) THEN socks[i] ELSE new[i - Len(socks)]
            BY <2>5, <4>1, ConcatProperties
          <5> QED
            BY <2>6, <5>1
        <4>3. \A i \in 1..Len(socks) : i \in 1..Len(socks') /\ i <= Len(socks)
          BY <2>3, <4>1, <4>2
        <4>4. \A i \in 1..Len(socks) : socks'[i] = socks[i] /\ socks[i] \in Objects
          BY <4>1, <4>2, <4>3
        <4>5. \A i \in 1..Len(socks) : socks[i] \in Range(socks)
          BY <4>1 DEF Range
        <4> QED
          BY <4>1, <4>2, <4>4, <4>5
      <3>2. \A i \in 1..Len(socks) : socks'[i] <= made
        BY <2>9, <3>1
      <3>3. \A i \in 1..Len(socks') : i > Len(socks) =>
               i - Len(socks) \in 1..n /\ socks'[i] = made + (i - Len(socks))
        <4> SUFFICES ASSUME NEW i \in 1..Len(socks'), i > Len(socks)
                     PROVE  i - Len(socks) \in 1..n /\ socks'[i] = made + (i - Len(socks))
          OBVIOUS
        <4>1. i - Len(socks) \in 1..n
          BY <2>3, <3>1
        <4>2. socks'[i] = new[i - Len(socks)]
          BY <2>5, <2>6, <3>1, ConcatProperties
        <4> QED
          BY <2>4, <4>1, <4>2
      <3> SUFFICES ASSUME NEW i \in 1..Len(socks'), NEW j \in 1..Len(socks'), socks'[i] = socks'[j]
                   PROVE  i = j
        OBVIOUS
      <3>4. CASE i <= Len(socks) /\ j <= Len(socks)
        BY <1>0, <3>1, <3>4 DEF Quiet
      <3>5. CASE i > Len(socks) /\ j > Len(socks)
        BY <2>3, <3>1, <3>3, <3>5
      <3>6. CASE i <= Len(socks) /\ j > Len(socks)
        <4>1. socks'[i] <= made /\ socks'[j] = made + (j - Len(socks)) /\ j - Len(socks) \in 1..n
          BY <3>1, <3>2, <3>3, <3>6
        <4> QED
          BY <2>3, <4>1
      <3>7. CASE i > Len(socks) /\ j <= Len(socks)
        <4>1. socks'[j] <= made /\ socks'[i] = made + (i - Len(socks)) /\ i - Len(socks) \in 1..n
          BY <3>1, <3>2, <3>3, <3>7
        <4> QED
          BY <2>3, <4>1
      <3> QED
        BY <3>1, <3>4, <3>5, <3>6, <3>7
    <2>11. ASSUME NEW o \in Objects, InUse(o)'
           PROVE  sock'[o] # None
      <3>1. CASE InUse(o)
        BY <1>0, <2>8, <2>9, <3>1 DEF InUse, Quiet
      <3>2. CASE o \in Range(new)
        <4>1. PICK i \in 1..n : o = made + i
          BY <2>2, <2>4, <2>5, <3>2 DEF Range, new
        <4>2. o - made = i
          BY <2>3, <4>1
        <4>3. sock'[o] = fd[i]
          BY <2>6, <4>2
        <4> QED
          BY <2>2, <4>3, ServerBounds
      <3> QED
        BY <1>2, <1>3, <2>7, <2>11, <3>1, <3>2 DEF InUse
    <2>12. \A a \in Loops : Running(a) => sock'[loop[a].obj] = sock[loop[a].obj]
      BY <1>0, <2>8, <2>9 DEF Working
    <2>13. Quiet'
      BY <1>0, <1>1, <1>2, <1>3, <2>10, <2>11, <2>12 DEF Quiet, Running
    <2>14. Answers'
      BY <1>0, <1>2, <2>6 DEF Answers
    <2> QED
      BY <2>13, <2>14
  <1>5. ASSUME NEW F, NEW passed, BindFails(F, passed)
        PROVE  Quiet' /\ Answers'
    <2> DEFINE held == {loop[a].obj : a \in {b \in Loops : Running(b)}}
               dropped == {sock[o] : o \in Range(socks) \ held}
    <2>1. /\ socks' = <<>> /\ inflight' \subseteq inflight
          /\ sock' = [o \in Objects |-> IF sock[o] \in dropped THEN None ELSE sock[o]]
      BY <1>5 DEF BindFails, Clear
    <2>2. Range(socks) \subseteq Objects
      BY <1>0, SeqFacts DEF Shape
    <2>3. \A a \in Loops : Running(a) => sock'[loop[a].obj] = sock[loop[a].obj]
      <3> SUFFICES ASSUME NEW a \in Loops, Running(a), sock[loop[a].obj] \in dropped
                   PROVE  FALSE
        BY <2>1, QuietObjects
      <3>1. PICK o \in Range(socks) \ held : sock[o] = sock[loop[a].obj]
        OBVIOUS
      <3>2. o = loop[a].obj
        BY <2>2, <3>1, QuietObjects, ServerBounds
      <3> QED
        BY <3>1, <3>2
    <2>4. Range(socks') = {} /\ Len(socks') = 0
      BY <2>1, EmptySeq DEF Range
    <2>5. \A o \in Objects : InUse(o)' => sock'[o] # None
      BY <1>2, <1>3, <2>3, <2>4, QuietObjects, ServerBounds DEF InUse
    <2>6. Quiet'
      BY <1>0, <1>1, <1>2, <1>3, <2>3, <2>4, <2>5 DEF Quiet, Running
    <2>7. Answers'
      BY <1>0, <1>2, <2>1 DEF Answers
    <2> QED
      BY <2>6, <2>7
  <1> QED
    BY <1>4, <1>5 DEF Bind

LEMMA StartKeepsQuiet ==
    ASSUME Undisturbed, Start
    PROVE  Quiet' /\ Answers'
  <1>0. Sound /\ Shape /\ Nobody /\ Quiet /\ Answers /\ \A i \in inflight : i.by \in Loops
    BY DEF Undisturbed, Safe, Sound, Shape, PendingType
  <1>1. /\ UNCHANGED <<crashed, phantoms, socks, sock, peer, inflight, port>> /\ isStop /\ isStop' = FALSE
        /\ \A a \in Loops : pc[a] = "none"
    BY <1>0 DEF Start, kernelVars, handVars, Quiet
  <1>2. PICK n \in Nat :
            /\ n + Len(socks) <= MaxLoops
            /\ \A a \in Loops : pc[a] # "none" <=> a <= n
            /\ \A a \in Loops : a <= n \/ a > n + Len(socks) => pc'[a] = pc[a] /\ loop'[a] = loop[a]
            /\ \A a \in Loops : a > n /\ a <= n + Len(socks) =>
                  /\ pc'[a] = "loop" /\ a - n \in 1..Len(socks)
                  /\ loop'[a] = [NoLoop EXCEPT !.obj = socks[a - n]]
    BY <1>0, StartsTheNext
  <1>3. ASSUME NEW a \in Loops
        PROVE  \/ pc'[a] = "none"
               \/ /\ pc'[a] = "loop" /\ a - n \in 1..Len(socks) /\ loop'[a].obj = socks[a - n]
                  /\ socks[a - n] \in Range(socks) /\ a \in Nat
    <2>1. socks \in Seq(Objects) /\ Len(socks) \in Nat /\ a \in Nat /\ DOMAIN socks = 1..Len(socks)
      BY <1>0 DEF Shape, Loops
    <2>2. CASE a <= n \/ a > n + Len(socks)
      BY <1>1, <1>2, <2>2
    <2>3. CASE a > n /\ a <= n + Len(socks)
      BY <1>2, <2>1, <2>3 DEF NoLoop, Range
    <2> QED
      BY <1>2, <2>1, <2>2, <2>3
  <1>4. \A o \in Objects : InUse(o)' => InUse(o)
    BY <1>1, <1>3 DEF InUse, Running
  <1>5. \A a, b \in Loops : Running(a)' /\ Running(b)' /\ loop'[a].obj = loop'[b].obj => a = b
    <2> SUFFICES ASSUME NEW a \in Loops, NEW b \in Loops, Running(a)', Running(b)', loop'[a].obj = loop'[b].obj
                 PROVE  a = b
      OBVIOUS
    <2>1. a - n = b - n
      BY <1>0, <1>3 DEF Running, Quiet
    <2>2. a \in Nat /\ b \in Nat
      BY DEF Loops
    <2> QED
      BY <2>1, <2>2
  <1>6. Quiet'
    BY <1>0, <1>1, <1>3, <1>4, <1>5 DEF Quiet
  <1>7. inflight = {} /\ port = {}
    <2>1. \A i \in inflight : FALSE
      BY <1>0, <1>1 DEF Answers
    <2>2. \A q \in port : q.by \in Loops
      BY <1>0 DEF Shape, PacketType
    <2>3. \A q \in port : FALSE
      BY <1>0, <1>1, <2>2 DEF Answers
    <2> QED
      BY <2>1, <2>3
  <1>8. Answers'
    BY <1>1, <1>7 DEF Answers
  <1> QED
    BY <1>6, <1>8

LEMMA CloseKeepsQuiet ==
    ASSUME Undisturbed, NEW c \in closing, CloseCancels(c) \/ CloseDeletes(c) \/ CloseEnds(c)
    PROVE  Quiet' /\ Answers'
  <1>0. /\ Sound /\ Shape /\ Working /\ RegIsHeld /\ Nobody /\ Quiet /\ Answers /\ Acceptors
        /\ c.fd \in Handles /\ CloseHolds(c.fd)
        /\ \A q \in port : q.by \in Loops
    BY DEF Undisturbed, Safe, Sound, Shape, Apart, Unshared, CloseType, CloseHolds, PacketType
  <1>1. UNCHANGED <<crashed, phantoms, isStop, socks, sock, loop>>
    BY DEF CloseCancels, CloseDeletes, CloseEnds, apiVars, handVars
  (* A descriptor that is being closed has no loop waiting at it. *)
  <1>2. reg[c.fd] = None
    <2> SUFFICES ASSUME reg[c.fd] # None
                 PROVE  FALSE
      OBVIOUS
    <2>1. PICK a \in Loops : a = reg[c.fd] /\ pc[a] = "held" /\ loop[a].lfd = c.fd
      BY <1>0 DEF RegIsHeld, Shape
    <2>2. ~CloseHolds(sock[loop[a].obj])
      BY <2>1, QuietObjects DEF Running
    <2>3. loop[a].lfd = sock[loop[a].obj]
      BY <1>0, <2>1 DEF Quiet
    <2> QED
      BY <1>0, <2>1, <2>2, <2>3
  <1>3. pc' = pc /\ port' = port /\ inflight' \subseteq inflight
    BY <1>2 DEF CloseCancels, CloseDeletes, CloseEnds, CancelAll, kernelVars
  <1>4. \A h \in Handles : h # c.fd => peer'[h] = peer[h]
    BY <1>0 DEF CloseCancels, CloseDeletes, CloseEnds, kernelVars, Shape
  <1>5. \A a \in Loops : pc[a] \in {"init", "add", "held"} => peer'[loop[a].new] = peer[loop[a].new]
    <2> SUFFICES ASSUME NEW a \in Loops, pc[a] \in {"init", "add", "held"}
                 PROVE  peer'[loop[a].new] = peer[loop[a].new]
      OBVIOUS
    <2>1. loop[a].new \in Handles /\ loop[a].new # None
      BY <1>0, ServerBounds DEF Working
    <2>2. ~CloseHolds(loop[a].new)
      BY <1>0, <2>1 DEF Acceptors, Accepting
    <2> QED
      BY <1>0, <1>4, <2>1, <2>2
  <1>6. Quiet'
    BY <1>0, <1>1, <1>3, <1>5 DEF Quiet, Running, InUse
  <1>7. Answers'
    BY <1>0, <1>1, <1>3, <1>5 DEF Answers
  <1> QED
    BY <1>6, <1>7

LEMMA OthersKeepQuiet ==
    ASSUME Undisturbed,
           \/ KernelStep
           \/ \E p \in Peers, h \in Handles : Connect(p, h)
           \/ \E h \in Handles : HandlerCloses(h)
    PROVE  Quiet' /\ Answers'
  <1>0. /\ Sound /\ Shape /\ Working /\ RegIsHeld /\ Nobody /\ Quiet /\ Answers /\ Acceptors
        /\ \A q \in port : q.by \in Loops /\ q.fd \in Handles
        /\ inflight \subseteq PendingType
        /\ \A i \in inflight : i.by \in Loops /\ i.new \in Handles
        /\ peer \in [Handles -> Peers \cup {None}] /\ pc \in [Loops -> Places]
    BY DEF Undisturbed, Safe, Sound, Shape, Apart, Unshared, PacketType, PendingType
  <1>1. UNCHANGED <<crashed, phantoms, isStop, socks, sock, loop>>
    BY DEF KernelStep, Complete, CompleteFails, Deliver, Connect, HandlerCloses, apiVars, handVars
  <1>2. ASSUME NEW i \in inflight, NEW p \in Peers, Complete(i, p)
        PROVE  Quiet' /\ Answers'
    <2>1. /\ pc' = pc /\ inflight' = inflight \ {i} /\ peer' = [peer EXCEPT ![i.new] = p]
          /\ port' \subseteq port \cup {[fd |-> i.lfd, by |-> i.by]}
      BY <1>2 DEF Complete, Connected
    <2>2. p # None
      BY ServerBounds
    <2>3. \A h \in Handles : peer[h] # None => peer'[h] # None
      BY <1>0, <2>1, <2>2
    <2>4. peer'[i.new] # None /\ i.by \in Loops /\ i.new \in Handles
      BY <1>0, <2>1, <2>2
    <2>5. Quiet'
      <3>1. \A a \in Loops : pc[a] = "init" => peer'[loop[a].new] # None
        BY <1>0, <2>3 DEF Quiet, Working
      <3> QED
        BY <1>0, <1>1, <2>1, <3>1 DEF Quiet, Running, InUse
    <2>6. Answers'
      <3>1. \A j \in inflight' : j.by # i.by
        <4> SUFFICES ASSUME NEW j \in inflight', j.by = i.by
                     PROVE  FALSE
          OBVIOUS
        <4>1. j \in inflight /\ j # i /\ j.new = i.new /\ j.lfd = i.lfd
          BY <1>0, <2>1 DEF Answers
        <4> QED
          BY <1>0, <4>1 DEF PendingType
      <3>2. \A q \in port' : q \in port \/ (q.by = i.by /\ q = [fd |-> i.lfd, by |-> i.by])
        BY <2>1
      <3>3. \A q \in port' : pc'[q.by] \in {"add", "held"} /\ peer'[loop'[q.by].new] # None
        <4> SUFFICES ASSUME NEW q \in port'
                     PROVE  pc[q.by] \in {"add", "held"} /\ peer'[loop[q.by].new] # None
          BY <1>1, <2>1
        <4>1. CASE q \in port
          BY <1>0, <2>3, <4>1 DEF Answers, Working
        <4>2. CASE q.by = i.by
          BY <1>0, <2>4, <4>2 DEF Answers
        <4> QED
          BY <3>2, <4>1, <4>2
      <3>4. \A q \in port : q.by # i.by
        BY <1>0 DEF Answers
      <3>5. \A j \in inflight', q \in port' : j.by # q.by
        BY <1>0, <2>1, <3>1, <3>2 DEF Answers
      <3>6. \A q, r \in port' : q.by = r.by => q = r
        BY <1>0, <3>2, <3>4 DEF Answers
      <3> QED
        BY <1>0, <1>1, <2>1, <3>3, <3>5, <3>6 DEF Answers
    <2> QED
      BY <2>5, <2>6
  <1>6. ASSUME NEW i \in inflight, NEW p \in Peers, CompleteFails(i, p)
        PROVE  Quiet' /\ Answers'
    <2>1. UNCHANGED <<pc, peer, port>> /\ inflight' \subseteq inflight
      BY <1>6 DEF CompleteFails
    <2> QED
      BY <1>0, <1>1, <2>1 DEF Quiet, Answers, Running, InUse
  <1>3. ASSUME NEW q \in port, Deliver(q)
        PROVE  Quiet' /\ Answers'
    <2>1. port' = port \ {q} /\ peer' = peer /\ inflight' = inflight
      BY <1>3 DEF Deliver
    <2>2. CASE reg[q.fd] = q.by
      <3>1. pc' = [pc EXCEPT ![q.by] = "init"] /\ pc[q.by] = "held" /\ q.by \in Loops
        <4>1. q.by \in Loops /\ q.fd \in Handles /\ q.by # None
          BY <1>0, ServerBounds DEF Loops
        <4>2. pc[q.by] = "held"
          BY <1>0, <2>2, <4>1 DEF RegIsHeld
        <4> QED
          BY <1>3, <2>2, <4>1, <4>2 DEF Deliver, Goto
      <3>2. peer[loop[q.by].new] # None
        BY <1>0 DEF Answers
      <3>3. \A a \in Loops : pc'[a] = IF a = q.by THEN "init" ELSE pc[a]
        BY <1>0, <3>1
      <3>4. \A a \in Loops : Running(a)' <=> Running(a)
        BY <3>1, <3>3 DEF Running
      <3>5. Quiet'
        <4>1. \A a \in Loops : pc'[a] \in {"find", "issue", "add", "held"} => loop[a].lfd = sock[loop[a].obj]
          BY <1>0, <3>3 DEF Quiet
        <4>2. \A a \in Loops : pc'[a] = "init" => peer[loop[a].new] # None
          BY <1>0, <3>2, <3>3 DEF Quiet
        <4>3. isStop => \A a \in Loops : pc'[a] = "none"
          BY <1>0, <3>1 DEF Quiet
        <4>4. \A o : InUse(o)' <=> InUse(o)
          BY <1>1, <3>4 DEF InUse
        <4> QED
          BY <1>0, <1>1, <2>1, <3>4, <4>1, <4>2, <4>3, <4>4 DEF Quiet
      <3>6. (\A i \in inflight : i.by # q.by) /\ (\A r \in port' : r.by # q.by)
        BY <1>0, <2>1 DEF Answers
      <3>7. Answers'
        BY <1>0, <1>1, <2>1, <3>3, <3>6 DEF Answers
      <3> QED
        BY <3>5, <3>7
    <2>3. CASE reg[q.fd] # q.by
      <3>1. pc' = pc
        BY <1>3, <2>3 DEF Deliver
      <3>2. Quiet'
        BY <1>0, <1>1, <2>1, <3>1 DEF Quiet, Running, InUse
      <3>3. Answers'
        BY <1>0, <1>1, <2>1, <3>1 DEF Answers
      <3> QED
        BY <3>2, <3>3
    <2> QED
      BY <2>2, <2>3
  <1>4. CASE \/ \E p \in Peers, h \in Handles : Connect(p, h)
             \/ \E h \in Handles : HandlerCloses(h)
    <2>1. UNCHANGED <<pc, peer, inflight, port>>
      BY <1>4 DEF Connect, HandlerCloses, kernelVars
    <2>2. Quiet'
      BY <1>0, <1>1, <2>1 DEF Quiet, Running, InUse
    <2>3. Answers'
      BY <1>0, <1>1, <2>1 DEF Answers
    <2> QED
      BY <2>2, <2>3
  <1> QED
    BY <1>2, <1>3, <1>4, <1>6 DEF KernelStep

LEMMA NobodyCrashes ==
    ASSUME Undisturbed, NEW a \in Loops
    PROVE  ~Leave(a) /\ ~FindsNone(a) /\ ~AddEventFails(a)
  <1>0. /\ Safe /\ Sound /\ Shape /\ Working /\ RegIsHeld /\ Known /\ Nobody /\ Quiet /\ Acceptors
    BY DEF Undisturbed, Safe, Sound, Apart, Unshared
  <1>1. ~Leave(a)
    BY <1>0 DEF Leave, Quiet
  <1>2. ~FindsNone(a)
    <2> SUFFICES ASSUME pc[a] = "find", NoCtx(loop[a].lfd)
                 PROVE  FALSE
      BY DEF FindsNone
    <2>1. PICK h \in Handles : h = loop[a].lfd /\ kind[h] = "listening" /\ ~CloseHolds(h)
      BY <1>0, QuietObjects DEF Quiet, Running
    <2>2. datas[h] = None
      BY <2>1 DEF NoCtx
    <2>3. AtCtx(h)
      BY <1>0, <2>1, <2>2 DEF Known, HasCtx
    <2>4. PICK b \in Loops : pc[b] \in {"ctx", "fill"} /\ loop[b].new = h
      BY <2>3 DEF AtCtx
    <2>5. IsClient(h)
      BY <1>0, <2>4, ServerBounds DEF Acceptors, Accepting
    <2> QED
      BY <2>1, <2>5 DEF IsClient
  <1>3. ~AddEventFails(a)
    <2> SUFFICES ASSUME pc[a] = "add", reg[loop[a].lfd] # None
                 PROVE  FALSE
      BY DEF AddEventFails
    <2>1. loop[a].lfd \in Handles /\ loop[a].lfd = sock[loop[a].obj] /\ Running(a)
      BY <1>0 DEF Working, Quiet, Running
    <2>2. PICK b \in Loops : pc[b] = "held" /\ loop[b].lfd = loop[a].lfd
      BY <1>0, <2>1 DEF RegIsHeld, Shape
    <2>3. Running(b) /\ loop[b].lfd = sock[loop[b].obj]
      BY <1>0, <2>2 DEF Quiet, Running
    <2>4. loop[a].obj = loop[b].obj
      BY <2>1, <2>2, <2>3, QuietObjects, ServerBounds
    <2> QED
      BY <1>0, <2>1, <2>2, <2>3, <2>4 DEF Quiet
  <1> QED
    BY <1>1, <1>2, <1>3

LEMMA LoopKeepsQuiet ==
    ASSUME Undisturbed, NEW a \in Loops, LoopStep(a)
    PROVE  Quiet' /\ Answers'
  <1>0. /\ Safe /\ Sound /\ Shape /\ Working /\ Nobody /\ Quiet /\ Answers
        /\ pc \in [Loops -> Places] /\ loop \in [Loops -> LoopType] /\ loop[a] \in LoopType
        /\ peer \in [Handles -> Peers \cup {None}]
        /\ \A i \in inflight : i.by \in Loops
        /\ \A q \in port : q.by \in Loops
        /\ ~Leave(a) /\ ~FindsNone(a) /\ ~AddEventFails(a)
    BY NobodyCrashes DEF Undisturbed, Safe, Sound, Shape, PendingType, PacketType
  <1>1. /\ UNCHANGED <<isStop, socks, sock, crashed, port>>
        /\ \A b \in Loops : b # a => pc'[b] = pc[b] /\ loop'[b] = loop[b]
        /\ Running(a) /\ Running(a)' /\ loop'[a].obj = loop[a].obj /\ loop[a].obj \in Objects
    <2>1. UNCHANGED <<crashed, port>>
      BY <1>0 DEF LoopStep, NewSocket, KeepCtx, MissCtx, MakeCtx, Proceed,
             FindCtx, AcceptFails, AcceptReturns, AcceptSucceeds,
             AcceptPends, AddEvent, HandOver, kernelVars
    <2> QED
      BY <1>0, <2>1, LoopFrame DEF apiVars, Working
  <1>2. \A b \in Loops : (Running(b)' <=> Running(b)) /\ loop'[b].obj = loop[b].obj
    BY <1>1 DEF Running
  <1>3. \A h \in Handles : peer[h] # None => peer'[h] # None
    <2>1. CASE AcceptSucceeds(a)
      <3>1. PICK p \in backlog[loop[a].lfd] : Connected(loop[a].new, p, loop[a].lfd)
        BY <2>1 DEF AcceptSucceeds
      <3>2. loop[a].lfd \in Handles /\ p \in Peers /\ p # None
        BY <1>0, <2>1, <3>1, ServerBounds DEF AcceptSucceeds, Working, Shape
      <3> QED
        BY <1>0, <3>1, <3>2 DEF Connected
    <2>2. CASE ~AcceptSucceeds(a)
      <3>1. peer' = peer
        BY <1>0, <2>2 DEF LoopStep, NewSocket, KeepCtx, MissCtx, MakeCtx, Proceed,
             FindCtx, AcceptFails, AcceptReturns,
               AcceptPends, AddEvent, HandOver, kernelVars
      <3> QED
        BY <3>1
    <2> QED
      BY <2>1, <2>2
  <1>4. pc'[a] = "init" => peer'[loop'[a].new] # None
    <2>1. CASE AcceptSucceeds(a)
      <3>1. PICK p \in backlog[loop[a].lfd] : Connected(loop[a].new, p, loop[a].lfd)
        BY <2>1 DEF AcceptSucceeds
      <3>2. /\ loop[a].lfd \in Handles /\ p \in Peers /\ p # None /\ loop[a].new \in Handles
            /\ loop' = loop
        BY <1>0, <2>1, <3>1, ServerBounds DEF AcceptSucceeds, CanAccept, Working, Shape, LoopType
      <3> QED
        BY <1>0, <3>1, <3>2 DEF Connected
    <2>2. CASE ~AcceptSucceeds(a)
      BY <1>0, <2>2 DEF LoopStep, NewSocket, KeepCtx, MissCtx, MakeCtx, Proceed,
             FindCtx, AcceptFails, AcceptReturns,
             AcceptPends, AddEvent, HandOver, Goto
    <2> QED
      BY <2>1, <2>2
  <1>5. pc'[a] \in {"find", "issue", "add", "held"} => loop'[a].lfd = sock[loop[a].obj]
    <2>1. CASE NewSocket(a) \/ KeepCtx(a) \/ MissCtx(a) \/ MakeCtx(a)
      BY <1>0, <2>1 DEF NewSocket, KeepCtx, MissCtx, MakeCtx, Proceed, Goto, LoopType
    <2>2. CASE FindCtx(a) \/ AcceptPends(a) \/ AddEvent(a)
      BY <1>0, <2>2 DEF FindCtx, AcceptPends, AddEvent, Quiet
    <2>3. CASE AcceptFails(a) \/ AcceptReturns(a) \/ AcceptSucceeds(a) \/ HandOver(a)
      BY <1>0, <2>3 DEF AcceptFails, AcceptReturns, AcceptSucceeds, HandOver, Goto
    <2> QED
      BY <1>0, <2>1, <2>2, <2>3 DEF LoopStep
  <1>6. ~phantoms'
    <2>1. CASE HandOver(a)
      BY <1>0, <2>1 DEF HandOver, Quiet, handVars
    <2>2. CASE ~HandOver(a)
      BY <1>0, <2>2 DEF LoopStep, NewSocket, KeepCtx, MissCtx, MakeCtx, Proceed,
             FindCtx, AcceptFails, AcceptReturns,
             AcceptSucceeds, AcceptPends, AddEvent, Quiet, handVars
    <2> QED
      BY <2>1, <2>2
  <1>7. Quiet'
    <2>1. \A o : InUse(o)' <=> InUse(o)
      BY <1>1, <1>2 DEF InUse
    <2>2. isStop' => \A b \in Loops : pc'[b] = "none"
      BY <1>0, <1>1 DEF Quiet, Running
    <2>3. \A b \in Loops : pc'[b] \in {"find", "issue", "add", "held"} => loop'[b].lfd = sock'[loop'[b].obj]
      BY <1>0, <1>1, <1>2, <1>5 DEF Quiet
    <2>4. \A b \in Loops : pc'[b] = "init" => peer'[loop'[b].new] # None
      BY <1>0, <1>1, <1>3, <1>4 DEF Quiet, Working
    <2> QED
      BY <1>0, <1>1, <1>2, <1>6, <2>1, <2>2, <2>3, <2>4 DEF Quiet
  <1>8. ASSUME NEW b \in Loops, pc[b] \in {"add", "held"}
        PROVE  pc'[b] \in {"add", "held"} /\ loop'[b] = loop[b] /\ loop[b].new \in Handles
    <2>1. CASE b # a
      BY <1>0, <1>1, <1>8, <2>1 DEF Working
    <2>2. CASE b = a
      <3>1. AddEvent(a)
        BY <1>0, <1>8, <2>2 DEF LoopStep, NewSocket, KeepCtx, MissCtx, MakeCtx, Proceed,
             FindCtx, AcceptFails, AcceptReturns,
               AcceptSucceeds, AcceptPends, HandOver
      <3> QED
        BY <1>0, <1>8, <2>2, <3>1 DEF AddEvent, Goto, Working
    <2> QED
      BY <2>1, <2>2
  <1>9. Answers'
    <2>1. \A i \in inflight : pc'[i.by] \in {"add", "held"} /\ i.new = loop'[i.by].new /\ i.lfd = loop'[i.by].lfd
      BY <1>0, <1>8 DEF Answers
    <2>2. \A q \in port : pc'[q.by] \in {"add", "held"} /\ peer'[loop'[q.by].new] # None
      BY <1>0, <1>3, <1>8 DEF Answers
    <2>3. CASE AcceptPends(a)
      <3>1. /\ inflight' = inflight \cup {[lfd |-> loop[a].lfd, new |-> loop[a].new, by |-> a]}
            /\ pc[a] = "issue" /\ pc'[a] = "add" /\ loop' = loop
        BY <1>0, <2>3 DEF AcceptPends, Goto
      <3>2. \A q \in port : q.by # a
        BY <1>0, <3>1 DEF Answers
      <3> QED
        BY <1>0, <1>1, <2>1, <2>2, <3>1, <3>2 DEF Answers
    <2>4. CASE ~AcceptPends(a)
      <3>1. inflight' = inflight
        BY <1>0, <2>4 DEF LoopStep, NewSocket, KeepCtx, MissCtx, MakeCtx, Proceed,
             FindCtx, AcceptFails, AcceptReturns,
               AcceptSucceeds, AddEvent, HandOver, kernelVars
      <3> QED
        BY <1>0, <1>1, <2>1, <2>2, <3>1 DEF Answers
    <2> QED
      BY <2>3, <2>4
  <1> QED
    BY <1>7, <1>9

LEMMA QuietNext ==
    ASSUME Undisturbed, Next, Nobody'
    PROVE  Quiet' /\ Answers'
  <1>0. Nobody /\ stop' = stop /\ stop \in [Stops -> [at : StopPlaces, left : Seq(Objects)]]
    BY FitBefore DEF Undisturbed, Safe, Sound, Shape
  <1>1. ASSUME NEW s \in Stops, Stop(s) \/ StopStep(s)
        PROVE  FALSE
    BY <1>0, <1>1 DEF Nobody, Stop, StopStep, StopBegins, StopCancels, StopCloses, StopForgets, StopEnds
  <1>2. ASSUME NEW c \in closing, CloseCancels(c) \/ CloseDeletes(c) \/ CloseEnds(c)
        PROVE  Quiet' /\ Answers'
    BY <1>2, CloseKeepsQuiet
  <1>3. ASSUME NEW a \in Loops, LoopStep(a)
        PROVE  Quiet' /\ Answers'
    BY <1>3, LoopKeepsQuiet
  <1>4. Bind \/ Start => Quiet' /\ Answers'
    BY BindKeepsQuiet, StartKeepsQuiet
  <1>5. \/ KernelStep
        \/ \E p \in Peers, h \in Handles : Connect(p, h)
        \/ \E h \in Handles : HandlerCloses(h)
        => Quiet' /\ Answers'
    BY OthersKeepQuiet
  <1> QED
    BY <1>1, <1>2, <1>3, <1>4, <1>5 DEF Next, CloseStep

LEMMA KnowsNext ==
    ASSUME Safe, KnowsInv, [Next]_vars
    PROVE  KnowsInv'
  <1>0. world' = world /\ (Fit' => Fit) /\ (Nobody' => Nobody /\ stop' = stop)
    BY FitBefore DEF Safe
  <1>1. CASE Next
    <2>1. ~crashed
      BY <1>1 DEF Next
    <2>2. Fit' /\ ~crashed' => Apart'
      BY <1>0, <1>1, <2>1, ApartNext DEF KnowsInv
    <2>3. Nobody => Fit
      BY DEF Nobody, Fit
    <2>4. Nobody' => Quiet' /\ Answers'
      BY <1>0, <1>1, <2>1, <2>3, QuietNext DEF KnowsInv, Undisturbed
    <2> QED
      BY <2>2, <2>4 DEF KnowsInv
  <1>2. CASE UNCHANGED vars
    <2>1. UNCHANGED <<isStop, socks, stop, sock, closing, kind, pc, loop, clients, inflight, datas>>
      BY <1>2 DEF vars, apiVars, fdVars, eventVars, kernelVars, handVars
    <2>2. UNCHANGED <<crashed, phantoms, peer, port, world>>
      BY <1>2 DEF vars, apiVars, kernelVars, handVars
    <2>3. OneStop => OneStop'
      BY <2>1, <2>2 DEF OneStop, Active
    <2>4. Unshared => Unshared'
      BY <2>1 DEF Unshared, Listeners, Acceptors, Handlers, Closes, Pending, Fresh, Busy, CloseHolds, IsClient
    <2>5. Quiet => Quiet'
      BY <2>1, <2>2 DEF Quiet, Running, InUse
    <2>6. Answers => Answers'
      BY <2>1, <2>2 DEF Answers
    <2> QED
      BY <1>0, <2>2, <2>3, <2>4, <2>5, <2>6 DEF KnowsInv, Apart
  <1> QED
    BY <1>1, <1>2

(* An FdCtx is never left over from a socket before, and an open socket     *)
(* without one is just being made or closed, unless two functions of stop() *)
(* overlap; a client that has been handed over has its receive timeout. A   *)
(* server that nobody stops never looks up an FdCtx in vain, and hands over *)
(* nothing that is not a client.                                            *)
THEOREM SocketsAreKnown == Spec => []KnowsItsSockets
  <1>1. Init => Safe /\ KnowsInv
    BY SafeInit, KnowsInit
  <1>2. Safe /\ KnowsInv /\ [Next]_vars => (Safe /\ KnowsInv)'
    BY SafeNext, KnowsNext
  <1>3. Safe /\ KnowsInv => KnowsItsSockets
    <2> SUFFICES ASSUME Safe, KnowsInv
                 PROVE  KnowsItsSockets
      OBVIOUS
    <2>1. (\A s \in Stops : stop[s].at = "none") => ~crashed /\ ~phantoms
      BY DEF KnowsInv, Nobody, Quiet
    <2>2. ASSUME ~crashed, world.manners = "orderly" \/ world.stops <= 1, NEW h \in Handles
          PROVE  /\ datas[h] # None => ~datas[h].stale
                 /\ kind[h] # "free" => \/ datas[h] # None \/ h \in {c.fd : c \in closing}
                                       \/ \E a \in Loops : pc[a] \in {"ctx", "fill"} /\ loop[a].new = h
                 /\ h \in clients => datas[h] # None /\ datas[h].recv
      <3>1. Fresh
        BY <2>2 DEF KnowsInv, Fit, Apart, Unshared
      <3>2. kind[h] # "free" => HasCtx(h)
        BY DEF Safe, Known
      <3> QED
        BY <3>1, <3>2 DEF Fresh, HasCtx, CloseHolds, AtCtx
    <2> QED
      BY <2>1, <2>2 DEF KnowsItsSockets
  <1> QED
    BY <1>1, <1>2, <1>3, PTL DEF Spec
=============================================================================
