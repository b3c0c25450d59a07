---------------------------- MODULE WakeupProofs ----------------------------
(***************************************************************************)
(* The two places at which something waits until it is woken, for every    *)
(* number of waiters.                                                      *)
(*                                                                         *)
(* FiberSemaphore: its invariants, the order of service, and that it       *)
(* implements the counting semaphore (its safety part; liveness stays with *)
(* TLC). IdleWait, the workers of an IOManager: the two counters, no sleep *)
(* on queued work, and nothing left when all workers have been joined.     *)
(***************************************************************************)
EXTENDS FiberSemaphore, IdleWait, FiniteSetTheorems, SequenceTheorems, TLAPS

-----------------------------------------------------------------------------
(* The semaphore.                                                          *)

Inv == SemaphoreType /\ NoPermitWhileWaiting /\ WokenOnce

LEMMA Members ==
    ASSUME NEW S, NEW s \in Seq(S)
    PROVE  ToSet(s) = {s[i] : i \in 1..Len(s)}
  BY DEF ToSet

(* What Head and Tail do to the members of a list without repetitions. *)
LEMMA PopFirst ==
    ASSUME NEW S, NEW s \in Seq(S), s # <<>>,
           \A i, j \in 1..Len(s) : s[i] = s[j] => i = j
    PROVE  /\ Head(s) \in S /\ Tail(s) \in Seq(S)
           /\ ToSet(Tail(s)) = ToSet(s) \ {Head(s)}
           /\ Head(s) \in ToSet(s)
           /\ \A i, j \in 1..Len(Tail(s)) : Tail(s)[i] = Tail(s)[j] => i = j
  <1>1. /\ Len(s) \in Nat \ {0} /\ Head(s) = s[1] /\ Head(s) \in S
        /\ Tail(s) \in Seq(S) /\ Len(Tail(s)) = Len(s) - 1
        /\ \A i \in 1..(Len(s) - 1) : Tail(s)[i] = s[i + 1]
    BY HeadTailProperties
  <1>2. ToSet(Tail(s)) = {s[i + 1] : i \in 1..(Len(s) - 1)}
    <2> DEFINE u == Tail(s)
    <2>1. u \in Seq(S) /\ Len(u) = Len(s) - 1 /\ \A i \in 1..(Len(s) - 1) : u[i] = s[i + 1]
      BY <1>1
    <2> HIDE DEF u
    <2>2. ToSet(u) = {u[i] : i \in 1..(Len(s) - 1)}
      BY <2>1, Members
    <2>3. ToSet(u) = {s[i + 1] : i \in 1..(Len(s) - 1)}
      BY <2>1, <2>2
    <2> QED
      BY <2>3 DEF u
  <1>3. ToSet(s) = {s[i] : i \in 1..Len(s)}
    BY DEF ToSet
  <1>4. Head(s) \in ToSet(s)
    BY <1>1, <1>3
  <1>5. ASSUME NEW x \in ToSet(Tail(s)) PROVE x \in ToSet(s) /\ x # Head(s)
    <2>1. PICK i \in 1..(Len(s) - 1) : x = s[i + 1]
      BY <1>2
    <2>2. i + 1 \in 1..Len(s) /\ i + 1 # 1 /\ 1 \in 1..Len(s)
      BY <1>1
    <2> QED
      BY <1>1, <1>3, <2>1, <2>2
  <1>6. ASSUME NEW x \in ToSet(s), x # Head(s) PROVE x \in ToSet(Tail(s))
    <2>1. PICK i \in 1..Len(s) : x = s[i]
      BY <1>3
    <2>2. i - 1 \in 1..(Len(s) - 1) /\ x = s[(i - 1) + 1]
      BY <1>1, <1>6, <2>1
    <2> QED
      BY <1>2, <2>2
  <1>7. \A i, j \in 1..Len(Tail(s)) : Tail(s)[i] = Tail(s)[j] => i = j
    <2>1. ASSUME NEW i \in 1..(Len(s) - 1), NEW j \in 1..(Len(s) - 1), Tail(s)[i] = Tail(s)[j]
          PROVE  i = j
      <3>1. s[i + 1] = s[j + 1] /\ i + 1 \in 1..Len(s) /\ j + 1 \in 1..Len(s)
        BY <1>1, <2>1
      <3> QED
        BY <3>1
    <2> QED
      BY <1>1, <2>1
  <1>8. ToSet(Tail(s)) = ToSet(s) \ {Head(s)}
    BY <1>5, <1>6
  <1> QED
    BY <1>1, <1>4, <1>7, <1>8

(* Appending adds one member. *)
LEMMA PushLast ==
    ASSUME NEW S, NEW s \in Seq(S), NEW x \in S, x \notin ToSet(s),
           \A i, j \in 1..Len(s) : s[i] = s[j] => i = j
    PROVE  /\ Append(s, x) \in Seq(S)
           /\ ToSet(Append(s, x)) = ToSet(s) \cup {x}
           /\ \A i, j \in 1..Len(Append(s, x)) : Append(s, x)[i] = Append(s, x)[j] => i = j
  <1> DEFINE u == Append(s, x)
  <1>1. /\ u \in Seq(S) /\ Len(s) \in Nat /\ Len(u) = Len(s) + 1 /\ u[Len(s) + 1] = x
        /\ \A i \in 1..Len(s) : u[i] = s[i]
    OBVIOUS
  <1> HIDE DEF u
  <1>2. ToSet(s) = {s[i] : i \in 1..Len(s)} /\ ToSet(u) = {u[i] : i \in 1..(Len(s) + 1)}
    BY <1>1 DEF ToSet
  <1>3. \A i \in 1..(Len(s) + 1) : i \in 1..Len(s) \/ i = Len(s) + 1
    BY <1>1
  <1>4. ToSet(u) = ToSet(s) \cup {x}
    <2>1. \A i \in 1..Len(s) : i \in 1..(Len(s) + 1)
      BY <1>1
    <2>2. Len(s) + 1 \in 1..(Len(s) + 1)
      BY <1>1
    <2> QED
      BY <1>1, <1>2, <1>3, <2>1, <2>2
  <1>5. \A i \in 1..Len(s) : s[i] # x
    BY <1>2
  <1>6. \A i, j \in 1..Len(u) : u[i] = u[j] => i = j
    BY <1>1, <1>3, <1>5
  <1> QED
    BY <1>1, <1>4, <1>6 DEF u

LEMMA InvInit == SemaphoreInit => Inv
  BY InitialAssumption DEF SemaphoreInit, Inv, SemaphoreType, NoPermitWhileWaiting, WokenOnce, ToSet

(* WokenOnce speaks of the members of the list; this is the same in terms of
   ToSet. *)
LEMMA ListMembers ==
    ASSUME waiters \in Seq(Fibers)
    PROVE  /\ ToSet(waiters) = {waiters[i] : i \in 1..Len(waiters)}
           /\ ToSet(waiters) \subseteq Fibers
           /\ (\A i \in 1..Len(waiters) : waiters[i] \notin woken)
                <=> ToSet(waiters) \cap woken = {}
  BY DEF ToSet

LEMMA InvNext == Inv /\ [SemaphoreNext]_semVars => Inv'
  <1> SUFFICES ASSUME Inv, [SemaphoreNext]_semVars PROVE Inv'
    OBVIOUS
  <1> USE DEF Inv
  <1>0. /\ waiters \in Seq(Fibers) /\ pc \in [Fibers -> {"out", "blocking", "held"}]
        /\ concurrency \in Nat /\ woken \subseteq Fibers
    BY DEF SemaphoreType
  <1>1. ASSUME NEW f \in Fibers, TakePermit(f)
        PROVE  Inv'
    BY <1>0, <1>1 DEF TakePermit, SemaphoreType, NoPermitWhileWaiting, WokenOnce
  <1>2. ASSUME NEW f \in Fibers, WaitBlock(f)
        PROVE  Inv'
    <2>1. f \notin ToSet(waiters) /\ f \notin woken
      BY <1>2 DEF WaitBlock, WokenOnce
    <2>2. /\ waiters' \in Seq(Fibers)
          /\ ToSet(waiters') = ToSet(waiters) \cup {f}
          /\ \A i, j \in 1..Len(waiters') : waiters'[i] = waiters'[j] => i = j
      BY <1>0, <1>2, <2>1, PushLast DEF WaitBlock, WokenOnce
    <2>3. SemaphoreType'
      BY <1>0, <1>2, <2>2 DEF WaitBlock, SemaphoreType
    <2>4. NoPermitWhileWaiting'
      BY <1>2 DEF WaitBlock, NoPermitWhileWaiting
    <2>5. ToSet(waiters') \cap woken' = {}
      BY <1>0, <1>2, <2>1, <2>2, ListMembers DEF WaitBlock, WokenOnce
    <2>6. \A g \in Fibers : pc'[g] # "out" <=> g \in woken' \cup ToSet(waiters')
      BY <1>0, <1>2, <2>2 DEF WaitBlock, WokenOnce
    <2>7. \A i \in 1..Len(waiters') : waiters'[i] \notin woken'
      BY <2>2, <2>5 DEF ToSet
    <2> QED
      BY <2>2, <2>3, <2>4, <2>6, <2>7 DEF WokenOnce
  <1>3. ASSUME NEW f \in Fibers, YieldToHold(f)
        PROVE  Inv'
    BY <1>0, <1>3 DEF YieldToHold, SemaphoreType, NoPermitWhileWaiting, WokenOnce
  <1>4. ASSUME NEW f \in Fibers, Resume(f)
        PROVE  Inv'
    <2>1. f \notin ToSet(waiters)
      BY <1>0, <1>4, ListMembers DEF Resume, WokenOnce
    <2>2. SemaphoreType' /\ NoPermitWhileWaiting'
      BY <1>0, <1>4 DEF Resume, SemaphoreType, NoPermitWhileWaiting
    <2>3. WokenOnce'
      BY <1>0, <1>4, <2>1 DEF Resume, WokenOnce
    <2> QED
      BY <2>2, <2>3
  <1>5. ASSUME waiters # <<>>, waiters' = Tail(waiters), woken' = woken \cup {Head(waiters)},
               UNCHANGED <<concurrency, pc>>
        PROVE  Inv'
    <2>1. /\ Head(waiters) \in Fibers /\ Tail(waiters) \in Seq(Fibers)
          /\ ToSet(Tail(waiters)) = ToSet(waiters) \ {Head(waiters)}
          /\ Head(waiters) \in ToSet(waiters)
          /\ \A i, j \in 1..Len(Tail(waiters)) : Tail(waiters)[i] = Tail(waiters)[j] => i = j
      BY <1>0, <1>5, PopFirst DEF WokenOnce
    <2>2. SemaphoreType' /\ NoPermitWhileWaiting'
      BY <1>0, <1>5, <2>1 DEF SemaphoreType, NoPermitWhileWaiting
    <2>3. ToSet(waiters') \cap woken' = {}
      BY <1>0, <1>5, <2>1, ListMembers DEF WokenOnce
    <2>4. \A i \in 1..Len(waiters') : waiters'[i] \notin woken'
      <3>1. waiters' \in Seq(Fibers)
        BY <1>5, <2>1
      <3>2. ToSet(waiters') = {waiters'[i] : i \in 1..Len(waiters')}
        BY <3>1 DEF ToSet
      <3> QED
        BY <2>3, <3>2
    <2>5. woken' \cup ToSet(waiters') = woken \cup ToSet(waiters)
      BY <1>5, <2>1
    <2> QED
      BY <1>5, <2>1, <2>2, <2>4, <2>5 DEF WokenOnce
  <1>6. CASE waiters = <<>> /\ concurrency' = concurrency + 1 /\ UNCHANGED <<waiters, pc, woken>>
    BY <1>0, <1>6 DEF SemaphoreType, NoPermitWhileWaiting, WokenOnce
  <1>7. CASE NotifyAll
    <2>1. waiters' = <<>> /\ ToSet(waiters') = {}
      BY <1>7 DEF NotifyAll, ToSet
    <2>2. SemaphoreType' /\ NoPermitWhileWaiting'
      BY <1>0, <1>7, ListMembers DEF NotifyAll, SemaphoreType, NoPermitWhileWaiting
    <2>3. WokenOnce'
      BY <1>7, <2>1 DEF NotifyAll, WokenOnce
    <2> QED
      BY <2>2, <2>3
  <1>8. CASE Reset
    BY <1>0, <1>8 DEF Reset, SemaphoreType, NoPermitWhileWaiting, WokenOnce
  <1>9. CASE UNCHANGED semVars
    BY <1>9 DEF semVars, SemaphoreType, NoPermitWhileWaiting, WokenOnce
  <1> QED
    BY <1>1, <1>2, <1>3, <1>4, <1>5, <1>6, <1>7, <1>8, <1>9 DEF SemaphoreNext, Fiber, Notify

THEOREM Invariance == SemaphoreSpec => []Inv
  BY InvInit, InvNext, PTL DEF SemaphoreSpec

(* No fiber ever waits on a semaphore that has a permit (no lost wake-up):
   notify() and wait() decide under the same lock (mutex.cpp:30-61). *)
THEOREM NoLostWakeup == SemaphoreSpec => []NoPermitWhileWaiting
  BY Invariance, PTL DEF Inv

(* A waiting fiber is in the list or scheduled, never both, never twice: it
   is resumed once for each time it waits. *)
THEOREM ResumedOnce == SemaphoreSpec => []WokenOnce
  BY Invariance, PTL DEF Inv

-----------------------------------------------------------------------------
(* One step of the list: who leaves it was not behind somebody who stays. *)
InOrder ==
    \A i, j \in 1..Len(waiters) :
        i < j /\ waiters[j] \notin ToSet(waiters') => waiters[i] \notin ToSet(waiters')

LEMMA OrderNext == Inv /\ [SemaphoreNext]_semVars => InOrder
  <1> SUFFICES ASSUME Inv, [SemaphoreNext]_semVars PROVE InOrder
    OBVIOUS
  <1>0. waiters \in Seq(Fibers) /\ \A i, j \in 1..Len(waiters) : waiters[i] = waiters[j] => i = j
    BY DEF Inv, SemaphoreType, WokenOnce
  <1>1. ToSet(waiters) = {waiters[i] : i \in 1..Len(waiters)}
    BY <1>0 DEF ToSet
  <1>2. CASE \A j \in 1..Len(waiters) : waiters[j] \in ToSet(waiters')
    BY <1>2 DEF InOrder
  <1>3. CASE waiters' = waiters
    BY <1>1, <1>2, <1>3
  <1>4. ASSUME NEW f \in Fibers, WaitBlock(f)
        PROVE  InOrder
    <2>1. waiters' = Append(waiters, f)
      BY <1>4 DEF WaitBlock
    <2>2. f \notin ToSet(waiters)
      BY <1>4 DEF WaitBlock, Inv, WokenOnce
    <2>3. ToSet(waiters') = ToSet(waiters) \cup {f}
      BY <1>0, <2>1, <2>2, PushLast
    <2> QED
      BY <1>1, <1>2, <2>3
  <1>5. CASE waiters # <<>> /\ waiters' = Tail(waiters)
    <2>1. ToSet(waiters') = ToSet(waiters) \ {Head(waiters)}
      BY <1>0, <1>5, PopFirst
    <2>2. Head(waiters) = waiters[1] /\ Len(waiters) \in Nat \ {0}
      BY <1>0, <1>5
    <2>3. ASSUME NEW i \in 1..Len(waiters), NEW j \in 1..Len(waiters), i < j,
                 waiters[j] \notin ToSet(waiters')
          PROVE  waiters[i] \notin ToSet(waiters')
      <3>1. waiters[j] = waiters[1]
        BY <1>1, <2>1, <2>2, <2>3
      <3>2. 1 \in 1..Len(waiters)
        BY <2>2
      <3>3. j = 1
        BY <1>0, <3>1, <3>2
      <3> QED
        BY <2>3, <3>3
    <2> QED
      BY <2>3 DEF InOrder
  <1>6. CASE waiters' = <<>>
    BY <1>6 DEF InOrder, ToSet
  <1>7. \/ waiters' = waiters
        \/ \E f \in Fibers : WaitBlock(f)
        \/ waiters # <<>> /\ waiters' = Tail(waiters)
        \/ waiters' = <<>>
    BY DEF SemaphoreNext, Fiber, TakePermit, YieldToHold, Resume, Notify, NotifyAll, Reset, semVars
  <1> QED
    BY <1>3, <1>4, <1>5, <1>6, <1>7

(* Fibers are served in the order in which they began to wait, whatever
   notify(), notifyAll() and reset() do in between. *)
THEOREM OrderOfService == SemaphoreSpec => FirstComeFirstServed
  <1>1. Inv /\ [SemaphoreNext]_semVars => [InOrder]_semVars
    BY OrderNext
  <1> QED
    BY <1>1, Invariance, PTL DEF SemaphoreSpec, FirstComeFirstServed, InOrder

-----------------------------------------------------------------------------
(* The counts behind the refinement: permits on their way to woken fibers. *)
LEMMA Counts ==
    ASSUME SemaphoreType
    PROVE  /\ IsFiniteSet(woken) /\ Cardinality(woken) \in Nat
           /\ IsFiniteSet(ToSet(waiters)) /\ Cardinality(ToSet(waiters)) \in Nat
           /\ ToSet(waiters) \subseteq Fibers
           /\ \A f \in woken : Cardinality(woken \ {f}) = Cardinality(woken) - 1
           /\ \A f \in Fibers \ woken : Cardinality(woken \cup {f}) = Cardinality(woken) + 1
  <1>1. ToSet(waiters) \subseteq Fibers
    BY ListMembers DEF SemaphoreType
  <1>2. IsFiniteSet(woken) /\ IsFiniteSet(ToSet(waiters))
    BY <1>1, FibersAssumption, FS_Subset DEF SemaphoreType
  <1> QED
    BY <1>1, <1>2, FS_CardinalityType, FS_AddElement, FS_RemoveElement

LEMMA PromiseInit == SemaphoreInit => Promise!Init
  <1> SUFFICES ASSUME SemaphoreInit PROVE Promise!Init
    OBVIOUS
  <1>1. Cardinality(woken) = 0 /\ concurrency = Initial
    BY FS_EmptySet DEF SemaphoreInit
  <1>2. woken \cup ToSet(waiters) = {}
    BY DEF SemaphoreInit, ToSet
  <1> QED
    BY <1>1, <1>2, InitialAssumption DEF Promise!Init

LEMMA PromiseNext == Inv /\ [SemaphoreNext]_semVars => [Promise!Next]_(Promise!vars)
  <1> SUFFICES ASSUME Inv, [SemaphoreNext]_semVars PROVE [Promise!Next]_(Promise!vars)
    OBVIOUS
  <1>0. SemaphoreType /\ WokenOnce /\ NoPermitWhileWaiting
    BY DEF Inv
  <1>1. /\ waiters \in Seq(Fibers) /\ concurrency \in Nat /\ woken \subseteq Fibers
        /\ \A i, j \in 1..Len(waiters) : waiters[i] = waiters[j] => i = j
        /\ \A f \in Fibers : pc[f] # "out" <=> f \in woken \cup ToSet(waiters)
    BY <1>0 DEF SemaphoreType, WokenOnce
  <1>2. ToSet(waiters) \cap woken = {}
    BY <1>0, <1>1, ListMembers DEF WokenOnce
  <1>3. /\ IsFiniteSet(woken) /\ Cardinality(woken) \in Nat
        /\ IsFiniteSet(ToSet(waiters)) /\ Cardinality(ToSet(waiters)) \in Nat
        /\ ToSet(waiters) \subseteq Fibers
        /\ \A f \in woken : Cardinality(woken \ {f}) = Cardinality(woken) - 1
        /\ \A f \in Fibers \ woken : Cardinality(woken \cup {f}) = Cardinality(woken) + 1
    BY <1>0, Counts
  <1>4. ASSUME NEW f \in Fibers, TakePermit(f)
        PROVE  Promise!Take(f)
    BY <1>1, <1>3, <1>4 DEF TakePermit, Promise!Take
  <1>5. ASSUME NEW f \in Fibers, WaitBlock(f)
        PROVE  Promise!Arrive(f)
    <2>1. f \notin woken \cup ToSet(waiters)
      BY <1>1, <1>5 DEF WaitBlock
    <2>2. ToSet(waiters') = ToSet(waiters) \cup {f}
      BY <1>1, <1>5, <2>1, PushLast DEF WaitBlock
    <2> QED
      BY <1>5, <2>1, <2>2 DEF WaitBlock, Promise!Arrive
  <1>6. ASSUME NEW f \in Fibers, YieldToHold(f)
        PROVE  UNCHANGED Promise!vars
    BY <1>6 DEF YieldToHold, Promise!vars
  <1>7. ASSUME NEW f \in Fibers, Resume(f)
        PROVE  Promise!Pass(f)
    <2>1. f \in woken /\ f \notin ToSet(waiters)
      BY <1>2, <1>7 DEF Resume
    <2>2. woken' \cup ToSet(waiters') = (woken \cup ToSet(waiters)) \ {f}
      BY <1>7, <2>1 DEF Resume
    <2>3. Cardinality(woken') = Cardinality(woken) - 1 /\ concurrency' = concurrency
      BY <1>3, <1>7, <2>1 DEF Resume
    <2>4. Cardinality(woken) > 0
      BY <1>3, <2>1, FS_EmptySet
    <2> QED
      BY <1>1, <1>3, <2>1, <2>2, <2>3, <2>4 DEF Promise!Pass
  <1>8. ASSUME waiters # <<>>, waiters' = Tail(waiters), woken' = woken \cup {Head(waiters)},
               UNCHANGED <<concurrency, pc>>
        PROVE  Promise!Signal
    <2>1. /\ Head(waiters) \in ToSet(waiters)
          /\ ToSet(waiters') = ToSet(waiters) \ {Head(waiters)}
      BY <1>1, <1>8, PopFirst
    <2>2. Head(waiters) \in Fibers \ woken
      BY <1>2, <1>3, <2>1
    <2>3. Cardinality(woken') = Cardinality(woken) + 1
      BY <1>3, <1>8, <2>2
    <2>4. woken' \cup ToSet(waiters') = woken \cup ToSet(waiters)
      BY <1>8, <2>1
    <2> QED
      <3>1. concurrency' + Cardinality(woken') = (concurrency + Cardinality(woken)) + 1
        BY <1>1, <1>3, <1>8, <2>3
      <3> QED
        BY <2>4, <3>1 DEF Promise!Signal
  <1>9. ASSUME concurrency' = concurrency + 1, UNCHANGED <<waiters, pc, woken>>
        PROVE  Promise!Signal
    <2>1. /\ concurrency' + Cardinality(woken') = (concurrency + Cardinality(woken)) + 1
          /\ woken' \cup ToSet(waiters') = woken \cup ToSet(waiters)
      BY <1>1, <1>3, <1>9
    <2> QED
      BY <2>1 DEF Promise!Signal
  <1>10. ASSUME NotifyAll
         PROVE  Promise!SignalAll
    <2> DEFINE W == ToSet(waiters)
    <2>1. waiters # <<>> /\ woken' = woken \cup W /\ waiters' = <<>> /\ concurrency' = concurrency
      BY <1>10 DEF NotifyAll
    <2>2. ToSet(waiters') = {}
      BY <2>1 DEF ToSet
    <2>3. waiters[1] \in W
      BY <1>1, <2>1, PopFirst
    <2>4. IsFiniteSet(woken \cup W)
          /\ Cardinality(woken \cup W) = Cardinality(woken) + Cardinality(W) - Cardinality(woken \cap W)
      BY <1>3, FS_Union
    <2>5. Cardinality(woken \cap W) = 0
      <3>1. woken \cap W = {}
        BY <1>2
      <3> QED
        BY <3>1, FS_EmptySet
    <2>6. Cardinality(W) > 0
      BY <1>3, <2>3, FS_EmptySet
    <2>7. Cardinality(woken') = Cardinality(woken) + Cardinality(W)
          /\ Cardinality(W) \in 1..Cardinality(woken \cup W)
      <3> HIDE DEF W
      <3>1. Cardinality(woken) \in Nat /\ Cardinality(W) \in Nat
        BY <1>3 DEF W
      <3>2. Cardinality(woken \cup W) = Cardinality(woken) + Cardinality(W)
        BY <2>4, <2>5, <3>1
      <3> QED
        BY <2>1, <2>6, <3>1, <3>2
    <2>8. woken' \cup ToSet(waiters') = woken \cup W
      BY <2>1, <2>2
    <2>9. concurrency' + Cardinality(woken') = (concurrency + Cardinality(woken)) + Cardinality(W)
      BY <1>1, <1>3, <2>1, <2>7
    <2>10. \E k \in 1..Cardinality(woken \cup W) :
               concurrency' + Cardinality(woken') = (concurrency + Cardinality(woken)) + k
      BY <2>7, <2>9
    <2> QED
      BY <2>8, <2>10 DEF Promise!SignalAll, Promise!Cardinality, Cardinality
  <1>11. ASSUME Reset
         PROVE  Promise!Drain
    <2>1. concurrency' = 0 /\ UNCHANGED <<waiters, pc, woken>>
      BY <1>11 DEF Reset
    <2> QED
      BY <1>1, <1>3, <2>1 DEF Promise!Drain
  <1>12. CASE UNCHANGED semVars
    BY <1>12 DEF semVars, Promise!vars
  <1> QED
    BY <1>4, <1>5, <1>6, <1>7, <1>8, <1>9, <1>10, <1>11, <1>12
       DEF SemaphoreNext, Fiber, Notify, Promise!Next

(* FiberSemaphore implements the counting semaphore: a permit is neither lost
   nor given twice, with the permits that scheduled fibers carry counted. *)
THEOREM ImplementsPromise == SemaphoreSpec => Promise!Spec
  BY PromiseInit, PromiseNext, Invariance, PTL DEF SemaphoreSpec, Promise!Spec

-----------------------------------------------------------------------------
(* The workers.                                                            *)

Labels == {"fetch", "share", "pass", "run", "notify", "check", "count", "exit"} \cup Idling

BusyAt == {"share", "run", "notify"}

At(f, P) == {w \in Workers : f[w] \in P}

Busy   == At(wpc, BusyAt)
Idlers == At(wpc, Idling)

(* Type correctness needs to know what the two counters count: a worker takes
   off only what it has added. *)
Counted ==
    /\ active = Cardinality(Busy)
    /\ idle = Cardinality(Idlers)

(* Every task is queued, runs or has ended; only busy workers run one. *)
Accounted ==
    /\ \A w \in Workers : running[w] # {} => w \in Busy
    /\ \A t \in created : t \in queue \/ t \in done \/ \E w \in Workers : t \in running[w]

Typing == TypeOK /\ Counted

-----------------------------------------------------------------------------
(* How one worker's move changes the number of those at certain places. *)
LEMMA CountMoves ==
    ASSUME TypeOK, NEW w \in Workers, NEW l, Goto(w, l), NEW P
    PROVE  /\ Cardinality(At(wpc, P)) \in Nat /\ Cardinality(At(wpc', P)) \in Nat
           /\ Cardinality(At(wpc', P)) + (IF wpc[w] \in P THEN 1 ELSE 0)
                 = Cardinality(At(wpc, P)) + (IF l \in P THEN 1 ELSE 0)
  <1> DEFINE A == At(wpc, P)
             B == At(wpc', P)
  <1>0. DOMAIN wpc = Workers /\ wpc' = [wpc EXCEPT ![w] = l]
    BY DEF TypeOK, Goto
  <1>1. IsFiniteSet(A) /\ IsFiniteSet(B)
    <2>1. A \subseteq Workers /\ B \subseteq Workers
      BY DEF At
    <2> QED
      BY <2>1, WorkersAssumption, FS_Subset
  <1>2. Cardinality(A) \in Nat /\ Cardinality(B) \in Nat
    BY <1>1, FS_CardinalityType
  <1>3. /\ \A v \in Workers \ {w} : v \in A <=> v \in B
        /\ w \in A <=> wpc[w] \in P
        /\ w \in B <=> l \in P
        /\ A \subseteq Workers /\ B \subseteq Workers
    BY <1>0 DEF At
  <1> HIDE DEF A, B
  <1>4. CASE (w \in A) = (w \in B)
    <2>1. A = B
      BY <1>3, <1>4
    <2> QED
      BY <1>2, <1>3, <2>1 DEF A, B
  <1>5. CASE w \in A /\ w \notin B
    <2>1. B = A \ {w}
      BY <1>3, <1>5
    <2>2. Cardinality(B) = Cardinality(A) - 1
      BY <1>1, <1>5, <2>1, FS_RemoveElement
    <2> QED
      BY <1>2, <1>3, <1>5, <2>2 DEF A, B
  <1>6. CASE w \notin A /\ w \in B
    <2>1. B = A \cup {w}
      BY <1>3, <1>6
    <2>2. Cardinality(B) = Cardinality(A) + 1
      BY <1>1, <1>6, <2>1, FS_AddElement
    <2> QED
      BY <1>2, <1>3, <1>6, <2>2 DEF A, B
  <1> QED
    BY <1>4, <1>5, <1>6

LEMMA CountsMove ==
    ASSUME TypeOK, NEW w \in Workers, NEW l, Goto(w, l)
    PROVE  /\ Cardinality(Busy) \in Nat /\ Cardinality(Busy') \in Nat
           /\ Cardinality(Busy') + (IF wpc[w] \in BusyAt THEN 1 ELSE 0)
                 = Cardinality(Busy) + (IF l \in BusyAt THEN 1 ELSE 0)
           /\ Cardinality(Idlers) \in Nat /\ Cardinality(Idlers') \in Nat
           /\ Cardinality(Idlers') + (IF wpc[w] \in Idling THEN 1 ELSE 0)
                 = Cardinality(Idlers) + (IF l \in Idling THEN 1 ELSE 0)
  <1>2. /\ Cardinality(At(wpc, BusyAt)) \in Nat /\ Cardinality(At(wpc', BusyAt)) \in Nat
        /\ Cardinality(At(wpc', BusyAt)) + (IF wpc[w] \in BusyAt THEN 1 ELSE 0)
              = Cardinality(At(wpc, BusyAt)) + (IF l \in BusyAt THEN 1 ELSE 0)
    BY CountMoves
  <1>3. /\ Cardinality(At(wpc, Idling)) \in Nat /\ Cardinality(At(wpc', Idling)) \in Nat
        /\ Cardinality(At(wpc', Idling)) + (IF wpc[w] \in Idling THEN 1 ELSE 0)
              = Cardinality(At(wpc, Idling)) + (IF l \in Idling THEN 1 ELSE 0)
    BY CountMoves
  <1>4. Busy' = At(wpc', BusyAt) /\ Idlers' = At(wpc', Idling)
    BY DEF Busy, Idlers, At, BusyAt, Idling
  <1> QED
    BY <1>2, <1>3, <1>4 DEF Busy, Idlers

LEMMA TypingInit == Init => Typing
  <1> SUFFICES ASSUME Init PROVE Typing
    OBVIOUS
  <1>1. Busy = {} /\ Idlers = {}
    BY DEF Init, Busy, Idlers, At, BusyAt, Idling
  <1>2. Cardinality({}) = 0
    BY FS_EmptySet
  <1>3. TypeOK
    <2>1. wpc \in [Workers -> Labels] /\ running \in [Workers -> SUBSET created]
      BY DEF Init, Labels
    <2>2. posted \in 0..MaxPosted
      BY PostedAssumption DEF Init
    <2> QED
      BY <2>1, <2>2 DEF Init, TypeOK, Labels
  <1> QED
    BY <1>1, <1>2, <1>3 DEF Init, Typing, Counted

(* A worker that moves without touching the counters stays inside or outside
   of both sets. *)
LEMMA QuietMove ==
    ASSUME Typing, NEW w \in Workers, NEW l \in Labels, Goto(w, l),
           wpc[w] \in BusyAt <=> l \in BusyAt,
           wpc[w] \in Idling <=> l \in Idling,
           UNCHANGED <<active, idle>>
    PROVE  Counted' /\ wpc' \in [Workers -> Labels] /\ active' \in Nat /\ idle' \in Nat
  <1>1. Counted'
    BY CountsMove DEF Typing, Counted
  <1> QED
    BY <1>1 DEF Typing, TypeOK, Goto, Labels

LEMMA TypingNext == Typing /\ [Next]_vars => Typing'
  <1> SUFFICES ASSUME Typing, [Next]_vars PROVE Typing'
    OBVIOUS
  <1>0. TypeOK /\ Counted /\ wpc \in [Workers -> Labels]
    BY DEF Typing, TypeOK, Labels
  <1>a. Typing' <=> TypeOK' /\ Counted'
    BY DEF Typing
  <1>p. posted' = posted \/ Tickle => posted' \in 0..MaxPosted
    BY <1>0, PostedAssumption DEF TypeOK, Tickle, OneMore
  <1> USE DEF BusyAt, Idling, Labels
  <1>1. ASSUME NEW w \in Workers, NEW t \in Tasks, Fetch(w, t) PROVE Typing'
    <2> DEFINE l == IF queue' = {} THEN "run" ELSE "share"
    <2>1. wpc[w] = "fetch" /\ Goto(w, l) /\ l \in BusyAt
      BY <1>1 DEF Fetch
    <2> HIDE DEF l
    <2>2. Counted' /\ active' \in Nat
      BY <1>0, <1>1, <2>1, CountsMove DEF Fetch, Counted
    <2>3. wpc' \in [Workers -> Labels]
      BY <1>0, <2>1 DEF Goto
    <2>4. t \in queue /\ queue' \subseteq queue
      BY <1>1 DEF Fetch, Eligible
    <2>5. running' \in [Workers -> SUBSET created]
      BY <1>0, <1>1, <2>4 DEF Fetch, TypeOK
    <2> QED
      BY <1>0, <1>a, <1>1, <2>2, <2>3, <2>4, <2>5 DEF Fetch, TypeOK
  <1>2. ASSUME NEW w \in Workers, FetchNone(w) PROVE Typing'
    <2>1. PICK l \in Labels : Goto(w, l) /\ (wpc[w] \in BusyAt <=> l \in BusyAt)
                              /\ (wpc[w] \in Idling <=> l \in Idling)
      BY <1>2 DEF FetchNone
    <2>2. Counted' /\ wpc' \in [Workers -> Labels] /\ active' \in Nat /\ idle' \in Nat
      BY <1>2, <2>1, QuietMove DEF FetchNone
    <2> QED
      BY <1>0, <1>a, <1>p, <1>2, <2>2 DEF FetchNone, TypeOK, taskVars
  <1>3. ASSUME NEW w \in Workers, Share(w) PROVE Typing'
    <2>1. PICK l \in Labels : Goto(w, l) /\ (wpc[w] \in BusyAt <=> l \in BusyAt)
                              /\ (wpc[w] \in Idling <=> l \in Idling)
      BY <1>3 DEF Share
    <2>2. Counted' /\ wpc' \in [Workers -> Labels] /\ active' \in Nat /\ idle' \in Nat
      BY <1>3, <2>1, QuietMove DEF Share
    <2> QED
      BY <1>0, <1>a, <1>p, <1>3, <2>2 DEF Share, TypeOK, taskVars
  <1>4. ASSUME NEW w \in Workers, NEW t \in Tasks, Spawn(w, t) PROVE Typing'
    <2>1. PICK l \in Labels : Goto(w, l) /\ (wpc[w] \in BusyAt <=> l \in BusyAt)
                              /\ (wpc[w] \in Idling <=> l \in Idling)
      BY <1>4 DEF Spawn
    <2>2. Counted' /\ wpc' \in [Workers -> Labels] /\ active' \in Nat /\ idle' \in Nat
      BY <1>4, <2>1, QuietMove DEF Spawn
    <2> QED
      BY <1>0, <1>a, <1>p, <1>4, <2>2 DEF Spawn, TypeOK, taskVars, Push
  <1>5. ASSUME NEW w \in Workers, NotifyOthers(w) PROVE Typing'
    <2>1. PICK l \in Labels : Goto(w, l) /\ (wpc[w] \in BusyAt <=> l \in BusyAt)
                              /\ (wpc[w] \in Idling <=> l \in Idling)
      BY <1>5 DEF NotifyOthers
    <2>2. Counted' /\ wpc' \in [Workers -> Labels] /\ active' \in Nat /\ idle' \in Nat
      BY <1>5, <2>1, QuietMove DEF NotifyOthers
    <2> QED
      BY <1>0, <1>a, <1>p, <1>5, <2>2 DEF NotifyOthers, TypeOK, taskVars
  <1>6. ASSUME NEW w \in Workers, Finish(w) PROVE Typing'
    <2>1. Counted' /\ active' \in Nat
      BY <1>0, <1>6, CountsMove DEF Finish, Counted
    <2>2. wpc' \in [Workers -> Labels]
      BY <1>0, <1>6 DEF Finish, Goto
    <2>3. running[w] \subseteq created /\ running' \in [Workers -> SUBSET created]
      BY <1>0, <1>6 DEF Finish, TypeOK
    <2> QED
      BY <1>0, <1>a, <1>6, <2>1, <2>2, <2>3 DEF Finish, TypeOK
  <1>7. ASSUME NEW w \in Workers, Check(w) PROVE Typing'
    <2>1. PICK l \in Labels : Goto(w, l) /\ (wpc[w] \in BusyAt <=> l \in BusyAt)
                              /\ (wpc[w] \in Idling <=> l \in Idling)
      BY <1>7 DEF Check
    <2>2. Counted' /\ wpc' \in [Workers -> Labels] /\ active' \in Nat /\ idle' \in Nat
      BY <1>7, <2>1, QuietMove DEF Check
    <2> QED
      BY <1>0, <1>a, <1>p, <1>7, <2>2 DEF Check, TypeOK, taskVars
  <1>8. ASSUME NEW w \in Workers, Count(w) PROVE Typing'
    <2>1. Counted' /\ active' \in Nat /\ idle' \in Nat
      BY <1>0, <1>8, CountsMove DEF Count, Counted
    <2>2. wpc' \in [Workers -> Labels]
      BY <1>0, <1>8 DEF Count, Goto
    <2> QED
      BY <1>0, <1>a, <1>8, <2>1, <2>2 DEF Count, TypeOK, taskVars
  <1>9. ASSUME NEW w \in Workers, IdleEnds(w) PROVE Typing'
    <2>1. Counted' /\ active' \in Nat /\ idle' \in Nat
      BY <1>0, <1>9, CountsMove DEF IdleEnds, Counted
    <2>2. wpc' \in [Workers -> Labels]
      BY <1>0, <1>9 DEF IdleEnds, Goto
    <2> QED
      BY <1>0, <1>a, <1>9, <2>1, <2>2 DEF IdleEnds, TypeOK, taskVars
  <1>10. ASSUME NEW w \in Workers, Sleep(w) PROVE Typing'
    <2>1. PICK l \in Labels : Goto(w, l) /\ (wpc[w] \in BusyAt <=> l \in BusyAt)
                              /\ (wpc[w] \in Idling <=> l \in Idling)
      BY <1>10 DEF Sleep
    <2>2. Counted' /\ wpc' \in [Workers -> Labels] /\ active' \in Nat /\ idle' \in Nat
      BY <1>10, <2>1, QuietMove DEF Sleep
    <2> QED
      BY <1>0, <1>a, <1>p, <1>10, <2>2 DEF Sleep, TypeOK, taskVars
  <1>11. ASSUME NEW w \in Workers, Wake(w) PROVE Typing'
    <2>1. PICK l \in Labels : Goto(w, l) /\ (wpc[w] \in BusyAt <=> l \in BusyAt)
                              /\ (wpc[w] \in Idling <=> l \in Idling)
      BY <1>11 DEF Wake
    <2>2. Counted' /\ wpc' \in [Workers -> Labels] /\ active' \in Nat /\ idle' \in Nat
      BY <1>11, <2>1, QuietMove DEF Wake
    <2>3. posted' \in 0..MaxPosted
      BY <1>0, <1>11, PostedAssumption DEF Wake, TypeOK
    <2> QED
      BY <1>0, <1>a, <1>11, <2>2, <2>3 DEF Wake, TypeOK, taskVars
  <1>12. ASSUME NEW w \in Workers, NEW t \in Tasks, Trigger(w, t) PROVE Typing'
    <2>1. PICK l \in Labels : Goto(w, l) /\ (wpc[w] \in BusyAt <=> l \in BusyAt)
                              /\ (wpc[w] \in Idling <=> l \in Idling)
      BY <1>12 DEF Trigger
    <2>2. Counted' /\ wpc' \in [Workers -> Labels] /\ active' \in Nat /\ idle' \in Nat
      BY <1>12, <2>1, QuietMove DEF Trigger
    <2> QED
      BY <1>0, <1>a, <1>p, <1>12, <2>2 DEF Trigger, TypeOK, taskVars, Push
  <1>13. ASSUME NEW w \in Workers, Leave(w) PROVE Typing'
    <2>1. Counted' /\ active' \in Nat /\ idle' \in Nat
      BY <1>0, <1>13, CountsMove DEF Leave, Counted
    <2>2. wpc' \in [Workers -> Labels]
      BY <1>0, <1>13 DEF Leave, Goto
    <2> QED
      BY <1>0, <1>a, <1>13, <2>1, <2>2 DEF Leave, TypeOK, taskVars
  <1>b. UNCHANGED <<wpc, active, idle>> => Counted'
    BY <1>0 DEF Counted, Busy, Idlers, At
  <1>14. ASSUME NEW t \in Tasks, ScheduleOutside(t) PROVE Typing'
    BY <1>0, <1>a, <1>b, <1>14 DEF ScheduleOutside, Push, TypeOK
  <1>15. CASE NotifyOutside
    BY <1>0, <1>a, <1>b, <1>p, <1>15 DEF NotifyOutside, TypeOK, taskVars
  <1>16. CASE Stop
    BY <1>0, <1>a, <1>b, <1>16, WorkersAssumption, FS_CardinalityType DEF Stop, TypeOK, taskVars
  <1>17. CASE StopNotify
    BY <1>0, <1>a, <1>b, <1>p, <1>17 DEF StopNotify, TypeOK, taskVars
  <1>18. CASE UNCHANGED vars
    BY <1>0, <1>a, <1>b, <1>18 DEF vars, TypeOK
  <1> QED
    BY <1>1, <1>2, <1>3, <1>4, <1>5, <1>6, <1>7, <1>8, <1>9, <1>10, <1>11, <1>12, <1>13,
       <1>14, <1>15, <1>16, <1>17, <1>18 DEF Next, Loop

(* Types and exact counters, for every pool and set of tasks. *)
THEOREM TypeCorrect == Spec => []TypeOK
  <1>1. Typing => TypeOK
    BY DEF Typing
  <1> QED
    BY <1>1, TypingInit, TypingNext, PTL DEF Spec

-----------------------------------------------------------------------------
(* Whoever puts a task into the queue looks at the queue again before it
   sleeps. It may skip the task then only if the task is pinned; that a worker
   whose idle fiber has ended leaves after skipping is what the second part
   excludes. *)
Leaving(w) == wpc[w] = "pass" /\ w \in ended

SomebodyLooks ==
    /\ queue \ Outside # {} /\ ended = {} => \E w \in Workers : wpc[w] \notin Asleep
    /\ queue \ (Outside \cup Pinned) # {}
           => \E w \in Workers : wpc[w] \notin Asleep /\ ~Leaving(w)

LEMMA LooksNext == TypeOK /\ SomebodyLooks /\ [Next]_vars => SomebodyLooks'
  <1> SUFFICES ASSUME TypeOK, SomebodyLooks, [Next]_vars
               PROVE  SomebodyLooks'
    OBVIOUS
  <1>0. \A w \in Workers : \A l : Goto(w, l) =>
            wpc'[w] = l /\ \A v \in Workers \ {w} : wpc'[v] = wpc[v]
    BY DEF Goto, TypeOK
  <1> USE DEF SomebodyLooks, Asleep, Leaving
  (* A worker that stays awake is the witness. *)
  <1>a. ASSUME NEW w \in Workers, wpc'[w] \notin Asleep, ~Leaving(w)' \/ queue' \ (Outside \cup Pinned) = {}
        PROVE  SomebodyLooks'
    BY <1>a
  <1>1. ASSUME NEW w \in Workers, NEW t \in Tasks, Fetch(w, t) PROVE SomebodyLooks'
    BY <1>0, <1>1, <1>a DEF Fetch
  <1>2. ASSUME NEW w \in Workers, FetchNone(w) PROVE SomebodyLooks'
    BY <1>0, <1>2, <1>a DEF FetchNone, Eligible, taskVars
  <1>3. ASSUME NEW w \in Workers, Share(w) PROVE SomebodyLooks'
    <2>1. /\ queue' = queue /\ ended' = ended
          /\ \A v \in Workers \ {w} : wpc'[v] = wpc[v]
      BY <1>0, <1>3 DEF Share, taskVars
    <2>2. CASE wpc'[w] = "exit"
      BY <1>3, <2>1, <2>2, <1>0 DEF Share
    <2>3. CASE wpc'[w] # "exit"
      BY <1>3, <2>3, <1>0, <1>a DEF Share
    <2> QED
      BY <2>2, <2>3
  <1>4. ASSUME NEW w \in Workers, NEW t \in Tasks, Spawn(w, t) PROVE SomebodyLooks'
    BY <1>0, <1>4, <1>a DEF Spawn
  <1>5. ASSUME NEW w \in Workers, NotifyOthers(w) PROVE SomebodyLooks'
    BY <1>0, <1>5, <1>a DEF NotifyOthers
  <1>6. ASSUME NEW w \in Workers, Finish(w) PROVE SomebodyLooks'
    BY <1>0, <1>6, <1>a DEF Finish
  <1>7. ASSUME NEW w \in Workers, Check(w) PROVE SomebodyLooks'
    BY <1>0, <1>7, <1>a DEF Check, taskVars
  <1>8. ASSUME NEW w \in Workers, Count(w) PROVE SomebodyLooks'
    BY <1>0, <1>8 DEF Count, taskVars
  <1>9. ASSUME NEW w \in Workers, IdleEnds(w) PROVE SomebodyLooks'
    BY <1>0, <1>9, <1>a DEF IdleEnds
  <1>10. ASSUME NEW w \in Workers, Sleep(w) PROVE SomebodyLooks'
    BY <1>0, <1>10 DEF Sleep, taskVars
  <1>11. ASSUME NEW w \in Workers, Wake(w) PROVE SomebodyLooks'
    BY <1>0, <1>11, <1>a DEF Wake
  <1>12. ASSUME NEW w \in Workers, NEW t \in Tasks, Trigger(w, t) PROVE SomebodyLooks'
    BY <1>0, <1>12, <1>a DEF Trigger
  <1>13. ASSUME NEW w \in Workers, Leave(w) PROVE SomebodyLooks'
    BY <1>0, <1>13, <1>a DEF Leave
  <1>14. ASSUME NEW t \in Tasks, ScheduleOutside(t) PROVE SomebodyLooks'
    BY <1>14 DEF ScheduleOutside, Push
  <1>15. CASE NotifyOutside
    BY <1>15 DEF NotifyOutside, taskVars
  <1>16. CASE Stop
    BY <1>16 DEF Stop, taskVars
  <1>17. CASE StopNotify
    BY <1>17 DEF StopNotify, taskVars
  <1>18. CASE UNCHANGED vars
    BY <1>18 DEF vars
  <1> QED
    BY <1>1, <1>2, <1>3, <1>4, <1>5, <1>6, <1>7, <1>8, <1>9, <1>10, <1>11, <1>12, <1>13,
       <1>14, <1>15, <1>16, <1>17, <1>18 DEF Next, Loop

(* No task waits for a notification or for the cap of the wait, unless a
   thread outside the pool has scheduled it. *)
THEOREM PoolAwake == Spec => []NoSleepOnWork
  <1>1. Init => SomebodyLooks
    BY DEF Init, SomebodyLooks
  <1>2. SomebodyLooks => NoSleepOnWork
    BY DEF SomebodyLooks, NoSleepOnWork, Asleep
  <1> QED
    BY <1>1, <1>2, LooksNext, TypeCorrect, PTL DEF Spec

-----------------------------------------------------------------------------
(* The last worker whose idle fiber ends finds the queue empty and nobody
   active, and nobody is left to schedule anything: those whose idle fibers
   have ended only get tasks from the queue. *)
AllGone ==
    /\ \A w \in ended : wpc[w] \notin Idling \cup {"check", "count"}
    /\ \A w \in Workers : wpc[w] = "exit" => w \in ended
    /\ ended = Workers /\ created \cap Outside = {}
           => queue = {} /\ \A w \in Workers : wpc[w] \notin BusyAt

Drained == Accounted /\ AllGone

LEMMA NobodyBusy ==
    ASSUME Typing, active = 0
    PROVE  \A w \in Workers : wpc[w] \notin BusyAt
  <1>1. IsFiniteSet(Busy)
    <2>1. Busy \subseteq Workers
      BY DEF Busy, At
    <2> QED
      BY <2>1, WorkersAssumption, FS_Subset
  <1>2. Busy = {}
    BY <1>1, FS_EmptySet DEF Typing, Counted
  <1> QED
    BY <1>2 DEF Busy, At

LEMMA AccountedNext == Typing /\ Accounted /\ [Next]_vars => Accounted'
  <1> SUFFICES ASSUME Typing, Accounted, [Next]_vars PROVE Accounted'
    OBVIOUS
  <1>0. /\ TypeOK
        /\ \A w \in Workers : \A l : Goto(w, l) =>
               wpc'[w] = l /\ \A v \in Workers \ {w} : wpc'[v] = wpc[v]
        /\ running \in [Workers -> SUBSET created]
        /\ queue \subseteq created
    BY DEF Typing, TypeOK, Goto
  <1> USE DEF Accounted, Busy, At, BusyAt
  <1>1. ASSUME NEW w \in Workers, NEW t \in Tasks, Fetch(w, t) PROVE Accounted'
    <2>1. running[w] = {} /\ running'[w] = {t}
      BY <1>0, <1>1 DEF Fetch
    <2>2. /\ queue' = queue \ {t} /\ created' = created /\ done' = done
          /\ \A v \in Workers \ {w} : running'[v] = running[v]
          /\ wpc'[w] \in BusyAt
      BY <1>0, <1>1 DEF Fetch
    <2>3. \A v \in Workers : running'[v] # {} => v \in Busy'
      BY <1>0, <1>1, <2>2 DEF Fetch
    <2>4. \A u \in created : u \in queue' \/ u \in done \/ \E v \in Workers : u \in running'[v]
      BY <2>1, <2>2
    <2> QED
      BY <2>2, <2>3, <2>4
  <1>2. ASSUME NEW w \in Workers, FetchNone(w) PROVE Accounted'
    BY <1>0, <1>2 DEF FetchNone, taskVars
  <1>3. ASSUME NEW w \in Workers, Share(w) PROVE Accounted'
    BY <1>0, <1>3 DEF Share, taskVars
  <1>4. ASSUME NEW w \in Workers, NEW t \in Tasks, Spawn(w, t) PROVE Accounted'
    BY <1>0, <1>4 DEF Spawn, Push
  <1>5. ASSUME NEW w \in Workers, NotifyOthers(w) PROVE Accounted'
    BY <1>0, <1>5 DEF NotifyOthers, taskVars
  <1>6. ASSUME NEW w \in Workers, Finish(w) PROVE Accounted'
    <2>1. /\ done' = done \cup running[w] /\ created' = created /\ queue' = queue
          /\ running'[w] = {} /\ \A v \in Workers \ {w} : running'[v] = running[v]
      BY <1>0, <1>6 DEF Finish
    <2>2. \A v \in Workers : running'[v] # {} => v \in Busy'
      BY <1>0, <1>6, <2>1 DEF Finish
    <2> QED
      BY <2>1, <2>2
  <1>7. ASSUME NEW w \in Workers, Check(w) PROVE Accounted'
    BY <1>0, <1>7 DEF Check, taskVars
  <1>8. ASSUME NEW w \in Workers, Count(w) PROVE Accounted'
    BY <1>0, <1>8 DEF Count, taskVars
  <1>9. ASSUME NEW w \in Workers, IdleEnds(w) PROVE Accounted'
    BY <1>0, <1>9 DEF IdleEnds, taskVars
  <1>10. ASSUME NEW w \in Workers, Sleep(w) PROVE Accounted'
    BY <1>0, <1>10 DEF Sleep, taskVars
  <1>11. ASSUME NEW w \in Workers, Wake(w) PROVE Accounted'
    BY <1>0, <1>11 DEF Wake, taskVars
  <1>12. ASSUME NEW w \in Workers, NEW t \in Tasks, Trigger(w, t) PROVE Accounted'
    BY <1>0, <1>12 DEF Trigger, Push
  <1>13. ASSUME NEW w \in Workers, Leave(w) PROVE Accounted'
    BY <1>0, <1>13 DEF Leave, taskVars
  <1>14. ASSUME NEW t \in Tasks, ScheduleOutside(t) PROVE Accounted'
    BY <1>0, <1>14 DEF ScheduleOutside, Push
  <1>15. CASE NotifyOutside \/ Stop \/ StopNotify
    BY <1>15 DEF NotifyOutside, Stop, StopNotify, taskVars
  <1>16. CASE UNCHANGED vars
    BY <1>16 DEF vars
  <1> QED
    BY <1>1, <1>2, <1>3, <1>4, <1>5, <1>6, <1>7, <1>8, <1>9, <1>10, <1>11, <1>12, <1>13,
       <1>14, <1>15, <1>16 DEF Next, Loop

LEMMA AllGoneNext == Typing /\ AllGone /\ [Next]_vars => AllGone'
  <1> SUFFICES ASSUME Typing, AllGone, [Next]_vars PROVE AllGone'
    OBVIOUS
  <1>0. /\ TypeOK /\ ended \subseteq Workers
        /\ \A w \in Workers : \A l : Goto(w, l) =>
               wpc'[w] = l /\ \A v \in Workers \ {w} : wpc'[v] = wpc[v]
    BY DEF Typing, TypeOK, Goto
  <1> USE DEF AllGone, BusyAt, Idling
  <1>1. ASSUME NEW w \in Workers, NEW t \in Tasks, Fetch(w, t) PROVE AllGone'
    BY <1>0, <1>1 DEF Fetch, Eligible
  <1>2. ASSUME NEW w \in Workers, FetchNone(w) PROVE AllGone'
    BY <1>0, <1>2 DEF FetchNone, taskVars
  <1>3. ASSUME NEW w \in Workers, Share(w) PROVE AllGone'
    BY <1>0, <1>3 DEF Share, taskVars
  <1>4. ASSUME NEW w \in Workers, NEW t \in Tasks, Spawn(w, t) PROVE AllGone'
    BY <1>0, <1>4 DEF Spawn, Push
  <1>5. ASSUME NEW w \in Workers, NotifyOthers(w) PROVE AllGone'
    BY <1>0, <1>5 DEF NotifyOthers, taskVars
  <1>6. ASSUME NEW w \in Workers, Finish(w) PROVE AllGone'
    BY <1>0, <1>6 DEF Finish
  <1>7. ASSUME NEW w \in Workers, Check(w) PROVE AllGone'
    BY <1>0, <1>7 DEF Check, taskVars
  <1>8. ASSUME NEW w \in Workers, Count(w) PROVE AllGone'
    BY <1>0, <1>8 DEF Count, taskVars
  <1>9. ASSUME NEW w \in Workers, IdleEnds(w) PROVE AllGone'
    <2>1. queue = {} /\ active = 0
      BY <1>9 DEF IdleEnds, Stopping
    <2>2. \A v \in Workers : wpc[v] \notin BusyAt
      BY <2>1, NobodyBusy
    <2> QED
      BY <1>0, <1>9, <2>1, <2>2 DEF IdleEnds, taskVars
  <1>10. ASSUME NEW w \in Workers, Sleep(w) PROVE AllGone'
    BY <1>0, <1>10 DEF Sleep, taskVars
  <1>11. ASSUME NEW w \in Workers, Wake(w) PROVE AllGone'
    BY <1>0, <1>11 DEF Wake, taskVars
  <1>12. ASSUME NEW w \in Workers, NEW t \in Tasks, Trigger(w, t) PROVE AllGone'
    BY <1>0, <1>12 DEF Trigger, Push
  <1>13. ASSUME NEW w \in Workers, Leave(w) PROVE AllGone'
    BY <1>0, <1>13 DEF Leave, taskVars
  <1>14. ASSUME NEW t \in Tasks, ScheduleOutside(t) PROVE AllGone'
    BY <1>0, <1>14 DEF ScheduleOutside, Push
  <1>15. CASE NotifyOutside \/ Stop \/ StopNotify
    BY <1>15 DEF NotifyOutside, Stop, StopNotify, taskVars
  <1>16. CASE UNCHANGED vars
    BY <1>16 DEF vars
  <1> QED
    BY <1>1, <1>2, <1>3, <1>4, <1>5, <1>6, <1>7, <1>8, <1>9, <1>10, <1>11, <1>12, <1>13,
       <1>14, <1>15, <1>16 DEF Next, Loop

(* When stop() has joined the workers, every scheduled task has ended, the
   callbacks included that woken workers schedule while the others leave. *)
THEOREM NothingLeft == Spec => []AllTasksRun
  <1>1. Init => Drained
    BY DEF Init, Drained, Accounted, AllGone, Busy, At, BusyAt, Idling
  <1>2. Typing /\ Drained /\ [Next]_vars => Drained'
    BY AccountedNext, AllGoneNext DEF Drained
  <1>3. Typing /\ Drained => AllTasksRun
    <2> SUFFICES ASSUME Typing, Drained, Joined, created \cap Outside = {}
                 PROVE  queue = {} /\ created = done
      BY DEF AllTasksRun
    <2>1. ended = Workers
      BY DEF Typing, TypeOK, Drained, AllGone, Joined
    <2>2. queue = {} /\ \A w \in Workers : wpc[w] \notin BusyAt
      BY <2>1 DEF Drained, AllGone
    <2>3. \A w \in Workers : running[w] = {}
      BY <2>2 DEF Drained, Accounted, Busy, At
    <2> QED
      BY <2>2, <2>3 DEF Drained, Accounted, Typing, TypeOK
  <1> QED
    BY <1>1, <1>2, <1>3, TypingInit, TypingNext, PTL DEF Spec
=============================================================================
