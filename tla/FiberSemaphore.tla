---------------------------- MODULE FiberSemaphore ----------------------------
(***************************************************************************)
(* sylar::FiberSemaphore (mutex.h, mutex.cpp): a semaphore on which fibers *)
(* wait. Each operation is one critical section of the spinlock, except    *)
(* that wait() calls YieldToHold after it has released it: a notify() in   *)
(* between schedules a fiber that has not suspended yet.                   *)
(*                                                                         *)
(* The scheduler is reduced to what the semaphore needs of it: a scheduled *)
(* fiber is resumed after it has suspended. Scheduler.tla shows when that  *)
(* is so.                                                                  *)
(***************************************************************************)
EXTENDS Integers, Sequences, FiniteSets, SequencesExt

CONSTANTS
    Fibers,         \* the fibers that use the semaphore
    Initial,        \* initial_concurrency
    MaxPermits      \* bound: m_concurrency is not notified above it

ASSUME FibersAssumption == IsFiniteSet(Fibers)

ASSUME InitialAssumption == Initial \in Nat /\ MaxPermits \in Nat

VARIABLES
    concurrency,    \* m_concurrency
    waiters,        \* m_waiters
    pc,             \* where each fiber is in wait()
    woken           \* fibers that notify() has handed to their scheduler

semVars == <<concurrency, waiters, pc, woken>>

SemaphoreInit ==
    /\ concurrency = Initial
    /\ waiters = <<>>
    /\ pc = [f \in Fibers |-> "out"]
    /\ woken = {}

(* wait() and tryWait() with a permit there. *)
TakePermit(f) ==
    /\ pc[f] = "out"
    /\ concurrency > 0
    /\ concurrency' = concurrency - 1
    /\ UNCHANGED <<waiters, pc, woken>>

(* wait() without one: the fiber goes to the end of the list ... *)
WaitBlock(f) ==
    /\ pc[f] = "out"
    /\ concurrency = 0
    /\ waiters' = Append(waiters, f)
    /\ pc' = [pc EXCEPT ![f] = "blocking"]
    /\ UNCHANGED <<concurrency, woken>>

(* ... and suspends after it has released the lock. *)
YieldToHold(f) ==
    /\ pc[f] = "blocking"
    /\ pc' = [pc EXCEPT ![f] = "held"]
    /\ UNCHANGED <<concurrency, waiters, woken>>

(* Mutants of notify(): it wakes the last waiter; it wakes one and counts the
   permit as well; it counts the permit without looking for waiters. *)
NotifyLast ==
    \/ /\ waiters # <<>>
       /\ waiters' = Front(waiters)
       /\ woken' = woken \cup {Last(waiters)}
       /\ UNCHANGED <<concurrency, pc>>
    \/ /\ waiters = <<>>
       /\ concurrency < MaxPermits
       /\ concurrency' = concurrency + 1
       /\ UNCHANGED <<waiters, pc, woken>>

NotifyTwice ==
    /\ concurrency < MaxPermits
    /\ concurrency' = concurrency + 1
    /\ waiters' = IF waiters = <<>> THEN <<>> ELSE Tail(waiters)
    /\ woken' = IF waiters = <<>> THEN woken ELSE woken \cup {Head(waiters)}
    /\ UNCHANGED pc

NotifyCount ==
    /\ concurrency < MaxPermits
    /\ concurrency' = concurrency + 1
    /\ UNCHANGED <<waiters, pc, woken>>

(* notify(): the first waiter is scheduled, or the permit is kept. *)
Notify ==
    \/ /\ waiters # <<>>
       /\ waiters' = Tail(waiters)
       /\ woken' = woken \cup {Head(waiters)}
       /\ UNCHANGED <<concurrency, pc>>
    \/ /\ waiters = <<>>
       /\ concurrency < MaxPermits
       /\ concurrency' = concurrency + 1
       /\ UNCHANGED <<waiters, pc, woken>>

NotifyAll ==
    /\ waiters # <<>>
    /\ woken' = woken \cup ToSet(waiters)
    /\ waiters' = <<>>
    /\ UNCHANGED <<concurrency, pc>>

(* reset() takes no lock: it is modelled for a caller that does not overlap
   it with another operation (nothing in the repository calls it). *)
Reset ==
    /\ concurrency' = 0
    /\ UNCHANGED <<waiters, pc, woken>>

(* The scheduler resumes a woken fiber, which returns from wait(). *)
Resume(f) ==
    /\ f \in woken
    /\ pc[f] = "held"
    /\ woken' = woken \ {f}
    /\ pc' = [pc EXCEPT ![f] = "out"]
    /\ UNCHANGED <<concurrency, waiters>>

Fiber(f) == TakePermit(f) \/ WaitBlock(f) \/ YieldToHold(f) \/ Resume(f)

SemaphoreNext ==
    \/ \E f \in Fibers : Fiber(f)
    \/ Notify \/ NotifyAll \/ Reset

SemaphoreSpec == SemaphoreInit /\ [][SemaphoreNext]_semVars

(* A fiber that has decided to suspend does, and the scheduler runs what it
   has been handed. Nobody has to call wait() or notify(). *)
FairSpec ==
    SemaphoreSpec /\ \A f \in Fibers : WF_semVars(YieldToHold(f)) /\ WF_semVars(Resume(f))

-----------------------------------------------------------------------------
SemaphoreType ==
    /\ concurrency \in Nat
    /\ waiters \in Seq(Fibers)
    /\ pc \in [Fibers -> {"out", "blocking", "held"}]
    /\ woken \subseteq Fibers

(* No fiber waits while there is a permit: a notify() that met a waiter woke
   it instead of leaving a permit that the waiter would never see. *)
NoPermitWhileWaiting == waiters # <<>> => concurrency = 0

(* A fiber that is in wait() is in the list or has been scheduled, and in one
   of them once: it is woken exactly once for each time it waits. *)
WokenOnce ==
    /\ \A i, j \in 1..Len(waiters) : waiters[i] = waiters[j] => i = j
    /\ \A i \in 1..Len(waiters) : waiters[i] \notin woken
    /\ \A f \in Fibers : pc[f] # "out" <=> f \in woken \cup ToSet(waiters)

(* Fibers are served in the order in which they began to wait: none leaves
   the list before one that was in front of it. *)
FirstComeFirstServed ==
    [][\A i, j \in 1..Len(waiters) :
          i < j /\ waiters[j] \notin ToSet(waiters') => waiters[i] \notin ToSet(waiters')]_semVars

(* The semaphore keeps its promise: a permit is one in m_concurrency or one
   that a scheduled fiber carries. *)
Promise == INSTANCE CountingSemaphore WITH
    Clients <- Fibers,
    permits <- concurrency + Cardinality(woken),
    waiting <- woken \cup ToSet(waiters)

KeepsPromise == Promise!FairSpec
=============================================================================
