------------------------------ MODULE Scheduler ------------------------------
(***************************************************************************)
(* The N:M fiber scheduler: sylar::Scheduler (scheduler.cpp, scheduler.h)  *)
(* together with the context switches of sylar::Fiber (fiber.cpp) that its *)
(* run loop performs.  The scheduler is built with use_caller = false, as  *)
(* main.cpp does, so that every worker is a thread of the pool.            *)
(*                                                                         *)
(* The atomic steps are the critical sections of m_mutex, the accesses to  *)
(* the atomic counters, the accesses to Fiber::m_state, and the stack      *)
(* switches.  In particular publishing a new state (fiber.cpp:205, 213,    *)
(* 233, 237) and saving the suspended context (fiber.cpp:170, which runs   *)
(* on the scheduler's stack after the jump) are two steps.                 *)
(***************************************************************************)
EXTENDS Integers, Sequences, FiniteSets, SequencesExt

CONSTANTS
    Threads,        \* the workers of the pool
    Fibers,         \* tasks handed to schedule() as a Fiber::ptr
    Callbacks,      \* tasks handed to schedule() as a function
    Holders,        \* tasks that give up the processor with YieldToHold
    Twice,          \* fibers that are handed to schedule() a second time
    Pins,           \* the `thread' arguments callers of schedule() use
    Spawning,       \* may a running task call schedule()?
    MaxYields,      \* bound: how often one task yields
    MaxStarts,      \* bound: how often start() is called
    AnyThread,      \* the thread argument -1
    NoItem          \* an empty FiberAndThread

Tasks == Fibers \cup Callbacks

ASSUME TasksAssumption ==
    /\ Fibers \cap Callbacks = {}
    /\ Holders \subseteq Tasks
    /\ Twice \subseteq Fibers

ASSUME PinsAssumption ==
    /\ AnyThread \notin Threads
    /\ Pins \subseteq Threads \cup {AnyThread}
    /\ Spawning \in BOOLEAN

ASSUME BoundsAssumption == MaxYields \in Nat /\ MaxStarts \in Nat

(* scheduler.cpp:22 asserts threads > 0. *)
ASSUME ThreadsAssumption == IsFiniteSet(Threads) /\ Threads # {}

(* FiberAndThread (scheduler.h:161-198): kind tells `fiber' from `cb'. *)
Item == [task : Tasks, kind : {"fiber", "cb"}, thread : Threads \cup {AnyThread}]

ASSUME NoItemAssumption == NoItem \notin Item

FiberState == {"INIT", "HOLD", "EXEC", "TERM", "READY", "EXCEPT"}

VARIABLES
    fibers,     \* m_fibers, the run queue
    active,     \* m_activeThreadCount
    idle,       \* m_idleThreadCount
    autoStop,   \* m_autoStop
    stopping,   \* m_stopping
    state,      \* Fiber::m_state of each task
    saved,      \* does m_ctx of the task's fiber hold the place to resume?
    ended,      \* tasks whose MainFunc is over, whatever m_state says
    pc,         \* where each worker is in run()
    ft,         \* the worker's local ft
    idleState,  \* m_state of the worker's idle fiber
    waiters,    \* parked tasks whose reference a waker holds
    client,     \* where the owner of the scheduler is in start() and stop()
    calls,      \* schedule() calls still to come for each task
    yields,     \* yields each task has made
    starts,     \* start() calls so far
    pin,        \* the thread asked for by the last schedule() call of a task
    fault       \* "none", or what went wrong in a swapIn

vars == <<fibers, active, idle, autoStop, stopping, state, saved, ended, pc, ft,
          idleState, waiters, client, calls, yields, starts, pin, fault>>

queueVars  == <<fibers, calls, pin>>
fiberVars  == <<state, saved, ended, waiters, yields>>
countVars  == <<active, idle>>
clientVars == <<autoStop, stopping, client, starts>>

(* The pcs at which a worker has taken an item and not given it up, those at
   which it is on the task's own stack, and those counted as active. *)
Owning == {"dispatch", "swapin", "exec", "parking", "leaving", "back", "examine", "requeue",
           "hold"}
OnStack == {"exec", "parking", "leaving"}
Active == {"dispatch", "swapin", "exec", "parking", "leaving", "back"}
PCs == Owning \cup {"new", "fetch", "none", "idling", "idleback", "exited"}

Kind(f) == IF f \in Callbacks THEN "cb" ELSE "fiber"

NewItem(f, k, th) == [task |-> f, kind |-> k, thread |-> th]

Dead == {"TERM", "EXCEPT"}

Init ==
    /\ fibers = <<>>
    /\ active = 0 /\ idle = 0
    /\ autoStop = FALSE /\ stopping = TRUE
    /\ state = [f \in Tasks |-> "INIT"]
    /\ saved = [f \in Tasks |-> TRUE]
    /\ ended = {}
    /\ pc = [t \in Threads |-> "new"]
    /\ ft = [t \in Threads |-> NoItem]
    /\ idleState = [t \in Threads |-> "INIT"]
    /\ waiters = {}
    /\ client = "idle"
    /\ calls = [f \in Tasks |-> IF f \in Twice THEN 2 ELSE 1]
    /\ yields = [f \in Tasks |-> 0]
    /\ starts = 0
    /\ pin = [f \in Tasks |-> AnyThread]
    /\ fault = "none"

-----------------------------------------------------------------------------
(* The owner of the scheduler. *)

(* start(): under the lock the pool is rebuilt and every thread enters run(),
   where it makes a new idle fiber. *)
Start ==
    /\ client \in {"idle", "stopped"}
    /\ starts < MaxStarts
    /\ stopping
    /\ stopping' = FALSE
    /\ starts' = starts + 1
    /\ client' = "running"
    /\ pc' = [t \in Threads |-> "fetch"]
    /\ idleState' = [t \in Threads |-> "INIT"]
    /\ UNCHANGED <<autoStop, ft, fault, queueVars, fiberVars, countVars>>

(* schedule(task, thread): scheduleNoLock appends; the tickle it may send only
   logs in this class. *)
Enqueue(f, th) ==
    /\ calls[f] > 0
    /\ calls' = [calls EXCEPT ![f] = @ - 1]
    /\ fibers' = Append(fibers, NewItem(f, Kind(f), th))
    /\ pin' = [pin EXCEPT ![f] = th]

Schedule(f, th) ==
    /\ client \in {"idle", "running"}
    /\ Enqueue(f, th)
    /\ UNCHANGED <<pc, ft, idleState, fault, fiberVars, countVars, clientVars>>

(* schedule(begin, end): all of a batch under one lock, for any thread. The
   batches are pairs. *)
ScheduleBatch(f, g) ==
    /\ client \in {"idle", "running"}
    /\ f # g /\ calls[f] > 0 /\ calls[g] > 0
    /\ calls' = [x \in Tasks |-> IF x \in {f, g} THEN calls[x] - 1 ELSE calls[x]]
    /\ fibers' = fibers \o <<NewItem(f, Kind(f), AnyThread), NewItem(g, Kind(g), AnyThread)>>
    /\ pin' = [x \in Tasks |-> IF x \in {f, g} THEN AnyThread ELSE pin[x]]
    /\ UNCHANGED <<pc, ft, idleState, fault, fiberVars, countVars, clientVars>>

(* stop() writes its two flags one after the other, then joins the pool. *)
StopBegin ==
    /\ client = "running"
    /\ client' = "stop"
    /\ autoStop' = TRUE
    /\ UNCHANGED <<stopping, starts, pc, ft, idleState, fault, queueVars, fiberVars, countVars>>

StopRequest ==
    /\ client = "stop"
    /\ client' = "joining"
    /\ stopping' = TRUE
    /\ UNCHANGED <<autoStop, starts, pc, ft, idleState, fault, queueVars, fiberVars, countVars>>

StopJoin ==
    /\ client = "joining"
    /\ \A t \in Threads : pc[t] = "exited"
    /\ client' = "stopped"
    /\ UNCHANGED <<autoStop, stopping, starts, pc, ft, idleState, fault, queueVars, fiberVars,
                   countVars>>

-----------------------------------------------------------------------------
(* The run loop of worker t. *)

Goto(t, l) == pc' = [pc EXCEPT ![t] = l]

(* scheduler.cpp:246, 256: what worker t may take from the queue. *)
Fetchable(t, i) ==
    /\ fibers[i].thread \in {AnyThread, t}
    /\ ~(fibers[i].kind = "fiber" /\ state[fibers[i].task] = "EXEC")

Fetch(t) ==
    /\ pc[t] = "fetch"
    /\ \E i \in 1..Len(fibers) :
        /\ Fetchable(t, i)
        /\ \A j \in 1..(i - 1) : ~Fetchable(t, j)
        /\ ft' = [ft EXCEPT ![t] = fibers[i]]
        /\ fibers' = RemoveAt(fibers, i)
    /\ active' = active + 1
    /\ Goto(t, "dispatch")
    /\ UNCHANGED <<idle, idleState, calls, pin, fault, fiberVars, clientVars>>

FetchNone(t) ==
    /\ pc[t] = "fetch"
    /\ \A i \in 1..Len(fibers) : ~Fetchable(t, i)
    /\ Goto(t, "none")
    /\ UNCHANGED <<ft, idleState, fault, queueVars, fiberVars, countVars, clientVars>>

(* A live fiber, or a function put into the worker's cb_fiber, is resumed. *)
Dispatch(t) ==
    /\ pc[t] = "dispatch"
    /\ ft[t].kind = "fiber" => state[ft[t].task] \notin Dead
    /\ Goto(t, "swapin")
    /\ UNCHANGED <<ft, idleState, fault, queueVars, fiberVars, countVars, clientVars>>

(* A fiber that has ended since it was queued is dropped. *)
DropDead(t) ==
    /\ pc[t] = "dispatch"
    /\ ft[t].kind = "fiber" /\ state[ft[t].task] \in Dead
    /\ active' = active - 1
    /\ ft' = [ft EXCEPT ![t] = NoItem]
    /\ Goto(t, "fetch")
    /\ UNCHANGED <<idle, idleState, fault, queueVars, fiberVars, clientVars>>

(* A fiber that has come to the end of MainFunc. A function is put into a
   fiber that starts afresh. *)
Over(it) == it.kind = "fiber" /\ it.task \in ended

(* A mutant: swapIn without line 167. *)
SwapInKeepsState(t) ==
    LET f == ft[t].task IN
    /\ pc[t] = "swapin"
    /\ state[f] # "EXEC" /\ saved[f] /\ ~Over(ft[t])
    /\ saved' = [saved EXCEPT ![f] = FALSE]
    /\ Goto(t, "exec")
    /\ UNCHANGED <<ft, idleState, state, ended, waiters, yields, fault, queueVars, countVars, clientVars>>

(* Fiber::swapIn up to the jump. Once jumped, m_ctx is used up until the
   fiber suspends and line 170 stores the new one. *)
SwapIn(t) ==
    LET f == ft[t].task IN
    /\ pc[t] = "swapin"
    /\ state[f] # "EXEC" /\ saved[f] /\ ~Over(ft[t])
    /\ state' = [state EXCEPT ![f] = "EXEC"]
    /\ saved' = [saved EXCEPT ![f] = FALSE]
    /\ ended' = ended \ {f}
    /\ Goto(t, "exec")
    /\ UNCHANGED <<ft, idleState, waiters, yields, fault, queueVars, countVars, clientVars>>

(* The ways to resume a fiber that another worker still executes or has ended:
   the assertion of line 166 fails, the jump of line 169 uses an m_ctx that was
   already consumed, or it comes to the end of MainFunc, which is never to be
   reached (line 257). Nothing defined follows, so the model halts. *)
SwapInFault(t) ==
    LET f == ft[t].task IN
    /\ pc[t] = "swapin"
    /\ \/ state[f] = "EXEC" /\ fault' = "assert"
       \/ state[f] # "EXEC" /\ ~saved[f] /\ fault' = "stale"
       \/ state[f] # "EXEC" /\ saved[f] /\ Over(ft[t]) /\ fault' = "over"
    /\ UNCHANGED <<pc, ft, idleState, queueVars, fiberVars, countVars, clientVars>>

(* A mutant: swapIn without line 170. *)
SaveContextForgotten(t) ==
    /\ pc[t] = "leaving"
    /\ Goto(t, "back")
    /\ UNCHANGED <<ft, idleState, fault, queueVars, fiberVars, countVars, clientVars>>

(* fiber.cpp:170, after the fiber has jumped back to the scheduler's stack. *)
SaveContext(t) ==
    /\ pc[t] = "leaving"
    /\ saved' = [saved EXCEPT ![ft[t].task] = TRUE]
    /\ Goto(t, "back")
    /\ UNCHANGED <<ft, idleState, state, ended, waiters, yields, fault, queueVars, countVars, clientVars>>

(* A mutant: the worker comes back without --m_activeThreadCount. *)
DeactivateNoDecrement(t) ==
    /\ pc[t] = "back"
    /\ Goto(t, "examine")
    /\ UNCHANGED <<ft, idleState, fault, queueVars, fiberVars, countVars, clientVars>>

Deactivate(t) ==
    /\ pc[t] = "back"
    /\ active' = active - 1
    /\ Goto(t, "examine")
    /\ UNCHANGED <<ft, idle, idleState, fault, queueVars, fiberVars, clientVars>>

(* scheduler.cpp:286-293 and 314-325: a function that became READY is queued
   as a fiber for any thread, a fiber with the thread of its item. m_state is
   read without a lock, and what follows is a step of its own: where another
   worker has resumed the task meanwhile, HOLD is written over the state that
   it has given it. *)
RequeueThread(it) == IF it.kind = "fiber" THEN it.thread ELSE AnyThread

(* The READY that lines 286 and 314 read. *)
FindReady(t) ==
    /\ pc[t] = "examine"
    /\ state[ft[t].task] = "READY"
    /\ Goto(t, "requeue")
    /\ UNCHANGED <<ft, idleState, fault, queueVars, fiberVars, countVars, clientVars>>

(* A mutant: a task that yielded is not queued again. *)
RequeueForgotten(t) ==
    /\ pc[t] = "requeue"
    /\ ft' = [ft EXCEPT ![t] = NoItem]
    /\ Goto(t, "fetch")
    /\ UNCHANGED <<idleState, fault, queueVars, fiberVars, countVars, clientVars>>

Requeue(t) ==
    /\ pc[t] = "requeue"
    /\ fibers' = Append(fibers, NewItem(ft[t].task, "fiber", RequeueThread(ft[t])))
    /\ ft' = [ft EXCEPT ![t] = NoItem]
    /\ Goto(t, "fetch")
    /\ UNCHANGED <<idleState, calls, pin, fault, fiberVars, countVars, clientVars>>

(* The task has ended. *)
Release(t) ==
    /\ pc[t] = "examine"
    /\ state[ft[t].task] \in Dead
    /\ ft' = [ft EXCEPT ![t] = NoItem]
    /\ Goto(t, "fetch")
    /\ UNCHANGED <<idleState, fault, queueVars, fiberVars, countVars, clientVars>>

(* Neither is so: lines 289 and 319 do not read a state of the end. *)
FindHeld(t) ==
    /\ pc[t] = "examine"
    /\ state[ft[t].task] \notin Dead \cup {"READY"}
    /\ Goto(t, "hold")
    /\ UNCHANGED <<ft, idleState, fault, queueVars, fiberVars, countVars, clientVars>>

Hold(t) ==
    /\ pc[t] = "hold"
    /\ state' = [state EXCEPT ![ft[t].task] = "HOLD"]
    /\ ft' = [ft EXCEPT ![t] = NoItem]
    /\ Goto(t, "fetch")
    /\ UNCHANGED <<idleState, saved, ended, waiters, yields, fault, queueVars, countVars, clientVars>>

(* Nothing to do: leave when the idle fiber has ended, fetch again when the
   queue is not empty, else resume the idle fiber. *)
Exit(t) ==
    /\ pc[t] = "none"
    /\ idleState[t] = "TERM"
    /\ Goto(t, "exited")
    /\ UNCHANGED <<ft, idleState, fault, queueVars, fiberVars, countVars, clientVars>>

FetchAgain(t) ==
    /\ pc[t] = "none"
    /\ idleState[t] # "TERM"
    /\ fibers # <<>>
    /\ Goto(t, "fetch")
    /\ UNCHANGED <<ft, idleState, fault, queueVars, fiberVars, countVars, clientVars>>

IdleIn(t) ==
    /\ pc[t] = "none"
    /\ idleState[t] # "TERM"
    /\ fibers = <<>>
    /\ idle' = idle + 1
    /\ idleState' = [idleState EXCEPT ![t] = "EXEC"]
    /\ Goto(t, "idling")
    /\ UNCHANGED <<active, ft, fault, queueVars, fiberVars, clientVars>>

(* stopping(), under the read lock. *)
Stopping == autoStop /\ stopping /\ fibers = <<>> /\ active = 0

(* One turn of idle(). *)
IdleTurn(t) ==
    /\ pc[t] = "idling"
    /\ idleState' = [idleState EXCEPT ![t] = IF Stopping THEN "TERM" ELSE "HOLD"]
    /\ Goto(t, "idleback")
    /\ UNCHANGED <<ft, fault, queueVars, fiberVars, countVars, clientVars>>

IdleOut(t) ==
    /\ pc[t] = "idleback"
    /\ idle' = idle - 1
    /\ Goto(t, "fetch")
    /\ UNCHANGED <<active, ft, idleState, fault, queueVars, fiberVars, clientVars>>

-----------------------------------------------------------------------------
(* What the task on worker t's stack does. *)

Suspend(t, s) ==
    /\ state' = [state EXCEPT ![ft[t].task] = s]
    /\ Goto(t, "leaving")

MayYield(f) == yields[f] < MaxYields

CountYield(f) == yields' = [yields EXCEPT ![f] = @ + 1]

(* A mutant: the fiber queues itself before it has left its stack. *)
YieldToReadyQueued(t) ==
    /\ pc[t] = "exec" /\ state[ft[t].task] = "EXEC"
    /\ MayYield(ft[t].task) /\ CountYield(ft[t].task)
    /\ Suspend(t, "READY")
    /\ fibers' = Append(fibers, NewItem(ft[t].task, "fiber", ft[t].thread))
    /\ UNCHANGED <<ft, idleState, saved, ended, waiters, calls, pin, fault, countVars, clientVars>>

YieldToReady(t) ==
    /\ pc[t] = "exec" /\ state[ft[t].task] = "EXEC"
    /\ MayYield(ft[t].task) /\ CountYield(ft[t].task)
    /\ Suspend(t, "READY")
    /\ UNCHANGED <<ft, idleState, saved, ended, waiters, fault, queueVars, countVars, clientVars>>

(* The task leaves a reference to itself with a waker (a semaphore, an event,
   a timer) and is about to call YieldToHold. *)
Park(t) ==
    LET f == ft[t].task IN
    /\ pc[t] = "exec"
    /\ f \in Holders \ waiters
    /\ MayYield(f) /\ CountYield(f)
    /\ waiters' = waiters \cup {f}
    /\ Goto(t, "parking")
    /\ UNCHANGED <<ft, idleState, state, saved, ended, fault, queueVars, countVars, clientVars>>

(* switchTo(thread) of this scheduler: the task queues itself for another
   thread and is about to call YieldToHold. *)
SwitchTo(t, th) ==
    LET f == ft[t].task IN
    /\ pc[t] = "exec"
    /\ f \in Holders
    /\ th \notin {AnyThread, t}
    /\ MayYield(f) /\ CountYield(f)
    /\ fibers' = Append(fibers, NewItem(f, "fiber", th))
    /\ pin' = [pin EXCEPT ![f] = th]
    /\ Goto(t, "parking")
    /\ UNCHANGED <<ft, idleState, state, saved, ended, waiters, calls, fault, countVars, clientVars>>

YieldToHold(t) ==
    /\ pc[t] = "parking" /\ state[ft[t].task] = "EXEC"
    /\ Suspend(t, "HOLD")
    /\ UNCHANGED <<ft, idleState, saved, ended, waiters, yields, fault, queueVars, countVars,
                   clientVars>>

(* The assertion that both yields begin with (fiber.cpp:204, 212). *)
YieldFault(t) ==
    /\ \/ pc[t] = "exec" /\ MayYield(ft[t].task)
       \/ pc[t] = "parking"
    /\ state[ft[t].task] # "EXEC"
    /\ fault' = "assert"
    /\ UNCHANGED <<pc, ft, idleState, queueVars, fiberVars, countVars, clientVars>>

(* MainFunc: the task returns, or throws. *)
Finish(t) ==
    /\ pc[t] = "exec"
    /\ \E s \in Dead : Suspend(t, s)
    /\ ended' = ended \cup {ft[t].task}
    /\ UNCHANGED <<ft, idleState, saved, waiters, yields, fault, queueVars, countVars, clientVars>>

Spawn(t, f, th) ==
    /\ pc[t] = "exec"
    /\ Spawning
    /\ Enqueue(f, th)
    /\ UNCHANGED <<pc, ft, idleState, fault, fiberVars, countVars, clientVars>>

(* A waker schedules a parked task for any thread, at any time after Park. *)
Wake(f) ==
    /\ f \in waiters
    /\ waiters' = waiters \ {f}
    /\ fibers' = Append(fibers, NewItem(f, "fiber", AnyThread))
    /\ pin' = [pin EXCEPT ![f] = AnyThread]
    /\ UNCHANGED <<pc, ft, idleState, state, saved, ended, yields, calls, fault, countVars,
                   clientVars>>

-----------------------------------------------------------------------------
Client ==
    \/ Start \/ StopBegin \/ StopRequest \/ StopJoin
    \/ \E f \in Tasks, th \in Pins : Schedule(f, th)
    \/ \E f, g \in Tasks : ScheduleBatch(f, g)

Loop(t) ==
    \/ Fetch(t) \/ FetchNone(t) \/ Dispatch(t) \/ DropDead(t) \/ SwapIn(t) \/ SwapInFault(t)
    \/ SaveContext(t) \/ Deactivate(t) \/ FindReady(t) \/ Requeue(t) \/ Release(t)
    \/ FindHeld(t) \/ Hold(t)
    \/ Exit(t) \/ FetchAgain(t) \/ IdleIn(t) \/ IdleTurn(t) \/ IdleOut(t)

Body(t) ==
    \/ YieldToReady(t) \/ Park(t) \/ YieldToHold(t) \/ YieldFault(t) \/ Finish(t)
    \/ \E th \in Pins : SwitchTo(t, th)
    \/ \E f \in Tasks, th \in Pins : Spawn(t, f, th)

Worker(t) == fault = "none" /\ (Loop(t) \/ Body(t))

(* All is over: nothing runs and nobody will start the scheduler again. *)
Terminated ==
    /\ fault # "none" \/ (client = "stopped" /\ starts = MaxStarts /\ waiters = {})
    /\ UNCHANGED vars

Next ==
    \/ fault = "none" /\ Client
    \/ \E t \in Threads : Worker(t)
    \/ fault = "none" /\ \E f \in Tasks : Wake(f)
    \/ Terminated

Spec == Init /\ [][Next]_vars

(* The operating system runs every thread, stop() and the join proceed, and
   every waker that holds a reference eventually uses it. Nobody has to call
   stop() or schedule(). *)
Fairness ==
    /\ \A t \in Threads : WF_vars(Worker(t))
    /\ WF_vars(fault = "none" /\ (StopRequest \/ StopJoin))
    /\ \A f \in Tasks : WF_vars(fault = "none" /\ Wake(f))

FairSpec == Spec /\ Fairness

-----------------------------------------------------------------------------
FlagsOK == autoStop \in BOOLEAN /\ stopping \in BOOLEAN

DataOK ==
    /\ fibers \in Seq(Item)
    /\ active \in Nat /\ idle \in Nat
    /\ state \in [Tasks -> FiberState]
    /\ saved \in [Tasks -> BOOLEAN]
    /\ ended \subseteq Tasks
    /\ pc \in [Threads -> PCs]
    /\ ft \in [Threads -> Item \cup {NoItem}]
    /\ idleState \in [Threads -> {"INIT", "EXEC", "HOLD", "TERM"}]
    /\ waiters \subseteq Holders
    /\ client \in {"idle", "running", "stop", "joining", "stopped"}
    /\ calls \in [Tasks -> 0..2]
    /\ yields \in [Tasks -> 0..MaxYields]
    /\ starts \in 0..MaxStarts
    /\ pin \in [Tasks -> Threads \cup {AnyThread}]
    /\ fault \in {"none", "assert", "stale", "over"}

TypeOK == FlagsOK /\ DataOK

Running(t, f) == pc[t] \in OnStack /\ ft[t].task = f

(* No swapIn ever finds its fiber executing (the assertion of fiber.cpp:166)
   or jumps through a context that is already in use (fiber.cpp:169). *)
NoFault == fault = "none"

(* At most one worker at a time is on the stack of a task. *)
OneStack ==
    \A t, u \in Threads, f \in Tasks : Running(t, f) /\ Running(u, f) => t = u

(* scheduler.cpp:255 "skip fibers that are running": what a worker has taken
   from the queue is on no other worker's stack. *)
TakesOnlySuspended ==
    \A t, u \in Threads, f \in Tasks :
        pc[t] \in {"dispatch", "swapin"} /\ ft[t].task = f => ~Running(u, f)

(* fiber.h:84, swapIn @post getState() = EXEC: while a task executes, its
   state says so; the queue scan of line 256 relies on it. *)
ExecWhileRunning ==
    \A t \in Threads : pc[t] \in {"exec", "parking"} => state[ft[t].task] = "EXEC"

(* m_activeThreadCount counts exactly the workers that have taken an item and
   not yet come back from it; m_idleThreadCount those in their idle fiber. *)
CountsExact ==
    /\ active = Cardinality({t \in Threads : pc[t] \in Active})
    /\ idle = Cardinality({t \in Threads : pc[t] \in {"idling", "idleback"}})

Queued(f) == \E i \in 1..Len(fibers) : fibers[i].task = f

(* When stop() has returned, everything that was scheduled has been run to
   its end, and no task is left between two runs by the workers that saw an
   empty queue and exited early. Only items for a worker that has exited may
   remain in the queue. *)
StopDrains ==
    client = "stopped" =>
        /\ \A i \in 1..Len(fibers) : fibers[i].thread # AnyThread
        /\ \A f \in Tasks : calls[f] = 0 => state[f] \in Dead \/ Queued(f)

(* scheduler.h:69: a task scheduled for a thread executes on that thread,
   also after it has yielded and been queued again. Fibers keep the thread of
   their item, functions lose it (scheduler.cpp:315). *)
Stays(f) ==
    \A t \in Threads : pc[t] = "exec" /\ ft[t].task = f /\ pin[f] # AnyThread => pin[f] = t

RunsWhereAsked == \A f \in Tasks : Stays(f)

(* What swapIn relies on, up to the first time it goes wrong: a task that no
   worker has taken is suspended. Its state is not EXEC, and its context is
   the one line 170 stored last. *)
ReleasedIsResumable ==
    \A f \in Tasks :
        (\A t \in Threads : ~(pc[t] \in Owning /\ ft[t].task = f))
            => state[f] # "EXEC" /\ saved[f]

(* With one worker, and without the early wakes of several, a parked task that
   the worker is not on stays in state HOLD with its context saved until its
   waker schedules it: nothing else resumes or ends it. *)
ParkedIsResumable ==
    \A f \in waiters :
        (\A t \in Threads : ~(pc[t] \in Owning /\ ft[t].task = f))
            => state[f] = "HOLD" /\ saved[f]

(* Under fairness stop() returns, as its comment says (scheduler.h:62). *)
StopReturns == client = "joining" ~> client = "stopped"

(* Under the same fairness stop() returns and a task that is in the queue gets
   to its end, however the workers, the stop and the other tasks interleave,
   unless an item is left that only an exited worker may take: the queue is
   free of items for one thread again and again. *)
NothingPinned == \A i \in 1..Len(fibers) : fibers[i].thread = AnyThread

PoolFinishes ==
    []<>NothingPinned =>
        /\ client = "joining" ~> client = "stopped"
        /\ \A f \in Tasks : Queued(f) /\ starts > 0 ~> state[f] \in Dead
=============================================================================
