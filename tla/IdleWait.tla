------------------------------ MODULE IdleWait -------------------------------
(***************************************************************************)
(* How the workers of an IOManager sleep and are woken: Scheduler::run     *)
(* (scheduler.cpp:230-362) around IOManager::idle (iomanager.cpp:287-366), *)
(* schedule() with its notification, and stop(). A worker that finds no    *)
(* task counts itself idle and waits for a packet of the completion port,  *)
(* at most MAX_TIMEOUT; tickle() posts one if some worker counts as idle.  *)
(*                                                                         *)
(* Tasks run to their end without yielding here (module Scheduler has the  *)
(* yields). Expired timers and completed operations are tasks that a woken *)
(* worker schedules (modules TimerManager and IOManager). The wait may     *)
(* always end by itself, which stands for the cap of MAX_TIMEOUT.          *)
(***************************************************************************)
EXTENDS Integers, FiniteSets

CONSTANTS
    Workers,    \* the threads of the pool
    Tasks,      \* functions that are scheduled once each
    Pinned,     \* tasks that are scheduled for the thread Home, not for any
    Home,
    Outside,    \* tasks that a thread outside the pool schedules
    MaxPosted   \* bound: so many notifications in the port are told apart

ASSUME PinAssumption == Pinned \subseteq Tasks /\ Outside \subseteq Tasks /\ Home \in Workers

ASSUME WorkersAssumption == IsFiniteSet(Workers)

ASSUME PostedAssumption == MaxPosted \in Nat \ {0}

VARIABLES
    queue,      \* m_fibers; their order does not matter here
    created,    \* tasks that have been scheduled
    done,       \* tasks that have ended
    running,    \* the tasks each worker runs: one or none
    active,     \* m_activeThreadCount
    idle,       \* m_idleThreadCount
    posted,     \* notifications in the port
    wpc,        \* where each worker is
    ended,      \* workers whose idle fiber has ended
    caller,     \* the outside thread: "none", or in schedule() before tickle()
    stopping,   \* m_stopping
    stops       \* how many tickle() calls of stop() are left

vars == <<queue, created, done, running, active, idle, posted, wpc, ended, caller, stopping,
          stops>>

taskVars == <<queue, created, done, running>>

Init ==
    /\ queue = {} /\ created = {} /\ done = {}
    /\ running = [w \in Workers |-> {}]
    /\ active = 0 /\ idle = 0 /\ posted = 0
    /\ wpc = [w \in Workers |-> "fetch"]
    /\ ended = {}
    /\ caller = "none"
    /\ stopping = FALSE /\ stops = 0

Goto(w, l) == wpc' = [wpc EXCEPT ![w] = l]

OneMore == IF posted < MaxPosted THEN posted + 1 ELSE posted

Tickle == posted' = IF idle > 0 THEN OneMore ELSE posted

(* scheduleNoLock: is a notification needed? *)
Push(t) ==
    /\ queue' = queue \cup {t}
    /\ created' = created \cup {t}
    /\ UNCHANGED <<done, running>>

NeedTickle == queue = {}

(* A mutant: stopping() that does not ask for active threads. *)
StoppingEarly == stopping /\ queue = {}

(* Scheduler::stopping(), for an IOManager without timers and events. *)
Stopping == stopping /\ queue = {} /\ active = 0

Eligible(w) == {t \in queue : t \in Pinned => w = Home}

-----------------------------------------------------------------------------
(* The loop of run(). *)

(* It takes a task; what is left, or skipped, it notifies the others of. *)
Fetch(w, t) ==
    /\ wpc[w] = "fetch"
    /\ t \in Eligible(w)
    /\ queue' = queue \ {t}
    /\ running' = [running EXCEPT ![w] = {t}]
    /\ active' = active + 1
    /\ Goto(w, IF queue' = {} THEN "run" ELSE "share")
    /\ UNCHANGED <<created, done, idle, posted, ended, caller, stopping, stops>>

FetchNone(w) ==
    /\ wpc[w] = "fetch"
    /\ Eligible(w) = {}
    /\ Goto(w, IF queue # {} THEN "pass" ELSE IF w \in ended THEN "exit" ELSE "check")
    /\ UNCHANGED <<taskVars, active, idle, posted, ended, caller, stopping, stops>>

(* All of what is left is for other threads, or there is more than it takes. *)
Share(w) ==
    /\ wpc[w] \in {"share", "pass"}
    /\ Tickle
    /\ Goto(w, IF wpc[w] = "share" THEN "run" ELSE IF w \in ended THEN "exit" ELSE "check")
    /\ UNCHANGED <<taskVars, active, idle, ended, caller, stopping, stops>>

(* The running task calls schedule(). *)
Spawn(w, t) ==
    /\ wpc[w] = "run"
    /\ t \notin created \cup Outside
    /\ Push(t)
    /\ Goto(w, IF NeedTickle THEN "notify" ELSE "run")
    /\ UNCHANGED <<active, idle, posted, ended, caller, stopping, stops>>

NotifyOthers(w) ==
    /\ wpc[w] \in {"notify", "triggered"}
    /\ Tickle
    /\ Goto(w, IF wpc[w] = "notify" THEN "run" ELSE "woken")
    /\ UNCHANGED <<taskVars, active, idle, ended, caller, stopping, stops>>

Finish(w) ==
    /\ wpc[w] = "run"
    /\ done' = done \cup running[w]
    /\ running' = [running EXCEPT ![w] = {}]
    /\ active' = active - 1
    /\ Goto(w, "fetch")
    /\ UNCHANGED <<queue, created, idle, posted, ended, caller, stopping, stops>>

(* The queue is looked at once more before the worker counts as idle. *)
Check(w) ==
    /\ wpc[w] = "check"
    /\ Goto(w, IF queue = {} THEN "count" ELSE "fetch")
    /\ UNCHANGED <<taskVars, active, idle, posted, ended, caller, stopping, stops>>

Count(w) ==
    /\ wpc[w] = "count"
    /\ idle' = idle + 1
    /\ Goto(w, "idle")
    /\ UNCHANGED <<taskVars, active, posted, ended, caller, stopping, stops>>

-----------------------------------------------------------------------------
(* idle(). *)

(* The idle fiber ends. *)
IdleEnds(w) ==
    /\ wpc[w] = "idle"
    /\ Stopping
    /\ ended' = ended \cup {w}
    /\ idle' = idle - 1
    /\ Goto(w, "fetch")
    /\ UNCHANGED <<taskVars, active, posted, caller, stopping, stops>>

Sleep(w) ==
    /\ wpc[w] = "idle"
    /\ ~Stopping
    /\ Goto(w, "wait")
    /\ UNCHANGED <<taskVars, active, idle, posted, ended, caller, stopping, stops>>

(* GetQueuedCompletionStatus returns, with a notification if there is one. *)
Wake(w) ==
    /\ wpc[w] = "wait"
    /\ posted' = IF posted > 0 THEN posted - 1 ELSE 0
    /\ Goto(w, "woken")
    /\ UNCHANGED <<taskVars, active, idle, ended, caller, stopping, stops>>

(* An expired timer or a completed operation schedules its callback or fiber,
   for any thread. *)
Trigger(w, t) ==
    /\ wpc[w] = "woken"
    /\ t \notin created \cup Outside \cup Pinned
    /\ Push(t)
    /\ Goto(w, IF NeedTickle THEN "triggered" ELSE "woken")
    /\ UNCHANGED <<active, idle, posted, ended, caller, stopping, stops>>

(* A mutant: an idle fiber that goes on without yielding to run(). *)
LeaveStays(w) ==
    /\ wpc[w] = "woken"
    /\ Goto(w, "idle")
    /\ UNCHANGED <<taskVars, active, idle, posted, ended, caller, stopping, stops>>

(* The idle fiber yields and the worker no longer counts as idle. *)
Leave(w) ==
    /\ wpc[w] = "woken"
    /\ idle' = idle - 1
    /\ Goto(w, "fetch")
    /\ UNCHANGED <<taskVars, active, posted, ended, caller, stopping, stops>>

-----------------------------------------------------------------------------
(* Outside threads. *)

ScheduleOutside(t) ==
    /\ caller = "none"
    /\ t \in Outside \ created
    /\ Push(t)
    /\ caller' = IF NeedTickle THEN "notify" ELSE "none"
    /\ UNCHANGED <<active, idle, posted, wpc, ended, stopping, stops>>

NotifyOutside ==
    /\ caller = "notify"
    /\ Tickle
    /\ caller' = "none"
    /\ UNCHANGED <<taskVars, active, idle, wpc, ended, stopping, stops>>

(* stop(): m_stopping, one tickle() for each thread, then the joins. *)
Stop ==
    /\ ~stopping
    /\ stopping' = TRUE
    /\ stops' = Cardinality(Workers)
    /\ UNCHANGED <<taskVars, active, idle, posted, wpc, ended, caller>>

StopNotify ==
    /\ stops > 0
    /\ Tickle
    /\ stops' = stops - 1
    /\ UNCHANGED <<taskVars, active, idle, wpc, ended, caller, stopping>>

Loop(w) ==
    \/ \E t \in Tasks : Fetch(w, t)
    \/ FetchNone(w) \/ Share(w) \/ NotifyOthers(w) \/ Finish(w) \/ Check(w) \/ Count(w)
    \/ IdleEnds(w) \/ Sleep(w) \/ Wake(w) \/ Leave(w)

Joined == stopping /\ stops = 0 /\ \A w \in Workers : wpc[w] = "exit"

Next ==
    \/ \E w \in Workers : Loop(w)
    \/ \E w \in Workers, t \in Tasks : Spawn(w, t) \/ Trigger(w, t)
    \/ \E t \in Tasks : ScheduleOutside(t)
    \/ NotifyOutside \/ Stop \/ StopNotify

Spec == Init /\ [][Next]_vars

-----------------------------------------------------------------------------
Idling == {"idle", "wait", "woken", "triggered"}

TypeOK ==
    /\ queue \subseteq created /\ created \subseteq Tasks /\ done \subseteq created
    /\ running \in [Workers -> SUBSET created]
    /\ active \in Nat /\ idle \in Nat /\ posted \in 0..MaxPosted
    /\ wpc \in [Workers -> {"fetch", "share", "pass", "run", "notify", "check", "count", "exit"}
                           \cup Idling]
    /\ ended \subseteq Workers
    /\ caller \in {"none", "notify"}
    /\ stopping \in BOOLEAN /\ stops \in Nat

(* The pool never sleeps on work. Whoever of it has put a task into the queue
   looks at the queue again before it waits: nobody depends on a notification,
   or on MAX_TIMEOUT, for such a task to be found. A worker whose idle fiber
   has ended does not stay for a task that is pinned to another one. *)
Asleep == {"count", "idle", "wait", "exit"}

NoSleepOnWork ==
    queue \ Outside # {} /\ (ended = {} \/ queue \ (Outside \cup Pinned) # {})
        => \E w \in Workers : wpc[w] \notin Asleep

(* scheduler.h:115: tickle() tells the scheduler that there are tasks. After
   an outside schedule() has returned, no task is left to workers that all
   wait without a notification. *)
OutsideIsHeard ==
    caller = "none" /\ queue # {} /\ (\A w \in Workers : wpc[w] = "wait") => posted > 0

(* When stop() has joined all workers every task has ended, unless the outside
   thread has scheduled some. Tasks that woken workers schedule do not count
   as active, and a worker may leave before they do. *)
AllTasksRun == Joined /\ created \cap Outside = {} => queue = {} /\ created = done

=============================================================================
