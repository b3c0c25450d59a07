---------------------------- MODULE TimerManager ----------------------------
(***************************************************************************)
(* sylar::Timer and sylar::TimerManager (timer.cpp, timer.h), with the     *)
(* workers that wait for timers the way IOManager::idle does               *)
(* (iomanager.cpp:287-371): read the delay of the first timer, wait at     *)
(* most so long for a completion packet, list the expired callbacks.       *)
(*                                                                         *)
(* The atomic steps are the critical sections of m_mutex and the accesses  *)
(* to m_cb and m_tickled outside it. Waits are durations: the wall clock   *)
(* that due times are compared with may be set back while a worker waits.  *)
(***************************************************************************)
EXTENDS Integers, FiniteSets

CONSTANTS
    Timers,         \* Timer objects, named by their addresses
    Recurring,      \* those made with recurring = true
    Callers,        \* threads that call addTimer, cancel, refresh and reset
    Workers,        \* threads that run idle()
    Periods,        \* the values of ms
    Worlds,         \* who takes part and what happens: see WorldsAssumption
    Hour,           \* 60 * 60 * 1000
    MaxTimeout,     \* MAX_TIMEOUT of idle()
    MaxClock,       \* bound: the clock stops here
    MaxPosted       \* bound: notifications in the completion queue

ASSUME TimersAssumption == Timers \subseteq Nat /\ Recurring \subseteq Timers

ASSUME TimeAssumption ==
    /\ Periods \subseteq Nat
    /\ Hour \in Nat /\ MaxTimeout \in Nat /\ MaxClock \in Nat
    /\ MaxPosted \in Nat

(* A world: the callers that call, the workers that ever have nothing else to do
   (one at least), which of "cancel", "refresh" and "reset" is called, and a bound on how often
   the clock is set back. *)
ASSUME WorldsAssumption ==
    \A w \in Worlds :
        /\ w.callers \subseteq Callers /\ w.workers \subseteq Workers
        /\ w.workers # {}
        /\ w.jumps \in Nat

VARIABLES
    world,
    clock,      \* what GetCurrentMS() returns
    jumps,      \* times the clock has been set back
    ms,         \* Timer::m_ms
    next,       \* Timer::m_next
    cb,         \* is Timer::m_cb set?
    timers,     \* m_timers
    tickled,    \* m_tickled
    previous,   \* m_previouseTime
    made,       \* timers that have been constructed
    op,         \* what each caller is in
    wpc,        \* where each worker is; "busy" outside idle()
    remaining,  \* how much longer a waiting worker waits
    now,        \* the worker's now_ms
    posted,     \* notifications in the completion queue
    fired,      \* one-shot timers whose callback has been listed
    cancelled   \* timers of which cancel() has returned true

vars == <<world, clock, jumps, ms, next, cb, timers, tickled, previous, made, op, wpc,
          remaining, now, posted, fired, cancelled>>

timeVars   == <<world, clock, jumps>>
timerVars  == <<ms, next, cb, timers, made, fired, cancelled>>
workerVars == <<wpc, remaining, now>>

NoOp == [pc |-> "none", timer |-> 0, ms |-> 0, fromNow |-> FALSE, adding |-> FALSE]

Init ==
    /\ world \in Worlds
    /\ clock = Hour /\ jumps = 0
    /\ ms = [t \in Timers |-> 0]
    /\ next = [t \in Timers |-> 0]
    /\ cb = [t \in Timers |-> FALSE]
    /\ timers = {}
    /\ tickled = FALSE
    /\ previous = clock
    /\ made = {}
    /\ op = [c \in Callers |-> NoOp]
    /\ wpc = [w \in Workers |-> "busy"]
    /\ remaining = [w \in Workers |-> 0]
    /\ now = [w \in Workers |-> 0]
    /\ posted = 0
    /\ fired = {} /\ cancelled = {}

(* The order of m_timers: by due time, then by address. *)
Before(t, u, nx) == nx[t] < nx[u] \/ (nx[t] = nx[u] /\ t < u)

IsFirst(t, S, nx) == \A u \in S \ {t} : Before(t, u, nx)

(* The first timer's due time; S is not empty. *)
FirstDue(S, nx) == CHOOSE n \in {nx[t] : t \in S} : \A u \in S : n <= nx[u]

(* addTimer has returned t to its caller. *)
Handed(t) == t \in made /\ \A c \in Callers : op[c].adding => op[c].timer # t

Goto(w, l) == wpc' = [wpc EXCEPT ![w] = l]

-----------------------------------------------------------------------------
(* The callers. *)

(* addTimer(ms, cb, recurring): the timer is made before the lock is taken. *)
AddTimer(c, t, p) ==
    /\ c \in world.callers
    /\ op[c].pc = "none"
    /\ t \notin made
    /\ clock + p <= MaxClock
    /\ made' = made \cup {t}
    /\ ms' = [ms EXCEPT ![t] = p]
    /\ next' = [next EXCEPT ![t] = clock + p]
    /\ cb' = [cb EXCEPT ![t] = TRUE]
    /\ op' = [op EXCEPT ![c] = [pc |-> "add", timer |-> t, ms |-> p, fromNow |-> FALSE,
                                adding |-> TRUE]]
    /\ UNCHANGED <<timers, tickled, previous, posted, fired, cancelled, timeVars, workerVars>>

(* addTimer(val, lock): whether val came to the front is decided under the
   lock, m_tickled is set and the notification sent after it. *)
Insert(c, t, S, nx) ==
    /\ timers' = S \cup {t}
    /\ op' = [op EXCEPT ![c] =
                 IF IsFirst(t, S, nx) /\ ~tickled THEN [@ EXCEPT !.pc = "front"] ELSE NoOp]

AddInsert(c) ==
    /\ op[c].pc = "add"
    /\ Insert(c, op[c].timer, timers, next)
    /\ UNCHANGED <<ms, next, cb, tickled, previous, made, posted, fired, cancelled, timeVars,
                   workerVars>>

MarkTickled(c) ==
    /\ op[c].pc = "front"
    /\ tickled' = TRUE
    /\ op' = [op EXCEPT ![c].pc = "notify"]
    /\ UNCHANGED <<previous, posted, timeVars, timerVars, workerVars>>

(* onTimerInsertedAtFront, which is tickle(): a packet is posted if a worker
   counts as idle. *)
Notify(c) ==
    /\ op[c].pc = "notify"
    /\ posted < MaxPosted
    /\ posted' = IF \E w \in Workers : wpc[w] # "busy" THEN posted + 1 ELSE posted
    /\ op' = [op EXCEPT ![c] = NoOp]
    /\ UNCHANGED <<tickled, previous, timeVars, timerVars, workerVars>>

(* cancel(), when it returns true. *)
Cancel(c, t) ==
    /\ "cancel" \in world.uses /\ c \in world.callers
    /\ op[c].pc = "none"
    /\ Handed(t)
    /\ cb[t]
    /\ cb' = [cb EXCEPT ![t] = FALSE]
    /\ timers' = timers \ {t}
    /\ cancelled' = cancelled \cup {t}
    /\ UNCHANGED <<ms, next, tickled, previous, made, op, posted, fired, timeVars, workerVars>>

(* refresh() and reset() look at m_cb before they take the lock ... *)
RefreshBegin(c, t) ==
    /\ "refresh" \in world.uses /\ c \in world.callers
    /\ op[c].pc = "none"
    /\ Handed(t)
    /\ cb[t]
    /\ op' = [op EXCEPT ![c] = [pc |-> "refresh", timer |-> t, ms |-> 0, fromNow |-> FALSE,
                                adding |-> FALSE]]
    /\ UNCHANGED <<tickled, previous, posted, timeVars, timerVars, workerVars>>

ResetBegin(c, t, p, fromNow) ==
    /\ "reset" \in world.uses /\ c \in world.callers
    /\ op[c].pc = "none"
    /\ Handed(t)
    /\ ~(p = ms[t] /\ ~fromNow)
    /\ cb[t]
    /\ op' = [op EXCEPT ![c] = [pc |-> "reset", timer |-> t, ms |-> p, fromNow |-> fromNow,
                                adding |-> FALSE]]
    /\ UNCHANGED <<tickled, previous, posted, timeVars, timerVars, workerVars>>

(* A mutant: refresh() that does not look whether the timer is still there. *)
RefreshUnchecked(c) ==
    LET t == op[c].timer IN
    /\ op[c].pc = "refresh"
    /\ next' = [next EXCEPT ![t] = clock + ms[t]]
    /\ timers' = timers \cup {t}
    /\ op' = [op EXCEPT ![c] = NoOp]
    /\ UNCHANGED <<ms, cb, tickled, previous, made, posted, fired, cancelled, timeVars, workerVars>>

(* ... and look for the timer under it. *)
Refresh(c) ==
    LET t == op[c].timer IN
    /\ op[c].pc = "refresh"
    /\ t \in timers
    /\ clock + ms[t] <= MaxClock
    /\ next' = [next EXCEPT ![t] = clock + ms[t]]
    /\ op' = [op EXCEPT ![c] = NoOp]
    /\ UNCHANGED <<ms, cb, timers, tickled, previous, made, posted, fired, cancelled, timeVars,
                   workerVars>>

Reset(c) ==
    LET t == op[c].timer
        start == IF op[c].fromNow THEN clock ELSE next[t] - ms[t]
    IN
    /\ op[c].pc = "reset"
    /\ t \in timers
    /\ start + op[c].ms <= MaxClock
    /\ ms' = [ms EXCEPT ![t] = op[c].ms]
    /\ next' = [next EXCEPT ![t] = start + op[c].ms]
    /\ Insert(c, t, timers \ {t}, next')
    /\ UNCHANGED <<cb, tickled, previous, made, posted, fired, cancelled, timeVars, workerVars>>

(* The timer has gone in the meantime. *)
GiveUp(c) ==
    /\ op[c].pc \in {"refresh", "reset"}
    /\ op[c].timer \notin timers
    /\ op' = [op EXCEPT ![c] = NoOp]
    /\ UNCHANGED <<tickled, previous, posted, timeVars, timerVars, workerVars>>

-----------------------------------------------------------------------------
(* The workers. *)

(* run() finds no task and resumes the idle fiber. *)
EnterIdle(w) ==
    /\ w \in world.workers
    /\ wpc[w] = "busy"
    /\ Goto(w, "clear")
    /\ UNCHANGED <<tickled, previous, op, remaining, now, posted, timeVars, timerVars>>

(* A mutant: getNextTimer() that leaves m_tickled set. *)
ClearNever(w) ==
    /\ wpc[w] = "clear"
    /\ Goto(w, "look")
    /\ UNCHANGED <<tickled, previous, op, remaining, now, posted, timeVars, timerVars>>

(* getNextTimer() clears m_tickled before it takes the lock. *)
ClearTickled(w) ==
    /\ wpc[w] = "clear"
    /\ tickled' = FALSE
    /\ Goto(w, "look")
    /\ UNCHANGED <<previous, op, remaining, now, posted, timeVars, timerVars>>

(* A mutant: getNextTimer() that does not ask whether the timer is due. *)
DelayUnchecked == IF timers = {} THEN MaxTimeout ELSE FirstDue(timers, next) - clock

(* How long getNextTimer() and the cap of idle() make a worker wait. *)
Delay ==
    IF timers = {} THEN MaxTimeout
    ELSE LET n == FirstDue(timers, next) IN
         IF clock >= n THEN 0 ELSE IF n - clock > MaxTimeout THEN MaxTimeout ELSE n - clock

Wait(w) ==
    /\ wpc[w] = "look"
    /\ remaining' = [remaining EXCEPT ![w] = Delay]
    /\ Goto(w, "wait")
    /\ UNCHANGED <<tickled, previous, op, now, posted, timeVars, timerVars>>

(* GetQueuedCompletionStatus returns: with a notification, or, when there is
   none, with the packet of some I/O or because the time is over.
   listExpiredCb then reads the clock, before it takes the lock. *)
Wake(w) ==
    /\ wpc[w] = "wait"
    /\ \/ posted > 0 /\ posted' = posted - 1
       \/ posted = 0 /\ UNCHANGED posted
    /\ remaining' = [remaining EXCEPT ![w] = 0]
    /\ now' = [now EXCEPT ![w] = clock]
    /\ Goto(w, "list")
    /\ UNCHANGED <<tickled, previous, op, timeVars, timerVars>>

(* A mutant: any step back counts as a rollover. *)
SetBackAtAll(n) == n < previous

(* detectClockRollover. Below an hour the subtraction wraps to a large value. *)
SetBack(n) == n < previous /\ (previous < Hour \/ n < previous - Hour)

(* A mutant: timers that are due at now_ms exactly are left. *)
ExpiredStrict(n) == IF SetBack(n) THEN timers ELSE {t \in timers : next[t] < n}

(* What listExpiredCb takes out of the set. *)
Expired(n) == IF SetBack(n) THEN timers ELSE {t \in timers : next[t] <= n}

DropCb(S) == [t \in Timers |-> cb[t] /\ t \notin S]

ListExpired(w) ==
    LET expired == Expired(now[w])
        again == expired \cap Recurring
    IN
    /\ wpc[w] = "list"
    /\ timers # {}
    /\ previous' = now[w]
    /\ next' = [t \in Timers |-> IF t \in again THEN now[w] + ms[t] ELSE next[t]]
    /\ timers' = timers \ (expired \ again)
    /\ cb' = DropCb(expired \ again)
    /\ fired' = fired \cup (expired \ again)
    /\ now' = [now EXCEPT ![w] = 0]
    /\ Goto(w, "leave")
    /\ UNCHANGED <<ms, tickled, made, op, remaining, posted, cancelled, timeVars>>

ListNothing(w) ==
    /\ wpc[w] = "list"
    /\ timers = {}
    /\ now' = [now EXCEPT ![w] = 0]
    /\ Goto(w, "leave")
    /\ UNCHANGED <<tickled, previous, op, remaining, posted, timeVars, timerVars>>

(* The idle fiber yields to run(), which executes what there is. *)
LeaveIdle(w) ==
    /\ wpc[w] = "leave"
    /\ Goto(w, "busy")
    /\ UNCHANGED <<tickled, previous, op, remaining, now, posted, timeVars, timerVars>>

-----------------------------------------------------------------------------
Tick ==
    /\ clock' = IF clock < MaxClock THEN clock + 1 ELSE clock
    /\ remaining' = [w \in Workers |-> IF remaining[w] > 0 THEN remaining[w] - 1 ELSE 0]
    /\ UNCHANGED <<world, jumps, tickled, previous, op, wpc, now, posted, timerVars>>

(* The wall clock is set back. *)
Jump ==
    /\ jumps < world.jumps
    /\ jumps' = jumps + 1
    /\ \E v \in 0..MaxClock : v < clock /\ clock' = v
    /\ UNCHANGED <<world, tickled, previous, op, posted, timerVars, workerVars>>

Caller(c) ==
    \/ \E t \in Timers, p \in Periods : AddTimer(c, t, p)
    \/ AddInsert(c) \/ MarkTickled(c) \/ Notify(c)
    \/ \E t \in Timers : Cancel(c, t) \/ RefreshBegin(c, t)
    \/ \E t \in Timers, p \in Periods, f \in BOOLEAN : ResetBegin(c, t, p, f)
    \/ Refresh(c) \/ Reset(c) \/ GiveUp(c)

Worker(w) ==
    \/ EnterIdle(w) \/ ClearTickled(w) \/ Wait(w) \/ Wake(w)
    \/ ListExpired(w) \/ ListNothing(w) \/ LeaveIdle(w)

Next ==
    \/ \E c \in Callers : Caller(c)
    \/ \E w \in Workers : Worker(w)
    \/ Tick \/ Jump

Spec == Init /\ [][Next]_vars

(* Threads run, time passes, and the tasks of a worker come to an end, so
   that it enters idle() again. Nobody has to call anything, and no packet
   other than a notification has to arrive. *)
WakeDue(w) == Wake(w) /\ (posted > 0 \/ remaining[w] = 0)

FairSpec ==
    /\ Spec
    /\ WF_vars(Tick)
    /\ \A w \in Workers : WF_vars(EnterIdle(w) \/ ClearTickled(w) \/ Wait(w) \/ WakeDue(w)
                                  \/ ListExpired(w) \/ ListNothing(w) \/ LeaveIdle(w))
    /\ \A c \in Callers : WF_vars(AddInsert(c) \/ MarkTickled(c) \/ Notify(c))

-----------------------------------------------------------------------------
Op == [pc : {"none", "add", "front", "notify", "refresh", "reset"}, timer : Timers \cup {0},
       ms : Periods \cup {0}, fromNow : BOOLEAN, adding : BOOLEAN]

TypeOK ==
    /\ clock \in Nat /\ jumps \in Nat /\ previous \in Nat /\ posted \in Nat
    /\ ms \in [Timers -> Nat] /\ next \in [Timers -> Nat] /\ cb \in [Timers -> BOOLEAN]
    /\ timers \subseteq made /\ made \subseteq Timers
    /\ tickled \in BOOLEAN
    /\ op \in [Callers -> Op]
    /\ wpc \in [Workers -> {"busy", "clear", "look", "wait", "list", "leave"}]
    /\ remaining \in [Workers -> Nat] /\ now \in [Workers -> Nat]
    /\ fired \subseteq made /\ cancelled \subseteq made

Adding == {t \in made : \E c \in Callers : op[c].pc = "add" /\ op[c].timer = t}

(* m_cb is set exactly while the timer is in the set or about to be put into
   it. cancel() relies on it: it erases what find() returns without looking
   whether it found anything (timer.cpp:40). *)
CallbackMeansQueued == \A t \in made : cb[t] <=> t \in timers \cup Adding

(* A one-shot timer has one outcome: it is still to come, its callback has
   been listed, or cancel() has returned true, and never two of them,
   whatever refresh() and reset() do meanwhile. A cancelled recurring timer
   does not come back either. *)
OneOutcome ==
    /\ fired \cap cancelled = {}
    /\ (timers \cup Adding) \cap (fired \cup cancelled) = {}
    /\ made \ Recurring \subseteq timers \cup Adding \cup fired \cup cancelled

(* As long as the clock is not set back no timer is listed early, although
   the workers hand in stale readings of it and detectClockRollover remembers
   the last one it was given. *)
NeverEarly ==
    [][jumps = 0 => \A t \in timers : t \in fired' \ fired => next[t] <= clock]_vars

(* When all workers wait and nobody is about to notify them, there is a
   notification for one of them or one of them wakes up by itself before the
   first timer is due: no timer is overslept. Not so when the clock has been
   set back: refresh() may then make a timer due before the time that a worker
   already waits for, and does not notify it. *)
NoOversleep ==
    (/\ jumps = 0
     /\ \A w \in world.workers : wpc[w] = "wait"
     /\ \A c \in Callers : op[c].pc \notin {"front", "notify"}
     /\ timers # {} /\ posted = 0)
        => \E w \in world.workers : remaining[w] = 0 \/ clock + remaining[w] <= FirstDue(timers, next)

(* Under fairness every one-shot timer is listed or cancelled. *)
TimersEnd == \A t \in Timers \ Recurring : t \in timers ~> t \notin timers
=============================================================================
