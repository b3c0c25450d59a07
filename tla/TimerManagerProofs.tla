------------------------- MODULE TimerManagerProofs -------------------------
(***************************************************************************)
(* TimerManager for every set of timers, callers and workers: types, the   *)
(* callback flag, one outcome for every timer, and no early callback.      *)
(***************************************************************************)
EXTENDS TimerManager, WellFoundedInduction, TLAPS

-----------------------------------------------------------------------------
(* Sets of naturals have least elements. *)
Less == {p \in Nat \X Nat : p[1] < p[2]}

LEMMA LessIsWellFounded == IsWellFoundedOn(Less, Nat)
  BY NatLessThanWellFounded DEF OpToRel, Less

LEMMA LeastNat ==
    ASSUME NEW S, S \subseteq Nat, S # {}
    PROVE  \E n \in S : \A m \in S : n <= m
  <1>1. PICK n \in S : \A m \in S : <<m, n>> \notin Less
    BY LessIsWellFounded, WFMin
  <1>2. \A m \in S : ~ (m < n)
    BY <1>1 DEF Less
  <1> QED
    BY <1>2

-----------------------------------------------------------------------------
(* Type correctness. A due time is never before its period: the start that
   reset() computes from them is a natural number. What addTimer puts into
   the set has been made. *)
Typing ==
    /\ TypeOK
    /\ \A t \in Timers : ms[t] <= next[t]
    /\ \A c \in Callers : op[c].pc = "add" => op[c].timer \in made

LEMMA FieldTypes ==
    ASSUME NEW o \in Op
    PROVE  /\ o.pc \in {"none", "add", "front", "notify", "refresh", "reset"}
           /\ o.timer \in Timers \cup {0}
           /\ o.ms \in Nat
           /\ o.fromNow \in BOOLEAN /\ o.adding \in BOOLEAN
  <1>1. Periods \cup {0} \subseteq Nat
    BY TimeAssumption
  <1>2. o.ms \in Nat
    BY <1>1 DEF Op
  <1>3. o.fromNow \in BOOLEAN /\ o.adding \in BOOLEAN
    BY ZenonT(20) DEF Op
  <1> QED
    BY <1>2, <1>3 DEF Op

LEMMA NoOpType == NoOp \in Op
  BY DEF NoOp, Op

(* A worker waits for a natural number of milliseconds. *)
LEMMA DelayType ==
    ASSUME TypeOK
    PROVE  Delay \in Nat
  <1> DEFINE D == {next[t] : t \in timers}
  <1>1. D \subseteq Nat /\ clock \in Nat /\ MaxTimeout \in Nat
    BY TimeAssumption DEF TypeOK
  <1>2. CASE timers = {}
    BY <1>1, <1>2 DEF Delay
  <1>3. CASE timers # {}
    <2>1. \E n \in D : \A m \in D : n <= m
      BY <1>1, <1>3, LeastNat
    <2>2. FirstDue(timers, next) \in Nat
      BY <1>1, <2>1 DEF FirstDue
    <2> QED
      BY <1>1, <1>3, <2>2 DEF Delay
  <1> QED
    BY <1>2, <1>3

LEMMA SetPc ==
    ASSUME NEW o \in Op, NEW l \in {"none", "add", "front", "notify", "refresh", "reset"}
    PROVE  /\ [o EXCEPT !.pc = l] \in Op
           /\ [o EXCEPT !.pc = l].pc = l
           /\ [o EXCEPT !.pc = l].timer = o.timer
  BY DEF Op

(* What the critical section of addTimer(val, lock) leaves in op. *)
LEMMA InsertOp ==
    ASSUME TypeOK, NEW c \in Callers,
           \/ op' = [op EXCEPT ![c] = [op[c] EXCEPT !.pc = "front"]]
           \/ op' = [op EXCEPT ![c] = NoOp]
    PROVE  /\ op' \in [Callers -> Op]
           /\ op'[c].pc \in {"none", "front"}
           /\ \A d \in Callers \ {c} : op'[d] = op[d]
  <1>1. op \in [Callers -> Op] /\ op[c] \in Op
    BY DEF TypeOK
  <1>2. CASE op' = [op EXCEPT ![c] = [op[c] EXCEPT !.pc = "front"]]
    <2> DEFINE o == [op[c] EXCEPT !.pc = "front"]
    <2>1. o \in Op /\ o.pc = "front"
      BY <1>1, SetPc
    <2>2. op' = [op EXCEPT ![c] = o]
      BY <1>2
    <2> HIDE DEF o
    <2> QED
      BY <1>1, <2>1, <2>2
  <1>3. CASE op' = [op EXCEPT ![c] = NoOp]
    <2>1. NoOp \in Op /\ NoOp.pc = "none"
      BY NoOpType DEF NoOp
    <2> QED
      BY <1>1, <1>3, <2>1
  <1> QED
    BY <1>2, <1>3

LEMMA TypingInit == Init => Typing
  <1> SUFFICES ASSUME Init PROVE Typing
    OBVIOUS
  <1>1. op \in [Callers -> Op] /\ \A c \in Callers : op[c].pc # "add"
    <2>1. NoOp \in Op /\ NoOp.pc # "add"
      BY NoOpType DEF NoOp
    <2> QED
      BY <2>1 DEF Init
  <1>2. clock \in Nat /\ remaining \in [Workers -> Nat] /\ now \in [Workers -> Nat]
        /\ ms \in [Timers -> Nat] /\ next \in [Timers -> Nat]
        /\ \A t \in Timers : ms[t] <= next[t]
    BY TimeAssumption DEF Init
  <1>3. cb \in [Timers -> BOOLEAN]
    BY DEF Init
  <1>4. wpc \in [Workers -> {"busy", "clear", "look", "wait", "list", "leave"}]
    BY DEF Init
  <1> QED
    BY <1>1, <1>2, <1>3, <1>4 DEF Init, Typing, TypeOK

LEMMA TypingNext == Typing /\ [Next]_vars => Typing'
  <1> SUFFICES ASSUME Typing, [Next]_vars PROVE Typing'
    OBVIOUS
  <1>0. /\ op \in [Callers -> Op] /\ \A c \in Callers : op[c] \in Op
        /\ Periods \subseteq Nat /\ Timers \subseteq Nat
    BY TimeAssumption, TimersAssumption DEF Typing, TypeOK
  <1> USE DEF Typing
  <1>1. ASSUME NEW c \in Callers, NEW t \in Timers, NEW p \in Periods, AddTimer(c, t, p)
        PROVE  Typing'
    <2> DEFINE o == [pc |-> "add", timer |-> t, ms |-> p, fromNow |-> FALSE, adding |-> TRUE]
    <2>1. o \in Op /\ o.timer = t
      BY DEF Op
    <2>2. op' = [op EXCEPT ![c] = o] /\ made' = made \cup {t}
      BY <1>1 DEF AddTimer
    <2> HIDE DEF o
    <2>3. op' \in [Callers -> Op] /\ \A d \in Callers : op'[d].pc = "add" => op'[d].timer \in made'
      BY <1>0, <2>1, <2>2
    <2>4. clock + p \in Nat /\ p \in Nat /\ p <= clock + p
      BY <1>0 DEF TypeOK
    <2> QED
      BY <1>1, <2>3, <2>4 DEF AddTimer, TypeOK, timeVars, workerVars
  <1>2. ASSUME NEW c \in Callers, AddInsert(c) PROVE Typing'
    <2>1. op[c].timer \in made
      BY <1>2 DEF AddInsert
    <2>2. /\ timers' = timers \cup {op[c].timer}
          /\ \/ op' = [op EXCEPT ![c] = [op[c] EXCEPT !.pc = "front"]]
             \/ op' = [op EXCEPT ![c] = NoOp]
      BY <1>2 DEF AddInsert, Insert
    <2> QED
      BY <1>2, <2>1, <2>2, InsertOp DEF AddInsert, TypeOK, timeVars, workerVars
  <1>3. ASSUME NEW c \in Callers, MarkTickled(c) PROVE Typing'
    <2>1. /\ op' \in [Callers -> Op] /\ op'[c].pc = "notify"
          /\ \A d \in Callers \ {c} : op'[d] = op[d]
      BY <1>0, <1>3, SetPc DEF MarkTickled
    <2> QED
      BY <1>3, <2>1 DEF MarkTickled, TypeOK, timeVars, timerVars, workerVars
  <1>4. ASSUME NEW c \in Callers, Notify(c) \/ GiveUp(c) PROVE Typing'
    <2>1. NoOp.pc = "none" /\ NoOp \in Op
      BY NoOpType DEF NoOp
    <2>2. /\ op' \in [Callers -> Op] /\ op'[c].pc = "none"
          /\ \A d \in Callers \ {c} : op'[d] = op[d]
      BY <1>0, <1>4, <2>1 DEF Notify, GiveUp
    <2> QED
      BY <1>4, <2>2 DEF Notify, GiveUp, TypeOK, timeVars, timerVars, workerVars
  <1>5. ASSUME NEW c \in Callers, NEW t \in Timers, Cancel(c, t) PROVE Typing'
    BY <1>5 DEF Cancel, Handed, TypeOK, timeVars, workerVars
  <1>6. ASSUME NEW c \in Callers, NEW t \in Timers, RefreshBegin(c, t) PROVE Typing'
    <2> DEFINE o == [pc |-> "refresh", timer |-> t, ms |-> 0, fromNow |-> FALSE, adding |-> FALSE]
    <2>1. o \in Op /\ o.pc = "refresh"
      BY DEF Op
    <2>2. /\ op' \in [Callers -> Op] /\ op'[c].pc = "refresh"
          /\ \A d \in Callers \ {c} : op'[d] = op[d]
      BY <1>0, <1>6, <2>1 DEF RefreshBegin
    <2> QED
      BY <1>6, <2>2 DEF RefreshBegin, TypeOK, timeVars, timerVars, workerVars
  <1>7. ASSUME NEW c \in Callers, NEW t \in Timers, NEW p \in Periods, NEW f \in BOOLEAN,
               ResetBegin(c, t, p, f)
        PROVE  Typing'
    <2> DEFINE o == [pc |-> "reset", timer |-> t, ms |-> p, fromNow |-> f, adding |-> FALSE]
    <2>1. o \in Op /\ o.pc = "reset"
      BY DEF Op
    <2>2. op' = [op EXCEPT ![c] = o]
      BY <1>7 DEF ResetBegin
    <2> HIDE DEF o
    <2>3. /\ op' \in [Callers -> Op] /\ op'[c].pc = "reset"
          /\ \A d \in Callers \ {c} : op'[d] = op[d]
      BY <1>0, <2>1, <2>2
    <2> QED
      BY <1>7, <2>3 DEF ResetBegin, TypeOK, timeVars, timerVars, workerVars
  <1>8. ASSUME NEW c \in Callers, Refresh(c) PROVE Typing'
    <2> DEFINE t == op[c].timer
    <2>1. NoOp.pc = "none" /\ NoOp \in Op
      BY NoOpType DEF NoOp
    <2>2. /\ op' \in [Callers -> Op] /\ op'[c].pc = "none"
          /\ \A d \in Callers \ {c} : op'[d] = op[d]
      BY <1>0, <1>8, <2>1 DEF Refresh
    <2>3. t \in Timers /\ next' = [next EXCEPT ![t] = clock + ms[t]]
      BY <1>8 DEF Refresh, TypeOK
    <2>4. clock + ms[t] \in Nat /\ ms[t] <= clock + ms[t]
      BY <2>3 DEF TypeOK
    <2> HIDE DEF t
    <2> QED
      BY <1>8, <2>2, <2>3, <2>4 DEF Refresh, TypeOK, timeVars, workerVars
  <1>9. ASSUME NEW c \in Callers, Reset(c) PROVE Typing'
    <2> DEFINE t == op[c].timer
               start == IF op[c].fromNow THEN clock ELSE next[t] - ms[t]
               p == op[c].ms
    <2>1. t \in Timers /\ t \in timers /\ p \in Nat
      BY <1>0, <1>9, FieldTypes DEF Reset, TypeOK
    <2>2. start \in Nat /\ start + p \in Nat /\ p <= start + p
      BY <2>1 DEF TypeOK
    <2>3. /\ ms' = [ms EXCEPT ![t] = p] /\ next' = [next EXCEPT ![t] = start + p]
          /\ timers' = (timers \ {t}) \cup {t}
          /\ \/ op' = [op EXCEPT ![c] = [op[c] EXCEPT !.pc = "front"]]
             \/ op' = [op EXCEPT ![c] = NoOp]
          /\ UNCHANGED <<cb, tickled, previous, made, posted, fired, cancelled, timeVars, workerVars>>
      BY <1>9 DEF Reset, Insert
    <2> HIDE DEF t, start, p
    <2>4. timers' = timers
      BY <2>1, <2>3
    <2>5. ms' \in [Timers -> Nat] /\ next' \in [Timers -> Nat] /\ \A u \in Timers : ms'[u] <= next'[u]
      BY <2>1, <2>2, <2>3 DEF TypeOK
    <2>6. op' \in [Callers -> Op] /\ \A d \in Callers : op'[d].pc = "add" => op'[d].timer \in made'
      BY <2>3, InsertOp
    <2> QED
      BY <2>3, <2>4, <2>5, <2>6 DEF TypeOK, timeVars, workerVars
  <1>10. ASSUME NEW w \in Workers, EnterIdle(w) \/ ClearTickled(w) \/ LeaveIdle(w)
         PROVE  Typing'
    <2>1. wpc' \in [Workers -> {"busy", "clear", "look", "wait", "list", "leave"}]
      BY <1>10 DEF EnterIdle, ClearTickled, LeaveIdle, Goto, TypeOK
    <2>2. tickled' \in BOOLEAN
      BY <1>10 DEF EnterIdle, ClearTickled, LeaveIdle, TypeOK
    <2> QED
      BY <1>10, <2>1, <2>2 DEF EnterIdle, ClearTickled, LeaveIdle, TypeOK, timeVars, timerVars
  <1>17. ASSUME NEW w \in Workers, ListNothing(w) PROVE Typing'
    BY <1>17 DEF ListNothing, Goto, TypeOK, timeVars, timerVars
  <1>11. ASSUME NEW w \in Workers, Wait(w) PROVE Typing'
    BY <1>11, DelayType DEF Wait, Goto, TypeOK, timeVars, timerVars
  <1>12. ASSUME NEW w \in Workers, Wake(w) PROVE Typing'
    <2>1. posted' \in Nat
      BY <1>12 DEF Wake, TypeOK
    <2> QED
      BY <1>12, <2>1 DEF Wake, Goto, TypeOK, timeVars, timerVars
  <1>13. ASSUME NEW w \in Workers, ListExpired(w) PROVE Typing'
    <2> DEFINE expired == Expired(now[w])
               again == expired \cap Recurring
    <2>1. expired \subseteq timers /\ timers \subseteq Timers /\ now[w] \in Nat
      BY DEF Expired, TypeOK
    <2>2. /\ next' \in [Timers -> Nat] /\ \A t \in Timers : ms'[t] <= next'[t]
          /\ ms' = ms /\ ms \in [Timers -> Nat]
      <3>1. next' = [t \in Timers |-> IF t \in again THEN now[w] + ms[t] ELSE next[t]] /\ ms' = ms
        BY <1>13 DEF ListExpired
      <3> HIDE DEF again
      <3> QED
        BY <2>1, <3>1 DEF TypeOK
    <2>3. /\ timers' \subseteq made' /\ fired' \subseteq made' /\ cb' \in [Timers -> BOOLEAN]
          /\ previous' \in Nat /\ now' \in [Workers -> Nat]
      <3>1. /\ timers' = timers \ (expired \ again) /\ fired' = fired \cup (expired \ again)
            /\ cb' = DropCb(expired \ again) /\ made' = made
            /\ previous' = now[w] /\ now' = [now EXCEPT ![w] = 0]
        BY <1>13 DEF ListExpired
      <3> HIDE DEF again, expired
      <3>2. cb' \in [Timers -> BOOLEAN]
        BY <3>1 DEF DropCb
      <3> QED
        BY <2>1, <3>1, <3>2 DEF TypeOK
    <2> HIDE DEF again, expired
    <2> QED
      BY <1>13, <2>2, <2>3 DEF ListExpired, Goto, TypeOK, timeVars
  <1>14. CASE Tick
    BY <1>14, TimeAssumption DEF Tick, TypeOK, timerVars
  <1>15. CASE Jump
    BY <1>15, TimeAssumption DEF Jump, TypeOK, timerVars, workerVars
  <1>16. CASE UNCHANGED vars
    BY <1>16 DEF vars, TypeOK
  <1> HIDE DEF Typing
  <1> QED
    BY <1>1, <1>2, <1>3, <1>4, <1>5, <1>6, <1>7, <1>8, <1>9, <1>10, <1>11, <1>12, <1>13,
       <1>14, <1>15, <1>16, <1>17 DEF Next, Caller, Worker

THEOREM TypingHolds == Spec => []Typing
  BY TypingInit, TypingNext, PTL DEF Spec

(* The values of the timers, the callers and the workers have their types,
   for every set of timers, callers and workers. *)
THEOREM TypeCorrect == Spec => []TypeOK
  BY TypingHolds, PTL DEF Typing

-----------------------------------------------------------------------------
(* The inductive invariant behind the outcomes. A timer that addTimer has
   made and not yet put into the set belongs to that call alone: nobody else
   can cancel it, and no other call is about to insert it. *)
Owned ==
    /\ \A c, d \in Callers :
          op[c].pc = "add" /\ op[d].pc = "add" /\ op[c].timer = op[d].timer => c = d
    /\ \A c \in Callers : op[c].pc = "add" => op[c].adding
    /\ Adding \cap timers = {}

Outcomes == Owned /\ CallbackMeansQueued /\ OneOutcome

(* Steps that leave the timers and the running addTimer calls alone. *)
LEMMA OutcomesKept ==
    ASSUME Outcomes,
           \A d \in Callers : op'[d] = op[d] \/ (op[d].pc # "add" /\ op'[d].pc # "add"),
           timers' = timers, made' = made, cb' = cb, fired' = fired, cancelled' = cancelled
    PROVE  Outcomes'
  <1>1. Adding' = Adding
    BY DEF Adding
  <1>2. Owned'
    BY <1>1 DEF Outcomes, Owned
  <1>3. CallbackMeansQueued' /\ OneOutcome'
    BY <1>1 DEF Outcomes, CallbackMeansQueued, OneOutcome
  <1> QED
    BY <1>2, <1>3 DEF Outcomes

LEMMA OutcomesInit == Init => Outcomes
  <1> SUFFICES ASSUME Init PROVE Outcomes
    OBVIOUS
  <1>1. \A c \in Callers : op[c].pc # "add"
    BY DEF Init, NoOp
  <1>2. Adding = {} /\ timers = {} /\ made = {} /\ fired = {} /\ cancelled = {}
    BY <1>1 DEF Init, Adding
  <1> QED
    BY <1>1, <1>2 DEF Outcomes, Owned, CallbackMeansQueued, OneOutcome

LEMMA OutcomesNext == Typing /\ Outcomes /\ [Next]_vars => Outcomes'
  <1> SUFFICES ASSUME Typing, Outcomes, [Next]_vars PROVE Outcomes'
    OBVIOUS
  <1>0. /\ op \in [Callers -> Op] /\ timers \subseteq made /\ made \subseteq Timers
        /\ fired \subseteq made /\ cancelled \subseteq made /\ cb \in [Timers -> BOOLEAN]
        /\ Adding \subseteq made
    BY DEF Typing, TypeOK, Adding
  <1>1. ASSUME NEW c \in Callers, NEW t \in Timers, NEW p \in Periods, AddTimer(c, t, p)
        PROVE  Outcomes'
    <2> DEFINE o == [pc |-> "add", timer |-> t, ms |-> p, fromNow |-> FALSE, adding |-> TRUE]
    <2>1. o.pc = "add" /\ o.timer = t /\ o.adding
      OBVIOUS
    <2>2. /\ op' = [op EXCEPT ![c] = o] /\ made' = made \cup {t} /\ t \notin made
          /\ op[c].pc = "none" /\ cb' = [cb EXCEPT ![t] = TRUE]
          /\ timers' = timers /\ fired' = fired /\ cancelled' = cancelled
      BY <1>1 DEF AddTimer
    <2> HIDE DEF o
    <2>3. op'[c] = o /\ \A d \in Callers \ {c} : op'[d] = op[d]
      BY <1>0, <2>2
    <2>4. Adding' = Adding \cup {t}
      BY <2>1, <2>2, <2>3 DEF Adding
    <2>5. \A d \in Callers : op[d].pc = "add" => op[d].timer # t
      BY <2>2 DEF Typing
    <2>6. Owned'
      BY <1>0, <2>1, <2>2, <2>3, <2>4, <2>5 DEF Outcomes, Owned
    <2>7. CallbackMeansQueued'
      BY <1>0, <2>2, <2>4 DEF Outcomes, CallbackMeansQueued
    <2>8. OneOutcome'
      BY <1>0, <2>2, <2>4 DEF Outcomes, OneOutcome
    <2> QED
      BY <2>6, <2>7, <2>8 DEF Outcomes
  <1>2. ASSUME NEW c \in Callers, AddInsert(c) PROVE Outcomes'
    <2> DEFINE t == op[c].timer
    <2>1. /\ op[c].pc = "add" /\ timers' = timers \cup {t} /\ made' = made /\ cb' = cb
          /\ fired' = fired /\ cancelled' = cancelled
          /\ \/ op' = [op EXCEPT ![c] = [op[c] EXCEPT !.pc = "front"]]
             \/ op' = [op EXCEPT ![c] = NoOp]
      BY <1>2 DEF AddInsert, Insert
    <2>2. op'[c].pc # "add" /\ \A d \in Callers \ {c} : op'[d] = op[d]
      BY <2>1, InsertOp DEF Typing
    <2>3. t \in made /\ \A d \in Callers \ {c} : op[d].pc = "add" => op[d].timer # t
      BY <2>1 DEF Typing, Outcomes, Owned
    <2> HIDE DEF t
    <2>4. Adding' = Adding \ {t} /\ t \in Adding
      BY <2>1, <2>2, <2>3 DEF Adding, t
    <2>5. timers' \cup Adding' = timers \cup Adding
      BY <2>1, <2>4
    <2>6. Owned'
      BY <2>1, <2>2, <2>3, <2>4 DEF Outcomes, Owned
    <2>7. CallbackMeansQueued' /\ OneOutcome'
      BY <2>1, <2>5 DEF Outcomes, CallbackMeansQueued, OneOutcome
    <2> QED
      BY <2>6, <2>7 DEF Outcomes
  <1>3. ASSUME NEW c \in Callers, NEW t \in Timers, Cancel(c, t) PROVE Outcomes'
    <2>1. /\ cb' = [cb EXCEPT ![t] = FALSE] /\ timers' = timers \ {t} /\ cb[t] /\ t \in made
          /\ cancelled' = cancelled \cup {t} /\ made' = made /\ op' = op /\ fired' = fired
          /\ \A d \in Callers : op[d].adding => op[d].timer # t
      BY <1>3 DEF Cancel, Handed
    <2>2. t \notin Adding
      BY <2>1 DEF Outcomes, Owned, Adding
    <2>3. Adding' = Adding
      BY <2>1 DEF Adding
    <2>4. t \in timers /\ t \notin fired
      BY <2>1, <2>2 DEF Outcomes, CallbackMeansQueued, OneOutcome
    <2>5. Owned'
      BY <2>1, <2>3 DEF Outcomes, Owned
    <2>6. CallbackMeansQueued'
      BY <1>0, <2>1, <2>2, <2>3 DEF Outcomes, CallbackMeansQueued
    <2>7. OneOutcome'
      BY <2>1, <2>2, <2>3, <2>4 DEF Outcomes, OneOutcome
    <2> QED
      BY <2>5, <2>6, <2>7 DEF Outcomes
  <1>4. ASSUME NEW c \in Callers, MarkTickled(c) PROVE Outcomes'
    <2>1. op[c].pc # "add" /\ op'[c].pc # "add" /\ \A d \in Callers \ {c} : op'[d] = op[d]
      BY <1>0, <1>4, SetPc DEF MarkTickled
    <2> QED
      BY <1>4, <2>1, OutcomesKept DEF MarkTickled, timerVars
  <1>5. ASSUME NEW c \in Callers, Notify(c) \/ GiveUp(c) PROVE Outcomes'
    <2>1. op[c].pc # "add" /\ op'[c].pc # "add" /\ \A d \in Callers \ {c} : op'[d] = op[d]
      BY <1>0, <1>5 DEF Notify, GiveUp, NoOp
    <2> QED
      BY <1>5, <2>1, OutcomesKept DEF Notify, GiveUp, timerVars
  <1>6. ASSUME NEW c \in Callers, NEW t \in Timers, RefreshBegin(c, t) PROVE Outcomes'
    <2>1. op[c].pc # "add" /\ op'[c].pc # "add" /\ \A d \in Callers \ {c} : op'[d] = op[d]
      BY <1>0, <1>6 DEF RefreshBegin
    <2> QED
      BY <1>6, <2>1, OutcomesKept DEF RefreshBegin, timerVars
  <1>7. ASSUME NEW c \in Callers, NEW t \in Timers, NEW p \in Periods, NEW f \in BOOLEAN,
               ResetBegin(c, t, p, f)
        PROVE  Outcomes'
    <2>1. op[c].pc # "add" /\ op'[c].pc # "add" /\ \A d \in Callers \ {c} : op'[d] = op[d]
      BY <1>0, <1>7 DEF ResetBegin
    <2> QED
      BY <1>7, <2>1, OutcomesKept DEF ResetBegin, timerVars
  <1>8. ASSUME NEW c \in Callers, Refresh(c) PROVE Outcomes'
    <2>1. op[c].pc # "add" /\ op'[c].pc # "add" /\ \A d \in Callers \ {c} : op'[d] = op[d]
      BY <1>0, <1>8 DEF Refresh, NoOp
    <2> QED
      BY <1>8, <2>1, OutcomesKept DEF Refresh
  <1>9. ASSUME NEW c \in Callers, Reset(c) PROVE Outcomes'
    <2>1. /\ timers' = timers /\ made' = made /\ cb' = cb /\ fired' = fired /\ cancelled' = cancelled
          /\ op[c].pc # "add"
          /\ \/ op' = [op EXCEPT ![c] = [op[c] EXCEPT !.pc = "front"]]
             \/ op' = [op EXCEPT ![c] = NoOp]
      BY <1>9 DEF Reset, Insert
    <2>2. op'[c].pc # "add" /\ \A d \in Callers \ {c} : op'[d] = op[d]
      BY <2>1, InsertOp DEF Typing
    <2> QED
      BY <2>1, <2>2, OutcomesKept
  <1>10. ASSUME NEW w \in Workers,
                \/ EnterIdle(w) \/ ClearTickled(w) \/ Wait(w) \/ Wake(w)
                \/ ListNothing(w) \/ LeaveIdle(w)
         PROVE  Outcomes'
    BY <1>10, OutcomesKept DEF EnterIdle, ClearTickled, Wait, Wake, ListNothing, LeaveIdle, timerVars
  <1>11. ASSUME NEW w \in Workers, ListExpired(w) PROVE Outcomes'
    <2> DEFINE gone == Expired(now[w]) \ (Expired(now[w]) \cap Recurring)
    <2>1. /\ timers' = timers \ gone /\ cb' = DropCb(gone) /\ fired' = fired \cup gone
          /\ made' = made /\ op' = op /\ cancelled' = cancelled
      BY <1>11 DEF ListExpired
    <2>2. gone \subseteq timers
      BY DEF Expired
    <2> HIDE DEF gone
    <2>3. Adding' = Adding
      BY <2>1 DEF Adding
    <2>4. Owned'
      BY <2>1, <2>3 DEF Outcomes, Owned
    <2>5. CallbackMeansQueued'
      <3>1. \A t \in made : cb'[t] <=> (cb[t] /\ t \notin gone)
        BY <1>0, <2>1 DEF DropCb
      <3>2. Adding \cap gone = {}
        BY <2>2 DEF Outcomes, Owned
      <3> QED
        BY <2>1, <2>3, <3>1, <3>2 DEF Outcomes, CallbackMeansQueued
    <2>6. OneOutcome'
      BY <2>1, <2>2, <2>3 DEF Outcomes, Owned, OneOutcome
    <2> QED
      BY <2>4, <2>5, <2>6 DEF Outcomes
  <1>12. CASE Tick \/ Jump
    BY <1>12, OutcomesKept DEF Tick, Jump, timerVars
  <1>13. CASE UNCHANGED vars
    BY <1>13, OutcomesKept DEF vars
  <1> QED
    BY <1>1, <1>2, <1>3, <1>4, <1>5, <1>6, <1>7, <1>8, <1>9, <1>10, <1>11, <1>12, <1>13
       DEF Next, Caller, Worker

LEMMA OutcomesHold == Spec => []Outcomes
  BY TypingHolds, OutcomesInit, OutcomesNext, PTL DEF Spec

(* cancel() erases the iterator that find() returns without a look at it: it
   is valid, since a callback is set exactly while its timer is queued. *)
THEOREM CallbackFlag == Spec => []CallbackMeansQueued
  BY OutcomesHold, PTL DEF Outcomes

(* Expiry, cancel(), refresh() and reset() may race for a timer: a one-shot
   timer is queued, or listed, or cancelled, and exactly one of them, and what
   has been cancelled does not come back. *)
THEOREM EndsOnce == Spec => []OneOutcome
  BY OutcomesHold, PTL DEF Outcomes

-----------------------------------------------------------------------------
(* No early callback. Until the clock is set back, every reading that a
   worker still holds lies between the start and the present. *)
Readings ==
    jumps = 0 =>
        /\ Hour <= previous /\ previous <= clock
        /\ \A w \in Workers : wpc[w] = "list" => Hour <= now[w] /\ now[w] <= clock

LEMMA ReadingsHold == Spec => []Readings
  <1>1. Init => Readings
    BY TimeAssumption DEF Init, Readings
  <1>2. Typing /\ Readings /\ [Next]_vars => Readings'
    <2> SUFFICES ASSUME Typing, Readings, [Next]_vars, jumps' = 0
                 PROVE  /\ Hour <= previous' /\ previous' <= clock'
                        /\ \A w \in Workers :
                              wpc'[w] = "list" => Hour <= now'[w] /\ now'[w] <= clock'
      BY DEF Readings
    <2>0. /\ clock \in Nat /\ previous \in Nat /\ jumps \in Nat /\ now \in [Workers -> Nat]
          /\ wpc \in [Workers -> {"busy", "clear", "look", "wait", "list", "leave"}]
          /\ MaxClock \in Nat /\ Hour \in Nat
      BY TimeAssumption DEF Typing, TypeOK
    <2>1. ASSUME NEW c \in Callers, Caller(c)
          PROVE  UNCHANGED <<clock, jumps, previous, wpc, now>>
      BY <2>1 DEF Caller, AddTimer, AddInsert, MarkTickled, Notify, Cancel, RefreshBegin,
                  ResetBegin, Refresh, Reset, GiveUp, timeVars, workerVars
    <2>2. CASE UNCHANGED <<clock, jumps, previous, wpc, now>>
      BY <2>0, <2>2 DEF Readings
    <2>3. ASSUME NEW w \in Workers, EnterIdle(w) \/ ClearTickled(w) \/ Wait(w) \/ LeaveIdle(w)
          PROVE  /\ UNCHANGED <<clock, jumps, previous, now>>
                 /\ wpc'[w] # "list" /\ \A v \in Workers \ {w} : wpc'[v] = wpc[v]
      BY <2>0, <2>3 DEF EnterIdle, ClearTickled, Wait, LeaveIdle, Goto, timeVars
    <2>4. ASSUME NEW w \in Workers, Wake(w)
          PROVE  /\ UNCHANGED <<clock, jumps, previous>> /\ now'[w] = clock
                 /\ \A v \in Workers \ {w} : wpc'[v] = wpc[v] /\ now'[v] = now[v]
      BY <2>0, <2>4 DEF Wake, Goto, timeVars
    <2>5. ASSUME NEW w \in Workers, ListExpired(w) \/ ListNothing(w)
          PROVE  /\ UNCHANGED <<clock, jumps>> /\ wpc[w] = "list" /\ wpc'[w] = "leave"
                 /\ previous' \in {previous, now[w]}
                 /\ \A v \in Workers \ {w} : wpc'[v] = wpc[v] /\ now'[v] = now[v]
      BY <2>0, <2>5 DEF ListExpired, ListNothing, Goto, timeVars
    <2>6. CASE Tick
      <3>1. /\ clock' \in Nat /\ clock <= clock'
            /\ UNCHANGED <<jumps, previous, wpc, now>>
        BY <2>0, <2>6 DEF Tick, Readings
      <3> QED
        BY <2>0, <3>1 DEF Readings
    <2>7. ~Jump
      BY <2>0 DEF Jump
    <2>8. CASE \E w \in Workers : EnterIdle(w) \/ ClearTickled(w) \/ Wait(w) \/ LeaveIdle(w)
      BY <2>0, <2>3, <2>8 DEF Readings
    <2>9. CASE \E w \in Workers : Wake(w)
      BY <2>0, <2>4, <2>9 DEF Readings
    <2>10. CASE \E w \in Workers : ListExpired(w) \/ ListNothing(w)
      BY <2>0, <2>5, <2>10 DEF Readings
    <2>11. CASE UNCHANGED vars
      BY <2>2, <2>11 DEF vars
    <2> QED
      BY <2>1, <2>2, <2>6, <2>7, <2>8, <2>9, <2>10, <2>11 DEF Next, Worker
  <1> QED
    BY <1>1, <1>2, TypingHolds, PTL DEF Spec

(* No worker that has read the clock waits for an hour before it gets m_mutex
   (timer.cpp:212-218). *)
ReadingsAreFresh == \A w \in Workers : wpc[w] = "list" => clock - now[w] <= Hour

(* For how long the program may run there is no bound. In every behaviour in
   which no worker hangs for an hour between its reading of the clock and the
   lock, a reading that another worker's more recent one overtakes is not taken
   for a rollover of the clock: the callbacks are not listed before they are
   due. The condition is the code's own: a reading that is more than an hour
   behind m_previouseTime is what detectClockRollover looks for. *)
THEOREM NoEarlyCallback == Spec /\ []ReadingsAreFresh => NeverEarly
  <1>1. Typing /\ Readings /\ ReadingsAreFresh /\ [Next]_vars
           => [jumps = 0 => \A t \in timers : t \in fired' \ fired => next[t] <= clock]_vars
    <2> SUFFICES ASSUME Typing, Readings, ReadingsAreFresh, Next, jumps = 0,
                        NEW t \in timers, t \in fired' \ fired
                 PROVE  next[t] <= clock
      BY DEF vars
    <2>1. PICK w \in Workers : ListExpired(w)
      BY ZenonT(60) DEF Next, Caller, Worker, AddTimer, AddInsert, MarkTickled, Notify, Cancel, RefreshBegin,
             ResetBegin, Refresh, Reset, GiveUp, EnterIdle, ClearTickled, Wait, Wake, ListNothing,
             LeaveIdle, Tick, Jump, timerVars
    <2>2. t \in Expired(now[w]) /\ wpc[w] = "list"
      BY <2>1 DEF ListExpired
    <2>3. /\ clock \in Nat /\ previous \in Nat /\ now[w] \in Nat /\ next[t] \in Nat
          /\ Hour \in Nat
      BY TimeAssumption DEF Typing, TypeOK
    <2>4. /\ now[w] <= clock /\ Hour <= previous /\ previous <= clock
          /\ clock - now[w] <= Hour
      BY <2>2 DEF Readings, ReadingsAreFresh
    <2>5. ~SetBack(now[w])
      BY <2>3, <2>4 DEF SetBack
    <2> QED
      BY <2>2, <2>3, <2>4, <2>5 DEF Expired
  <1> QED
    BY <1>1, TypingHolds, ReadingsHold, PTL DEF Spec, NeverEarly

-----------------------------------------------------------------------------
(* No oversleeping. Only workers of the world are in idle(); until the clock
   is set back no timer is due later than its period from now, so that a
   refresh() never makes one due earlier. *)
Staff ==
    /\ world \in Worlds
    /\ \A w \in Workers : wpc[w] # "busy" => w \in world.workers

Steady ==
    jumps = 0 =>
        /\ \A t \in Timers : next[t] <= clock + ms[t]
        /\ \A w \in Workers : wpc[w] = "list" => now[w] <= clock

(* m_tickled, which keeps a caller from notifying, is set only while the
   notification that set it is still to be seen by a worker. *)
TickleSeen ==
    tickled =>
        \/ posted > 0
        \/ \E c \in Callers : op[c].pc = "notify"
        \/ \E w \in world.workers : wpc[w] \in {"busy", "clear", "list", "leave"}

(* Worker w wakes up by itself before the first timer is due. *)
InTime(w) == remaining[w] = 0 \/ clock + remaining[w] <= FirstDue(timers, next)

Watched ==
    jumps = 0 /\ timers # {} =>
        \/ posted > 0
        \/ \E c \in Callers : op[c].pc \in {"front", "notify"}
        \/ \E w \in world.workers : wpc[w] # "wait"
        \/ \E w \in world.workers : InTime(w)

Vigilant == Staff /\ Steady /\ TickleSeen /\ Watched

LEMMA VigilantInit == Init => Vigilant
  <1> SUFFICES ASSUME Init PROVE Vigilant
    OBVIOUS
  <1>1. Staff /\ TickleSeen /\ Watched
    BY DEF Init, Staff, TickleSeen, Watched
  <1>2. Steady
    BY TimeAssumption DEF Init, Steady
  <1> QED
    BY <1>1, <1>2 DEF Vigilant

(* The first due time is that of a timer, and none is before it. *)
LEMMA FirstDueIs ==
    ASSUME NEW S \in SUBSET Timers, S # {}, NEW nx \in [Timers -> Nat]
    PROVE  /\ FirstDue(S, nx) \in Nat
           /\ \E t \in S : FirstDue(S, nx) = nx[t]
           /\ \A u \in S : FirstDue(S, nx) <= nx[u]
  <1> DEFINE D == {nx[t] : t \in S}
  <1>1. D \subseteq Nat /\ D # {}
    OBVIOUS
  <1>2. \E n \in D : \A m \in D : n <= m
    BY <1>1, LeastNat
  <1>3. \E n \in D : \A u \in S : n <= nx[u]
    BY <1>2
  <1>4. FirstDue(S, nx) \in D /\ \A u \in S : FirstDue(S, nx) <= nx[u]
    BY <1>3 DEF FirstDue
  <1> QED
    BY <1>1, <1>4

(* When every timer there is now replaces one that was due no later, the first
   due time has not come closer. *)
LEMMA NotEarlier ==
    ASSUME TypeOK, TypeOK', timers' # {},
           \A u \in timers' : \E v \in timers : next[v] <= next'[u]
    PROVE  FirstDue(timers, next) <= FirstDue(timers', next')
  <1>1. /\ timers \in SUBSET Timers /\ timers # {} /\ next \in [Timers -> Nat]
        /\ timers' \in SUBSET Timers /\ next' \in [Timers -> Nat]
    BY DEF TypeOK
  <1> DEFINE a == FirstDue(timers, next)
             b == FirstDue(timers', next')
  <1>2. a \in Nat /\ \A u \in timers : a <= next[u]
    BY <1>1, FirstDueIs
  <1>3. b \in Nat /\ \E t \in timers' : b = next'[t]
    BY <1>1, FirstDueIs
  <1> HIDE DEF a, b
  <1>4. PICK t \in timers' : b = next'[t]
    BY <1>3
  <1>5. PICK v \in timers : next[v] <= next'[t]
    OBVIOUS
  <1>6. next[v] \in Nat /\ next'[t] \in Nat
    BY <1>1
  <1>7. a <= b
    BY <1>2, <1>3, <1>4, <1>5, <1>6
  <1> QED
    BY <1>7 DEF a, b

(* Steps of callers that leave no timer due earlier. *)
LEMMA WatchedKept ==
    ASSUME Typing, Typing', Staff, Watched,
           UNCHANGED <<world, clock, jumps, posted, wpc, remaining>>,
           \A c \in Callers : op[c].pc \in {"front", "notify"} => op'[c].pc \in {"front", "notify"},
           \A u \in timers' : \E v \in timers : next[v] <= next'[u]
    PROVE  Watched'
  <1> SUFFICES ASSUME jumps' = 0, timers' # {}
               PROVE  \/ posted' > 0
                      \/ \E c \in Callers : op'[c].pc \in {"front", "notify"}
                      \/ \E w \in world'.workers : wpc'[w] # "wait"
                      \/ \E w \in world'.workers : InTime(w)'
    BY DEF Watched
  <1>1. jumps = 0 /\ timers # {}
    OBVIOUS
  <1>2. ASSUME NEW w \in world.workers, InTime(w)
        PROVE  InTime(w)'
    <2> DEFINE a == FirstDue(timers, next)
               b == FirstDue(timers', next')
    <2>1. a <= b
      BY NotEarlier DEF Typing
    <2>2. a \in Nat /\ b \in Nat
      BY <1>1, FirstDueIs DEF Typing, TypeOK
    <2>3. w \in Workers
      BY <1>2, WorldsAssumption DEF Staff
    <2>4. clock \in Nat /\ remaining[w] \in Nat
      BY <2>3 DEF Typing, TypeOK
    <2>5. remaining'[w] = remaining[w] /\ clock' = clock
      OBVIOUS
    <2> HIDE DEF a, b
    <2>6. InTime(w) <=> remaining[w] = 0 \/ clock + remaining[w] <= a
      BY DEF InTime, a
    <2>7. InTime(w)' <=> remaining'[w] = 0 \/ clock' + remaining'[w] <= b
      BY DEF InTime, b
    <2> QED
      BY <1>2, <2>1, <2>2, <2>4, <2>5, <2>6, <2>7
  <1> QED
    BY <1>1, <1>2 DEF Watched

(* Insertion. A timer that comes to the front has a notification sent, unless
   the one that set m_tickled is still to be seen; another leaves the first
   due time what it was. *)
LEMMA InsertKeepsWatched ==
    ASSUME Typing, Typing', Staff, TickleSeen, Watched,
           NEW c \in Callers, NEW t \in Timers, NEW S \in SUBSET timers,
           op[c].pc \in {"add", "reset"}, Insert(c, t, S, next'),
           UNCHANGED <<world, clock, jumps, posted, wpc, remaining, tickled>>,
           \A u \in Timers \ {t} : next'[u] = next[u]
    PROVE  Watched'
  <1>t. /\ op \in [Callers -> Op] /\ timers \subseteq Timers
        /\ next \in [Timers -> Nat] /\ next' \in [Timers -> Nat] /\ Timers \subseteq Nat
    BY TimersAssumption DEF Typing, TypeOK
  <1>1. timers' = S \cup {t}
    BY DEF Insert
  <1>2. CASE IsFirst(t, S, next') /\ ~tickled
    <2>1. op' = [op EXCEPT ![c] = [op[c] EXCEPT !.pc = "front"]]
      BY <1>2 DEF Insert
    <2>2. op'[c].pc = "front"
      BY <2>1, <1>t, SetPc
    <2> QED
      BY <2>2 DEF Watched
  <1>3. CASE tickled
    <2>1. op' = [op EXCEPT ![c] = NoOp]
      BY <1>3 DEF Insert
    <2>2. \A d \in Callers : op[d].pc = "notify" => op'[d].pc = "notify"
      BY <2>1, <1>t
    <2> QED
      BY <1>3, <2>2 DEF Watched, TickleSeen
  <1>4. CASE ~IsFirst(t, S, next') /\ ~tickled
    <2>1. op' = [op EXCEPT ![c] = NoOp]
      BY <1>4 DEF Insert
    <2>2. \A d \in Callers :
            op[d].pc \in {"front", "notify"} => op'[d].pc \in {"front", "notify"}
      BY <2>1, <1>t
    <2>3. PICK u \in S \ {t} : ~Before(t, u, next')
      BY <1>4 DEF IsFirst
    <2>4. next'[t] \in Nat /\ next'[u] \in Nat /\ next'[u] = next[u]
      BY <1>t
    <2>5. next[u] <= next'[t]
      BY <2>3, <2>4 DEF Before
    <2>6. \A v \in timers' : \E x \in timers : next[x] <= next'[v]
      <3> SUFFICES ASSUME NEW v \in timers' PROVE \E x \in timers : next[x] <= next'[v]
        OBVIOUS
      <3>1. CASE v = t
        BY <3>1, <2>5
      <3>2. CASE v # t
        <4>1. v \in timers /\ next'[v] = next[v] /\ next[v] \in Nat
          BY <3>2, <1>1, <1>t
        <4> QED
          BY <4>1
      <3> QED
        BY <3>1, <3>2
    <2> QED
      BY <2>2, <2>6, WatchedKept
  <1> QED
    BY <1>2, <1>3, <1>4

(* What the callers do to the clock, the workers and the notifications. *)
LEMMA CallerFrame ==
    ASSUME NEW c \in Callers, Caller(c)
    PROVE  UNCHANGED <<world, clock, jumps, wpc, remaining, now>>
  BY DEF Caller, AddTimer, AddInsert, MarkTickled, Notify, Cancel, RefreshBegin,
         ResetBegin, Refresh, Reset, GiveUp, timeVars, workerVars

LEMMA CallerKeepsVigilant ==
    ASSUME Typing, Typing', Vigilant, NEW c \in Callers, Caller(c)
    PROVE  Vigilant'
  <1> USE DEF Vigilant
  <1>t. /\ op \in [Callers -> Op] /\ op[c] \in Op /\ timers \subseteq Timers /\ made \subseteq Timers
        /\ timers \subseteq made /\ posted \in Nat /\ tickled \in BOOLEAN
        /\ next \in [Timers -> Nat] /\ next' \in [Timers -> Nat] /\ ms \in [Timers -> Nat]
        /\ ms' \in [Timers -> Nat] /\ clock \in Nat /\ Timers \subseteq Nat /\ Periods \subseteq Nat
        /\ \A t \in Timers : ms[t] <= next[t]
    BY TimersAssumption, TimeAssumption DEF Typing, TypeOK
  <1>n. \A t \in Timers : next[t] \in Nat /\ next[t] <= next[t]
    BY <1>t
  <1>o. /\ op[c].timer \in Timers \cup {0} /\ op[c].ms \in Nat
    BY <1>t, FieldTypes
  <1>f. NoOp.pc = "none"
    BY DEF NoOp
  <1>u. UNCHANGED <<world, clock, jumps, wpc, remaining, now>>
    BY CallerFrame
  <1>s. Staff'
    BY <1>u DEF Staff
  <1>1. ASSUME \A t \in Timers : next'[t] <= clock + ms'[t] \/ (next'[t] = next[t] /\ ms'[t] = ms[t])
        PROVE  Steady'
    BY <1>1, <1>u DEF Steady
  <1>2. ASSUME \A d \in Callers \ {c} : op'[d] = op[d],
               op[c].pc # "notify", posted' = posted, tickled' = tickled
        PROVE  TickleSeen'
    BY <1>2, <1>u DEF TickleSeen
  <1>3. CASE \E t \in Timers, p \in Periods : AddTimer(c, t, p)
    <2> PICK t \in Timers, p \in Periods : AddTimer(c, t, p)
      BY <1>3
    <2>1. /\ t \notin made /\ op[c].pc = "none" /\ timers' = timers
          /\ ms' = [ms EXCEPT ![t] = p] /\ next' = [next EXCEPT ![t] = clock + p]
          /\ \A d \in Callers \ {c} : op'[d] = op[d]
          /\ UNCHANGED <<posted, tickled>>
      BY <1>t DEF AddTimer
    <2>2. Steady'
      BY <1>1, <1>t, <2>1
    <2>3. TickleSeen'
      BY <1>2, <2>1
    <2>4. \A u \in timers' : \E v \in timers : next[v] <= next'[u]
      BY <1>t, <1>n, <2>1
    <2>5. Watched'
      BY <1>u, <2>1, <2>4, WatchedKept
    <2> QED
      BY <1>s, <2>2, <2>3, <2>5
  <1>4. CASE AddInsert(c)
    <2> DEFINE t == op[c].timer
    <2>1. /\ op[c].pc = "add" /\ Insert(c, t, timers, next) /\ next' = next /\ ms' = ms
          /\ UNCHANGED <<posted, tickled>>
      BY <1>4 DEF AddInsert
    <2>2. t \in Timers
      BY <1>t, <2>1 DEF Typing
    <2>3. \A d \in Callers \ {c} : op'[d] = op[d]
      BY <1>t, <2>1 DEF Insert
    <2>4. Insert(c, t, timers, next')
      BY <2>1
    <2> HIDE DEF t
    <2>5. Watched'
      BY <1>u, <2>1, <2>2, <2>4, InsertKeepsWatched
    <2> QED
      BY <1>s, <1>1, <1>2, <2>1, <2>3, <2>5
  <1>5. CASE MarkTickled(c)
    <2>1. /\ op[c].pc = "front" /\ op'[c].pc = "notify" /\ \A d \in Callers \ {c} : op'[d] = op[d]
          /\ UNCHANGED <<posted, timers, next, ms>>
      BY <1>5, <1>t, SetPc DEF MarkTickled, timerVars
    <2>2. TickleSeen'
      BY <2>1 DEF TickleSeen
    <2>3. Watched'
      BY <1>t, <1>n, <1>u, <2>1, WatchedKept
    <2> QED
      BY <1>s, <1>1, <2>1, <2>2, <2>3
  <1>6. CASE Notify(c)
    <2>1. /\ \A d \in Callers \ {c} : op'[d] = op[d]
          /\ posted' = IF \E w \in Workers : wpc[w] # "busy" THEN posted + 1 ELSE posted
          /\ UNCHANGED <<tickled, timers, next, ms>>
      BY <1>6, <1>t DEF Notify, timerVars
    <2>2. world.workers # {} /\ world.workers \subseteq Workers
      BY WorldsAssumption DEF Staff
    <2>3. posted' > 0 \/ \E w \in world.workers : wpc[w] = "busy"
      BY <1>t, <2>1, <2>2
    <2>4. TickleSeen' /\ Watched'
      BY <1>u, <2>3 DEF TickleSeen, Watched
    <2> QED
      BY <1>s, <1>1, <2>1, <2>4
  <1>7. CASE \E t \in Timers : Cancel(c, t)
    <2>1. /\ op' = op /\ timers' \subseteq timers /\ UNCHANGED <<posted, tickled, next, ms>>
          /\ op[c].pc = "none"
      BY <1>7 DEF Cancel
    <2>3. Watched'
      BY <1>t, <1>n, <1>u, <2>1, WatchedKept
    <2> QED
      BY <1>s, <1>1, <1>2, <2>1, <2>3
  <1>8. CASE \/ \E t \in Timers : RefreshBegin(c, t)
             \/ \E t \in Timers, p \in Periods, f \in BOOLEAN : ResetBegin(c, t, p, f)
             \/ GiveUp(c)
    <2>1. /\ op[c].pc \in {"none", "refresh", "reset"} /\ \A d \in Callers \ {c} : op'[d] = op[d]
          /\ UNCHANGED <<posted, tickled, timers, next, ms>>
      BY <1>8, <1>t DEF RefreshBegin, ResetBegin, GiveUp, timerVars
    <2>3. Watched'
      BY <1>t, <1>n, <1>u, <2>1, WatchedKept
    <2> QED
      BY <1>s, <1>1, <1>2, <2>1, <2>3
  <1>9. CASE Refresh(c)
    <2> DEFINE t == op[c].timer
    <2>1. /\ op[c].pc = "refresh" /\ \A d \in Callers \ {c} : op'[d] = op[d]
          /\ t \in timers /\ next' = [next EXCEPT ![t] = clock + ms[t]]
          /\ UNCHANGED <<posted, tickled, timers, ms>>
      BY <1>9, <1>t DEF Refresh
    <2> HIDE DEF t
    <2>2. Steady'
      BY <1>1, <1>t, <2>1
    <2>3. ASSUME jumps = 0
          PROVE  Watched'
      <3>1. \A u \in timers : next[u] <= next'[u]
        <4> SUFFICES ASSUME NEW u \in timers PROVE next[u] <= next'[u]
          OBVIOUS
        <4>1. next[u] <= clock + ms[u] /\ u \in Timers
          BY <2>3, <1>t DEF Steady
        <4>2. CASE u = t
          BY <4>1, <4>2, <2>1, <1>t
        <4>3. CASE u # t
          BY <4>1, <4>3, <2>1, <1>t, <1>n
        <4> QED
          BY <4>2, <4>3
      <3>2. \A d \in Callers : op[d].pc \in {"front", "notify"} => op'[d].pc \in {"front", "notify"}
        BY <2>1
      <3>3. \A u \in timers' : \E v \in timers : next[v] <= next'[u]
        BY <2>1, <3>1
      <3> QED
        BY <3>2, <3>3, <1>u, <2>1, WatchedKept
    <2>4. ASSUME jumps # 0
          PROVE  Watched'
      BY <2>4, <1>u DEF Watched
    <2> QED
      BY <1>s, <1>2, <2>1, <2>2, <2>3, <2>4
  <1>10. CASE Reset(c)
    <2> DEFINE t == op[c].timer
               start == IF op[c].fromNow THEN clock ELSE next[t] - ms[t]
    <2>1. /\ op[c].pc = "reset" /\ Insert(c, t, timers \ {t}, next')
          /\ t \in timers /\ next' = [next EXCEPT ![t] = start + op[c].ms]
          /\ ms' = [ms EXCEPT ![t] = op[c].ms]
          /\ UNCHANGED <<posted, tickled>>
      BY <1>10, <1>t DEF Reset
    <2>a. t \in Timers /\ next[t] \in Nat /\ ms[t] \in Nat
      BY <1>t, <2>1
    <2>2. start \in Int /\ (jumps = 0 => start <= clock)
      <3>1. CASE op[c].fromNow
        BY <3>1, <1>t
      <3>2. CASE ~op[c].fromNow
        <4>1. start = next[t] - ms[t]
          BY <3>2
        <4>2. jumps = 0 => next[t] <= clock + ms[t]
          BY <2>a DEF Steady
        <4> HIDE DEF t, start
        <4> QED
          BY <4>1, <4>2, <2>a, <1>t
      <3> QED
        BY <3>1, <3>2
    <2> HIDE DEF t, start
    <2>3. \A d \in Callers \ {c} : op'[d] = op[d]
      BY <1>t, <2>1 DEF Insert
    <2>4. Steady'
      <3>1. CASE jumps = 0
        BY <3>1, <1>1, <1>t, <1>o, <2>1, <2>2
      <3>2. CASE jumps # 0
        BY <3>2, <1>u DEF Steady
      <3> QED
        BY <3>1, <3>2
    <2>5. Watched'
      <3>1. \A u \in Timers \ {t} : next'[u] = next[u]
        BY <1>t, <2>1
      <3>2. PICK x \in Timers : x = t
        BY <2>a
      <3>3. PICK S \in SUBSET timers : S = timers \ {x}
        OBVIOUS
      <3>4. Insert(c, x, S, next') /\ op[c].pc \in {"add", "reset"}
        BY <2>1, <3>2, <3>3
      <3> QED
        BY <1>u, <2>1, <3>1, <3>2, <3>4, InsertKeepsWatched
    <2> QED
      BY <1>s, <1>2, <2>1, <2>3, <2>4, <2>5
  <1> QED
    BY <1>3, <1>4, <1>5, <1>6, <1>7, <1>8, <1>9, <1>10 DEF Caller

(* A worker that begins to wait waits until the first timer is due at most. *)
LEMMA WaitIsInTime ==
    ASSUME Typing, NEW w \in Workers, Wait(w), timers # {}
    PROVE  InTime(w)'
  <1>1. /\ remaining \in [Workers -> Nat] /\ clock \in Nat
        /\ timers \in SUBSET Timers /\ next \in [Timers -> Nat] /\ MaxTimeout \in Nat
    BY TimeAssumption DEF Typing, TypeOK
  <1>2. remaining'[w] = Delay /\ UNCHANGED <<clock, timers, next>>
    BY <1>1 DEF Wait, timeVars, timerVars
  <1>3. FirstDue(timers, next) \in Nat
    BY <1>1, FirstDueIs
  <1> DEFINE n == FirstDue(timers, next)
  <1>4. n \in Nat
    BY <1>3
  <1>5. Delay = IF clock >= n THEN 0 ELSE IF n - clock > MaxTimeout THEN MaxTimeout ELSE n - clock
    BY DEF Delay
  <1> HIDE DEF n
  <1>6. Delay = 0 \/ clock + Delay <= n
    BY <1>1, <1>4, <1>5
  <1>7. InTime(w)' <=> remaining'[w] = 0 \/ clock' + remaining'[w] <= n
    BY <1>2 DEF InTime, n
  <1> QED
    BY <1>2, <1>6, <1>7

LEMMA WorkerKeepsVigilant ==
    ASSUME Typing, Typing', Vigilant, NEW w \in Workers, Worker(w)
    PROVE  Vigilant'
  <1> USE DEF Vigilant
  <1>t. /\ wpc \in [Workers -> {"busy", "clear", "look", "wait", "list", "leave"}]
        /\ now \in [Workers -> Nat] /\ clock \in Nat /\ ms \in [Timers -> Nat] /\ posted \in Nat
        /\ next \in [Timers -> Nat] /\ Timers \subseteq Nat
    BY TimersAssumption DEF Typing, TypeOK
  <1>w. w \in world.workers
    BY DEF Worker, EnterIdle, ClearTickled, Wait, Wake, ListExpired, ListNothing, LeaveIdle, Staff
  <1>u. UNCHANGED <<world, clock, jumps, op>> /\ \A v \in Workers \ {w} : wpc'[v] = wpc[v]
    BY <1>t DEF Worker, EnterIdle, ClearTickled, Wait, Wake, ListExpired, ListNothing, LeaveIdle,
                Goto, timeVars
  <1>s. Staff'
    BY <1>t, <1>u, <1>w DEF Staff
  <1>1. ASSUME wpc'[w] # "list" \/ now'[w] <= clock, \A v \in Workers \ {w} : now'[v] = now[v],
               UNCHANGED <<ms, next>>
        PROVE  Steady'
    BY <1>1, <1>u DEF Steady
  <1>2. ASSUME wpc'[w] \in {"busy", "clear", "list", "leave"}
        PROVE  TickleSeen' /\ Watched'
    BY <1>2, <1>u, <1>w DEF TickleSeen, Watched
  <1>3. CASE EnterIdle(w) \/ LeaveIdle(w) \/ ListNothing(w)
    <2>1. /\ wpc'[w] \in {"busy", "clear", "leave"} /\ UNCHANGED <<ms, next>>
          /\ \A v \in Workers \ {w} : now'[v] = now[v]
      BY <1>3, <1>t DEF EnterIdle, LeaveIdle, ListNothing, Goto, timerVars
    <2> QED
      BY <1>s, <1>1, <1>2, <2>1
  <1>4. CASE ClearTickled(w)
    <2>1. wpc'[w] = "look" /\ tickled' = FALSE /\ UNCHANGED <<now, ms, next>>
      BY <1>4, <1>t DEF ClearTickled, Goto, timerVars
    <2>2. TickleSeen' /\ Watched'
      BY <1>u, <1>w, <2>1 DEF TickleSeen, Watched
    <2> QED
      BY <1>s, <1>1, <2>1, <2>2
  <1>5. CASE Wait(w)
    <2>1. /\ wpc[w] = "look" /\ wpc'[w] = "wait"
          /\ UNCHANGED <<now, ms, next, timers, tickled, posted>>
      BY <1>5, <1>t DEF Wait, Goto, timerVars
    <2>2. TickleSeen'
      <3>1. world.workers \subseteq Workers
        BY WorldsAssumption DEF Staff
      <3> QED
        BY <1>u, <2>1, <3>1 DEF TickleSeen
    <2>3. Watched'
      BY <1>5, <1>u, <1>w, <2>1, WaitIsInTime DEF Watched
    <2> QED
      BY <1>s, <1>1, <2>1, <2>2, <2>3
  <1>6. CASE Wake(w)
    <2>1. /\ wpc'[w] = "list" /\ now'[w] = clock /\ UNCHANGED <<ms, next>>
          /\ \A v \in Workers \ {w} : now'[v] = now[v]
      BY <1>6, <1>t DEF Wake, Goto, timerVars
    <2> QED
      BY <1>s, <1>1, <1>2, <1>t, <2>1
  <1>7. CASE ListExpired(w)
    <2> DEFINE again == Expired(now[w]) \cap Recurring
    <2>1. /\ wpc[w] = "list" /\ wpc'[w] = "leave" /\ ms' = ms
          /\ \A v \in Workers \ {w} : now'[v] = now[v]
          /\ next' = [t \in Timers |-> IF t \in again THEN now[w] + ms[t] ELSE next[t]]
      BY <1>7, <1>t DEF ListExpired, Goto
    <2> HIDE DEF again
    <2>2. Steady'
      <3> SUFFICES ASSUME jumps = 0
                   PROVE  /\ \A t \in Timers : next'[t] <= clock + ms[t]
                          /\ \A v \in Workers : wpc'[v] = "list" => now'[v] <= clock
        BY <1>u, <2>1 DEF Steady
      <3>1. now[w] <= clock /\ now[w] \in Nat
        BY <1>t, <2>1 DEF Steady
      <3>2. \A t \in Timers : next'[t] <= clock + ms[t]
        <4> SUFFICES ASSUME NEW t \in Timers PROVE next'[t] <= clock + ms[t]
          OBVIOUS
        <4>1. next[t] <= clock + ms[t] /\ ms[t] \in Nat /\ next[t] \in Nat
          BY <1>t DEF Steady
        <4> QED
          BY <1>t, <2>1, <3>1, <4>1
      <3>3. \A v \in Workers : wpc'[v] = "list" => now'[v] <= clock
        BY <1>u, <2>1 DEF Steady
      <3> QED
        BY <3>2, <3>3
    <2> QED
      BY <1>s, <1>2, <2>1, <2>2
  <1> QED
    BY <1>3, <1>4, <1>5, <1>6, <1>7 DEF Worker

(* Time passes for the clock and for the waiting workers alike. *)
LEMMA TickKeepsVigilant ==
    ASSUME Typing, Typing', Vigilant, Tick
    PROVE  Vigilant'
  <1> USE DEF Vigilant
  <1>t. /\ clock \in Nat /\ MaxClock \in Nat /\ remaining \in [Workers -> Nat]
        /\ now \in [Workers -> Nat] /\ ms \in [Timers -> Nat] /\ next \in [Timers -> Nat]
        /\ timers \in SUBSET Timers
    BY TimeAssumption DEF Typing, TypeOK
  <1>1. /\ clock' \in {clock, clock + 1}
        /\ UNCHANGED <<world, jumps, op, wpc, now, posted, tickled, ms, next, timers>>
        /\ remaining' = [w \in Workers |-> IF remaining[w] > 0 THEN remaining[w] - 1 ELSE 0]
    BY DEF Tick, timerVars
  <1>2. Staff' /\ TickleSeen'
    BY <1>1 DEF Staff, TickleSeen
  <1>3. Steady'
    <2> SUFFICES ASSUME jumps = 0
                 PROVE  /\ \A t \in Timers : next[t] <= clock' + ms[t]
                        /\ \A w \in Workers : wpc[w] = "list" => now[w] <= clock'
      BY <1>1 DEF Steady
    <2>1. \A t \in Timers : next[t] <= clock + ms[t] /\ ms[t] \in Nat /\ next[t] \in Nat
      BY <1>t DEF Steady
    <2>2. \A w \in Workers : now[w] \in Nat /\ (wpc[w] = "list" => now[w] <= clock)
      BY <1>t DEF Steady
    <2> QED
      BY <1>t, <1>1, <2>1, <2>2
  <1>4. ASSUME NEW w \in Workers, InTime(w), timers # {}
        PROVE  InTime(w)'
    <2> DEFINE n == FirstDue(timers, next)
    <2>1. n \in Nat
      BY <1>4, <1>t, FirstDueIs
    <2>2. InTime(w) <=> remaining[w] = 0 \/ clock + remaining[w] <= n
      BY DEF InTime
    <2>3. InTime(w)' <=> remaining'[w] = 0 \/ clock' + remaining'[w] <= n
      BY <1>1 DEF InTime
    <2> HIDE DEF n
    <2>4. remaining[w] \in Nat /\ remaining'[w] = IF remaining[w] > 0 THEN remaining[w] - 1 ELSE 0
      BY <1>t, <1>1
    <2> QED
      BY <1>4, <1>t, <1>1, <2>1, <2>2, <2>3, <2>4
  <1>5. Watched'
    <2>1. world.workers \subseteq Workers
      BY WorldsAssumption DEF Staff
    <2> QED
      BY <1>1, <1>4, <2>1 DEF Watched
  <1> QED
    BY <1>2, <1>3, <1>5

LEMMA VigilantNext == Typing /\ Typing' /\ Vigilant /\ [Next]_vars => Vigilant'
  <1> SUFFICES ASSUME Typing, Typing', Vigilant, [Next]_vars PROVE Vigilant'
    OBVIOUS
  <1>1. CASE Jump
    <2>1. jumps' > 0 /\ UNCHANGED <<world, op, wpc, posted, tickled>>
      BY <1>1 DEF Jump, Typing, TypeOK, workerVars
    <2> QED
      BY <2>1 DEF Vigilant, Staff, Steady, TickleSeen, Watched
  <1>2. CASE UNCHANGED vars
    BY <1>2 DEF vars, Vigilant, Staff, Steady, TickleSeen, Watched, InTime
  <1> QED
    BY <1>1, <1>2, CallerKeepsVigilant, WorkerKeepsVigilant, TickKeepsVigilant DEF Next

(* For every set of timers, callers and workers, and whatever is cancelled,
   refreshed and reset meanwhile: when all workers wait, and nobody is about
   to notify them, the first timer is not overslept, although a caller that
   finds m_tickled set leaves the notification to another one. The clock must
   not have been set back. *)
THEOREM FirstIsWatched == Spec => []NoOversleep
  <1>1. Vigilant => NoOversleep
    BY DEF Vigilant, Watched, InTime, NoOversleep
  <1> QED
    BY <1>1, TypingHolds, VigilantInit, VigilantNext, PTL DEF Spec
=============================================================================
