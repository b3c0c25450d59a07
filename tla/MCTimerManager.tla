--------------------------- MODULE MCTimerManager ---------------------------
(* TimerManager for TLC. *)
EXTENDS TimerManager

CONSTANTS c1, c2, w1, w2

World(C, W, uses, n) == [callers |-> C, workers |-> W, uses |-> uses, jumps |-> n]

All == {"cancel", "refresh", "reset"}

(* Workers with stale readings of the clock; callers that race for the same
   timers; a clock that is set back. *)
TheWorlds ==
    {World({c1}, {w1, w2}, All, 0), World({c1, c2}, {w1}, All, 0),
     World({c1}, {w1}, {"refresh"}, 1)}
=============================================================================
