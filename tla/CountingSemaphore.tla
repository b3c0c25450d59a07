-------------------------- MODULE CountingSemaphore --------------------------
(***************************************************************************)
(* What a FiberSemaphore promises (mutex.h:42-68): permits that clients    *)
(* take one at a time, waiting while there is none. A permit is neither    *)
(* lost nor given twice, and with a permit there a waiting client goes on. *)
(***************************************************************************)
EXTENDS Integers, FiniteSets

CONSTANTS Clients, Initial

VARIABLES permits, waiting

vars == <<permits, waiting>>

Init == permits = Initial /\ waiting = {}

(* A client asks, and goes on later ... *)
Arrive(c) ==
    /\ c \notin waiting
    /\ waiting' = waiting \cup {c}
    /\ UNCHANGED permits

Pass(c) ==
    /\ c \in waiting
    /\ permits > 0
    /\ permits' = permits - 1
    /\ waiting' = waiting \ {c}

(* ... or takes a permit at once. *)
Take(c) ==
    /\ c \notin waiting
    /\ permits > 0
    /\ permits' = permits - 1
    /\ UNCHANGED waiting

Signal ==
    /\ permits' = permits + 1
    /\ UNCHANGED waiting

(* A broadcast gives at most one permit to each waiting client. *)
SignalAll ==
    /\ \E k \in 1..Cardinality(waiting) : permits' = permits + k
    /\ UNCHANGED waiting

(* A reset takes away permits that nobody has been promised. *)
Drain ==
    /\ permits' \in 0..permits
    /\ UNCHANGED waiting

Next ==
    \/ \E c \in Clients : Arrive(c) \/ Pass(c) \/ Take(c)
    \/ Signal \/ SignalAll \/ Drain

Spec == Init /\ [][Next]_vars

FairSpec == Spec /\ WF_vars(\E c \in Clients : Pass(c))
=============================================================================
