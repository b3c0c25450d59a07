--------------------------- MODULE RequestPromise ----------------------------
(***************************************************************************)
(* What RockStream::request promises a caller: the call comes back once,   *)
(* from being woken once, and what it reports really happened before: its  *)
(* response came ("ok"), its timer ran out ("timeout") or the connection   *)
(* was closed under it ("io_error"). A call on a stream that is not        *)
(* connected comes back at once ("not_connect").                           *)
(***************************************************************************)
CONSTANT Calls

VARIABLES
    phase,      \* of each call: "idle", "waiting", "woken" or "returned"
    causes,     \* what has happened to each call
    reported    \* what each call has returned

vars == <<phase, causes, reported>>

Endings == {"ok", "timeout", "io_error"}

Init ==
    /\ phase = [c \in Calls |-> "idle"]
    /\ causes = [c \in Calls |-> {}]
    /\ reported = [c \in Calls |-> "nothing"]

Ask(c) ==
    /\ phase[c] = "idle"
    /\ phase' = [phase EXCEPT ![c] = "waiting"]
    /\ UNCHANGED <<causes, reported>>

Refuse(c) ==
    /\ phase[c] = "idle"
    /\ phase' = [phase EXCEPT ![c] = "returned"]
    /\ reported' = [reported EXCEPT ![c] = "not_connect"]
    /\ UNCHANGED causes

(* A cause may be added until the call has come back, and later as well:   *)
(* the others do not know that it has.                                     *)
Happen(c, e) ==
    /\ phase[c] # "idle"
    /\ causes' = [causes EXCEPT ![c] = @ \cup {e}]
    /\ UNCHANGED <<phase, reported>>

Wake(c) ==
    /\ phase[c] = "waiting"
    /\ causes[c] # {}
    /\ phase' = [phase EXCEPT ![c] = "woken"]
    /\ UNCHANGED <<causes, reported>>

Return(c) ==
    /\ phase[c] = "woken"
    /\ \E e \in causes[c] : reported' = [reported EXCEPT ![c] = e]
    /\ phase' = [phase EXCEPT ![c] = "returned"]
    /\ UNCHANGED causes

Next ==
    \E c \in Calls :
        \/ Ask(c) \/ Refuse(c) \/ Wake(c) \/ Return(c)
        \/ \E e \in Endings : Happen(c, e)

Spec == Init /\ [][Next]_vars
=============================================================================
