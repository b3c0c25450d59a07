----------------------------- MODULE EchoService -----------------------------
(***************************************************************************)
(* What the Rock server and its client are for (rock_server.cpp:27-30,     *)
(* client main.cpp): the client prints each text as it was typed, one at a *)
(* time, until it ends.                                                    *)
(***************************************************************************)
EXTENDS Sequences

CONSTANT Texts

VARIABLES
    typed,     \* what was typed, in order
    printed,   \* what was printed
    ended      \* the client is no more

vars == <<typed, printed, ended>>

Init == typed = <<>> /\ printed = <<>> /\ ended = FALSE

Type(t) ==
    /\ ~ended
    /\ printed = typed
    /\ typed' = Append(typed, t)
    /\ UNCHANGED <<printed, ended>>

Show ==
    /\ ~ended
    /\ printed # typed
    /\ printed' = typed
    /\ UNCHANGED <<typed, ended>>

End ==
    /\ ended' = TRUE
    /\ UNCHANGED <<typed, printed>>

Next == (\E t \in Texts : Type(t)) \/ Show \/ End

Spec == Init /\ [][Next]_vars
=============================================================================
