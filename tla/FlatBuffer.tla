------------------------------ MODULE FlatBuffer ------------------------------
(***************************************************************************)
(* What a ByteArray promises its users: a file of bytes with a position.   *)
(* Nodes, capacity and the current node are nothing a user can tell.       *)
(***************************************************************************)
EXTENDS Integers, Sequences

VARIABLES
    bytes,    \* the bytes written, or passed over
    pos,      \* where the next operation begins
    answer    \* what the last operation gave: how it ended, and bytes

vars == <<bytes, pos, answer>>

Ok(s) == [how |-> "ok", out |-> s]

Init == bytes = <<>> /\ pos = 0 /\ answer = Ok(<<>>)

(* Bytes replace those from the position on and lengthen the file.         *)
Put(s) ==
    /\ pos' = pos + Len(s)
    /\ Len(bytes') = IF pos + Len(s) > Len(bytes) THEN pos + Len(s) ELSE Len(bytes)
    /\ \A i \in DOMAIN bytes' :
            bytes'[i] = IF i > pos /\ i <= pos + Len(s) THEN s[i - pos] ELSE bytes[i]
    /\ answer' = Ok(<<>>)

(* The n bytes at the position, which moves behind them.                   *)
Get(n) ==
    /\ pos + n <= Len(bytes)
    /\ pos' = pos + n
    /\ answer' = Ok(SubSeq(bytes, pos + 1, pos + n))
    /\ UNCHANGED bytes

(* The same without moving: toString(). *)
Look(n) ==
    /\ pos + n <= Len(bytes)
    /\ answer' = Ok(SubSeq(bytes, pos + 1, pos + n))
    /\ UNCHANGED <<bytes, pos>>

(* The position goes to v, and what lies between the end and v counts as   *)
(* written, whatever it is.                                                *)
Move(v) ==
    /\ pos' = v
    /\ Len(bytes') = IF v > Len(bytes) THEN v ELSE Len(bytes)
    /\ SubSeq(bytes', 1, Len(bytes)) = bytes
    /\ answer' = Ok(<<>>)

Wipe == bytes' = <<>> /\ pos' = 0 /\ answer' = Ok(<<>>)

(* More is wanted than there is: an exception, and nothing changes.        *)
Refuse ==
    /\ answer' = [how |-> "throws", out |-> <<>>]
    /\ UNCHANGED <<bytes, pos>>

(* Reading no bytes at the end of all of them may end the program.         *)
Fault ==
    /\ pos = Len(bytes)
    /\ answer' = [how |-> "faults", out |-> <<>>]
    /\ UNCHANGED <<bytes, pos>>

CONSTANTS Strings, Most

Next ==
    \/ \E s \in Strings : Put(s)
    \/ \E n \in 0..Most : Get(n) \/ Look(n) \/ Move(n)
    \/ Wipe \/ Refuse \/ Fault

Spec == Init /\ [][Next]_vars
=============================================================================
