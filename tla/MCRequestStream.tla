-------------------------- MODULE MCRequestStream ----------------------------
(* Values of the constants of RequestStream for TLC.                       *)
EXTENDS RequestStream

CONSTANTS c1, c2, q, n

(* One call while the connection is lost, closed and made again; a call    *)
(* and its retry, and two calls at once, on a connection that lasts;       *)
(* messages of the peer.                                                   *)
OneCall == [object |-> [c \in {c1} |-> c], messages |-> {}, leaves |-> TRUE, closes |-> FALSE,
            starts |-> 2, sn |-> 0]
TwoTries == [object |-> [c \in {c1, c2} |-> c1], messages |-> {}, leaves |-> FALSE,
             closes |-> FALSE, starts |-> 1, sn |-> 1]
TwoCalls == [TwoTries EXCEPT !.object = [c \in {c1, c2} |-> c], !.sn = 0]
Messages == [object |-> [c \in {} |-> c1], messages |-> {q, n}, leaves |-> TRUE,
             closes |-> FALSE, starts |-> 2, sn |-> 0]

FirstTries == [TwoTries EXCEPT !.sn = 0]

AllWorlds == {OneCall, TwoTries, FirstTries, TwoCalls, Messages}
=============================================================================
