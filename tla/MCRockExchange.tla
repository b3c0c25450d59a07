---------------------------- MODULE MCRockExchange ----------------------------
(* Bytes of 2 bits, nodes of 8 bytes. A request has 13 bytes and the text, a  *)
(* response 21: the long text's response ends with a node. Neither side       *)
(* compresses, the server does, the client does, and the server refuses the   *)
(* longer request and takes the other.                                        *)
EXTENDS RockExchange

SomeTexts == {<<1>>, <<2, 3, 3>>}

SomeLimits ==
    {[server |-> a, client |-> b] : <<a, b>> \in {<<50, 50>>, <<20, 50>>, <<50, 10>>, <<15, 50>>}}
=============================================================================
