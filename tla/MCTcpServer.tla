---------------------------- MODULE MCTcpServer ----------------------------
(* TcpServer for TLC. *)
EXTENDS TcpServer

CONSTANTS p1, p2

World(manners, peers, errors, limit, b, n, s) ==
    [manners |-> manners, peers |-> peers, errors |-> errors, limit |-> limit, binds |-> b,
     loops |-> n, stops |-> s]

(* One server life with more clients than descriptors, two lives of an orderly
   owner, accepts that fail, owners who bind, stop and start as they like, and one who stops the
   server again while it is being stopped. *)
TheWorlds ==
    {World("orderly", {p1, p2}, FALSE, 2, 1, 1, 1), World("orderly", {p1}, FALSE, 3, 2, 2, 1),
     World("orderly", {p1}, TRUE, 2, 1, 1, 1),
     World("hasty", {}, FALSE, 3, 1, 2, 1), World("hasty", {}, FALSE, 3, 2, 1, 1),
     World("hasty", {}, FALSE, 2, 1, 1, 2)}
=============================================================================
