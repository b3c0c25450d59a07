----------------------------- MODULE MCIOManager -----------------------------
(* IOManager for TLC. Nothing in it orders fibers, addresses, descriptors or
   workers; the worlds name all descriptors or none. *)
EXTENDS IOManager, TLC

World(env, warm) == [env |-> env, warm |-> warm]

(* Timeouts and cancellations; sockets that are closed and used again; timeouts and
   closes; errors; and nothing of this. *)
TheWorlds == {World({"timeout", "early", "cancel", "shared"}, {}),
              World({"immediate", "early", "close", "shared"}, {}),
              World({"timeout", "close"}, Handles),
              World({"timeout", "early", "cancel", "error"}, Handles),
              World({"immediate"}, Handles)}

(* A completion that overtakes the registration. *)
Overtaking == {World({"early"}, Handles)}

Alike == Permutations(Fibers) \cup Permutations(Contexts) \cup Permutations(Workers)
         \cup Permutations(Handles)
=============================================================================
