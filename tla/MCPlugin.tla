------------------------------ MODULE MCPlugin ------------------------------
(***************************************************************************)
(* Plugin with two players, the name of one the beginning of that of the   *)
(* other.                                                                  *)
(***************************************************************************)
EXTENDS Plugin

CONSTANTS p1, p2

Prefix == {<<p1, p2>>}

\* Bounds: either nobody types /j, /k or /l ...
OnlyWorlds == chunks = 0 /\ playerAddresses = {} /\ queues = <<>>

\* ... or a player has the permission, and a world, as an operator only, and no world
\* is refused to be made, unloaded or deleted.
OnlyRequests ==
  config = {} /\ revoked = {} /\ failed = {} /\ left = {}
  /\ (loaded = folders \/ restarts > 0)

\* One player at a time is an operator or, when none is and before any restart, has
\* typed /k, and one only logs in more than once.
Focus ==
  /\ OnlyWorlds \/ OnlyRequests
  /\ \A p, q \in op \cup playerAddresses : p = q
  /\ playerAddresses = {} \/ (op = {} /\ restarts = 0)
  /\ \A p, q \in Players : session[p] > 1 /\ session[q] > 1 => p = q
=============================================================================
