--------------------------- MODULE MCPlayerWorlds ---------------------------
(***************************************************************************)
(* PlayerWorlds with two players, the name of one the beginning of that of *)
(* the other.                                                              *)
(***************************************************************************)
EXTENDS PlayerWorlds

CONSTANTS p1, p2

Prefix == {<<p1, p2>>}
=============================================================================
