---------------------------- MODULE MCTranscoder ----------------------------
(***************************************************************************)
(* Transcoder with two enchantments, on slots of bytes of either sign and  *)
(* on a list that is too short.                                            *)
(***************************************************************************)
EXTENDS Transcoder

\* An even and an odd byte of either sign; 2 * Enchants + 4 of them are a slot.
Samples == {-128, -1, 6}
Slots == [1 .. 8 -> Samples] \cup {<<1, 2>>}
=============================================================================
