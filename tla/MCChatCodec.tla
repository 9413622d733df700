---------------------------- MODULE MCChatCodec ----------------------------
(***************************************************************************)
(* ChatCodec on every text of at most four characters, cut after every     *)
(* third.                                                                  *)
(***************************************************************************)
EXTENDS ChatCodec

Texts == UNION {[1 .. n -> Chars] : n \in 0 .. 4}
=============================================================================
