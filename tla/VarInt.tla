------------------------------- MODULE VarInt -------------------------------
(***************************************************************************)
(* The numbers of variable length of types.py: groups of seven bits, the   *)
(* low ones first, in bytes whose eighth bit says that more follow.  A     *)
(* reader takes five bytes at most.  The loop of VarInt.send ends for no   *)
(* negative number, which a shift never brings to 0, and sends more than   *)
(* five bytes from Group^5 on: VarInts are the numbers it is meant for.    *)
(***************************************************************************)
EXTENDS Integers, Sequences

CONSTANT Group   \* as many numbers as a group of bits can hold: 2^7 in the code

ASSUME VarIntAssumption == Group \in Nat /\ Group > 1

Octet == 0 .. 2 * Group - 1
VarInts == 0 .. Group * (Group * (Group * (Group * Group))) - 1

\* The value in the loop of VarInt.send: shifted right until nothing is left.
Shifted(v) ==
  LET a == v \div Group
      b == a \div Group
      c == b \div Group
  IN  <<v, a, b, c, c \div Group>>

Size(v) == CHOOSE n \in 1 .. 5 :
  /\ n = 5 \/ Shifted(v)[n + 1] = 0
  /\ \A m \in 1 .. n - 1 : Shifted(v)[m + 1] # 0

\* VarInt.send: the bytes of a number.
Sent(v) == [i \in 1 .. Size(v) |->
  (Shifted(v)[i] % Group) + (IF i < Size(v) THEN Group ELSE 0)]

\* A number begins s and is there to its last byte: read raises otherwise.
Whole(s) == \E i \in DOMAIN s : s[i] < Group \/ i = 5

\* The bytes read and read_socket take from s.
Used(s) == CHOOSE n \in 1 .. 5 :
  /\ n = 5 \/ s[n] < Group
  /\ \A m \in 1 .. n - 1 : s[m] >= Group

\* ... and the number they make of them.
Received(s) ==
  LET group(i) == IF i <= Used(s) THEN s[i] % Group ELSE 0 IN
  group(1) + Group * (group(2) + Group * (group(3) + Group * (group(4) + Group * group(5))))
=============================================================================
