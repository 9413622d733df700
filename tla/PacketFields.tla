---------------------------- MODULE PacketFields ----------------------------
(***************************************************************************)
(* The field types of types.py, and Packet.read and the first half of      *)
(* Packet.write (packets.py), which go through the fields of a packet.     *)
(* Types have the names they have in the source.  A value is a sequence:   *)
(* the bytes struct unpacks, those of a text, one number, or the elements  *)
(* of an array.  What a read gives is whether it returned, the value and   *)
(* the bytes that are left.                                                *)
(***************************************************************************)
EXTENDS VarInt, SequencesExt

CONSTANT HasNbt   \* whether the module nbt has the NBTFILE the code calls

ASSUME FieldsAssumption == HasNbt \in BOOLEAN

Width == [Boolean |-> 1, UnsignedByte |-> 1, Byte |-> 1, Short |-> 2,
          UnsignedShort |-> 2, Integer |-> 4, Float |-> 4, Long |-> 8,
          Double |-> 8, UUID |-> 8]

\* A field that is a set by a slip, {'name', type} for {'name': type}.
NoDict == "set"

Took(n, s) == SubSeq(s, 1, IF n < Len(s) THEN n ELSE Len(s))
Left(n, s) == SubSeq(s, n + 1, Len(s))

Got(value, rest) == [ok |-> TRUE, value |-> value, rest |-> rest]
Raised(rest) == [ok |-> FALSE, value |-> <<>>, rest |-> rest]

\* Mutant of Signed: struct.unpack('>H'), struct.unpack('>I').
SignedNever(s) == FoldLeft(LAMBDA n, b : 2 * Group * n + b, 0, s)

\* struct.unpack('>h'), struct.unpack('>i'): the number big-endian bytes make.
Signed(s) ==
  LET top == FoldLeft(LAMBDA n, b : 2 * Group * n, 1, s) IN
  FoldLeft(LAMBDA n, b : 2 * Group * n + b, 0, s) - IF s[1] < Group THEN 0 ELSE top

\* str.decode("utf-8") succeeds: bytes that begin a character of two are followed,
\* as no other is, by one that ends it.
Utf8(s) ==
  LET begins(i) == i \in DOMAIN s /\ s[i] >= Group + Group \div 2
      ends(i) == i \in DOMAIN s /\ s[i] >= Group /\ ~begins(i)
  IN  \A i \in 0 .. Len(s) : begins(i) <=> ends(i + 1)
-----------------------------------------------------------------------------
(* Reading *)

\* file_object.read returns what there is; struct.unpack raises on less.
ReadFixed(n, s) == IF Len(s) < n THEN Raised(<<>>) ELSE Got(Took(n, s), Left(n, s))

ReadVarInt(s) ==
  IF Whole(s) THEN Got(<<Received(s)>>, Left(Used(s), s)) ELSE Raised(<<>>)

\* String.read decodes what there is, even if it is less than the length says.
ReadString(s) ==
  LET n == ReadVarInt(s)
      text == Took(n.value[1], n.rest)
  IN  IF ~n.ok THEN n
      ELSE IF Utf8(text) THEN Got(text, Left(n.value[1], n.rest))
      ELSE Raised(Left(n.value[1], n.rest))

ReadBytes(s) ==
  LET n == ReadVarInt(s) IN IF n.ok THEN ReadFixed(n.value[1], n.rest) ELSE n

\* nbt.NBTFILE(fileobj): one byte stands for the tag.
ReadNbt(s) == IF HasNbt THEN ReadFixed(1, s) ELSE Raised(s)

\* One read after another; the first that raises ends them.
Then(got, Op(_)) ==
  LET next == Op(got.rest) IN
  IF ~got.ok THEN got ELSE [next EXCEPT !.value = got.value \o @]

\* -1 for a block is an empty slot; else count, damage and a tag follow.
ReadSlot(s) ==
  LET block == ReadFixed(2, s) IN
  IF ~block.ok \/ Signed(block.value) = -1 THEN block
  ELSE Then(Then(block, LAMBDA r : ReadFixed(3, r)), ReadNbt)

ReadRecord(s) == Then(ReadFixed(2, s), ReadVarInt)

\* for x in range(0, count)
ReadTimes(n, Op(_), s) ==
  FoldLeft(LAMBDA got, x : Then(got, LAMBDA r : LET one == Op(r) IN
                                       [one EXCEPT !.value = <<one.value>>]),
           Got(<<>>, s), [x \in 1 .. n |-> x])

Read(type, s) ==
  LET short == ReadFixed(2, s)
      int == ReadFixed(4, s)
      count == ReadVarInt(s)
  IN
  CASE type \in DOMAIN Width -> ReadFixed(Width[type], s)
    [] type = "VarInt" -> ReadVarInt(s)
    [] type = "String" -> ReadString(s)
    [] type = "VarIntPrefixedByteArray" -> ReadBytes(s)
    [] type = "NBT" -> ReadNbt(s)
    [] type = "Slot" -> ReadSlot(s)
    [] type = "SlotArray" ->
         IF short.ok THEN ReadTimes(Signed(short.value), ReadSlot, short.rest) ELSE short
    [] type = "TripleByteArray" ->
         IF int.ok THEN ReadTimes(Signed(int.value), LAMBDA r : ReadFixed(3, r), int.rest)
         ELSE int
    [] type = "RecordArray" ->
         IF count.ok THEN ReadTimes(count.value[1], ReadRecord, count.rest) ELSE count

\* Packet.read: each field in its turn.  One that raises leaves its attribute
\* unset, and the next is read from where that one stopped.
ReadFields(fields, s) ==
  FoldLeft(LAMBDA got, type :
             LET one == Read(type, got.rest) IN
             [set |-> Append(got.set, [ok |-> one.ok, value |-> one.value]),
              rest |-> one.rest],
           [set |-> <<>>, rest |-> s], fields)
-----------------------------------------------------------------------------
(* Writing *)

\* A text that encode("utf-8") takes: the client has its texts as byte strings, which
\* Python 2 first decodes as ASCII, and raises for anything else.
Ascii(v) == \A i \in DOMAIN v : v[i] < Group

\* The bytes of a count as '>h' and '>i' pack it; the bounds keep it below Group.
Packed(width, n) == [i \in 1 .. width |-> IF i = width THEN n ELSE 0]

SendEach(Op(_), values) == FlattenSeq([i \in DOMAIN values |-> Op(values[i])])

\* What a field is sent as, if sending it does not raise.
Send(type, v) ==
  CASE type \in DOMAIN Width \cup {"NBT", "Slot", NoDict} -> v
    [] type = "VarInt" -> Sent(v[1])
    [] type \in {"String", "VarIntPrefixedByteArray"} -> Sent(Len(v)) \o v
    [] type = "SlotArray" -> Packed(2, Len(v)) \o FlattenSeq(v)
    [] type = "TripleByteArray" -> Packed(4, Len(v)) \o FlattenSeq(v)
    [] type = "RecordArray" ->
         Sent(Len(v)) \o SendEach(LAMBDA r : SubSeq(r, 1, 2) \o Sent(r[3]), v)

\* What a server may write in a field of a type: a block that is -1 has nothing behind
\* it, and no array has more elements than Packed can tell.
MinusOne == <<2 * Group - 1, 2 * Group - 1>>
IsSlot(v) ==
  v \in Seq(Octet) /\ (v = MinusOne \/ (Len(v) = 6 /\ SubSeq(v, 1, 2) # MinusOne))
Few(Is(_), v) == v \in Seq(Seq(Nat)) /\ Len(v) < Group /\ \A i \in DOMAIN v : Is(v[i])

Fits(type, v) ==
  CASE type \in DOMAIN Width -> v \in Seq(Octet) /\ Len(v) = Width[type]
    [] type = "VarInt" -> v \in Seq(VarInts) /\ Len(v) = 1
    [] type = "String" -> v \in Seq(Octet) /\ Len(v) \in VarInts /\ Utf8(v)
    [] type = "VarIntPrefixedByteArray" -> v \in Seq(Octet) /\ Len(v) \in VarInts
    [] type = NoDict -> v \in Seq(Octet)
    [] type = "NBT" -> v \in Seq(Octet) /\ Len(v) = 1
    [] type = "Slot" -> IsSlot(v)
    [] type = "SlotArray" -> Few(IsSlot, v)
    [] type = "TripleByteArray" -> Few(LAMBDA r : r \in Seq(Octet) /\ Len(r) = 3, v)
    [] type = "RecordArray" ->
         Few(LAMBDA r : Len(r) = 3 /\ {r[1], r[2]} \subseteq Octet /\ r[3] \in VarInts, v)

\* The payload of a packet: its id, then its fields.
Payload(id, fields, values) ==
  Sent(id) \o FlattenSeq([i \in DOMAIN fields |-> Send(fields[i], values[i])])
=============================================================================
