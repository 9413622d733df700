----------------------------- MODULE Transcoder -----------------------------
(***************************************************************************)
(* Transcoder.java: the bytes of a slot as a piece of dyed leather armour, *)
(* and back.  The first byte gives the piece and its amount, three bytes   *)
(* its colour, and each enchantment has a level of two bytes.  A server    *)
(* that does not know the id of an enchantment has null for it, and the    *)
(* enchantment is passed over.  What every module has is named for the     *)
(* slot here, since PluginProofs is about this module and about Plugin.    *)
(***************************************************************************)
EXTENDS Integers, Sequences, FiniteSets

CONSTANTS
  Enchants,   \* the enchantments used, numbered from 1; the code has 25
  Inputs      \* what encodeItemStack is given

ASSUME TranscoderAssumption ==
  Enchants \in Nat /\ Inputs \subseteq Seq(-128 .. 127)

VARIABLES
  bytes,    \* the argument of encodeItemStack
  known,    \* the enchantments this server knows
  pc,       \* start, encoding, encoded, decoding, decoded, or null
  next,     \* the enchantment handleEnchants comes to next
  item,     \* the ItemStack
  out       \* what decodeItemStack has added to its list

slotVars == <<bytes, known, pc, next, item, out>>

BYTES_PER_SLOT == 4 + 2 * Enchants

Byte == -128 .. 127

\* (byte) n
AsByte(n) == ((n + 128) % 256) - 128

Item == [material : {"LEATHER_CHESTPLATE", "LEATHER_LEGGINGS"}, amount : Byte,
         color : [1 .. 3 -> 0 .. 255], level : [1 .. Enchants -> Int]]

NoItem == [material |-> "LEATHER_CHESTPLATE", amount |-> 1,
           color |-> [i \in 1 .. 3 |-> 0], level |-> [e \in 1 .. Enchants |-> 0]]

SlotTypeOK ==
  /\ bytes \in Seq(Byte) /\ known \subseteq 1 .. Enchants
  /\ pc \in {"start", "encoding", "encoded", "decoding", "decoded", "null"}
  /\ next \in 1 .. Enchants + 1 /\ item \in Item /\ out \in Seq(Byte)

SlotInit ==
  /\ bytes \in Inputs /\ known \in SUBSET (1 .. Enchants)
  /\ pc = "start" /\ next = 1 /\ item = NoItem /\ out = <<>>
-----------------------------------------------------------------------------
\* The piece and the amount in the first byte: first & 0x01, first | 0x01.
Material(first) == IF first % 2 = 0 THEN "LEATHER_CHESTPLATE" ELSE "LEATHER_LEGGINGS"
Amount(first) == IF first % 2 = 0 THEN first + 1 ELSE first

\* The first byte of a piece.
First(material, amount) ==
  AsByte(2 * (amount \div 2) + (IF material = "LEATHER_CHESTPLATE" THEN 0 ELSE 1))

\* Mutant of Level: the low byte is not masked, and its sign covers the high one.
LevelSigned(high, low) == IF low < 0 THEN low ELSE 256 * high + low

\* (high << 8) | (low & 0x00FF)
Level(high, low) == (256 * high) + (low % 256)

\* Mutant of Encode: the bytes of the colour are not masked.
EncodeSigned ==
  /\ pc = "start"
  /\ IF Len(bytes) # BYTES_PER_SLOT
       THEN pc' = "null" /\ UNCHANGED item
       ELSE /\ pc' = "encoding"
            /\ item' = [NoItem EXCEPT !.material = Material(bytes[1]),
                                      !.amount = Amount(bytes[1]),
                                      !.color = [i \in 1 .. 3 |-> bytes[i + 1]]]
  /\ UNCHANGED <<bytes, known, next, out>>

\* encodeItemStack(bytes) up to handleEnchants.
Encode ==
  /\ pc = "start"
  /\ IF Len(bytes) # BYTES_PER_SLOT
       THEN pc' = "null" /\ UNCHANGED item
       ELSE /\ pc' = "encoding"
            /\ item' = [NoItem EXCEPT !.material = Material(bytes[1]),
                                      !.amount = Amount(bytes[1]),
                                      !.color = [i \in 1 .. 3 |-> bytes[i + 1] % 256]]
  /\ UNCHANGED <<bytes, known, next, out>>

\* handleEnchants(true, ...): one call of applyEnchant, and the return.
EncodeEnchant ==
  /\ pc = "encoding" /\ next <= Enchants /\ next' = next + 1
  /\ item' = IF next \in known
               THEN [item EXCEPT !.level[next] = Level(bytes[3 + 2 * next], bytes[4 + 2 * next])]
               ELSE item
  /\ UNCHANGED <<bytes, known, pc, out>>
Encoded ==
  /\ pc = "encoding" /\ next = Enchants + 1 /\ pc' = "encoded"
  /\ UNCHANGED <<bytes, known, next, item, out>>

\* decodeItemStack(item) up to handleEnchants.
Decode ==
  /\ pc = "encoded" /\ pc' = "decoding" /\ next' = 1
  /\ out' = <<First(item.material, item.amount), AsByte(item.color[1]),
              AsByte(item.color[2]), AsByte(item.color[3])>>
  /\ UNCHANGED <<bytes, known, item>>

\* Mutant of DecodeEnchant: the low byte goes first.
DecodeSwapped ==
  /\ pc = "decoding" /\ next <= Enchants /\ next' = next + 1
  /\ out' = IF next \in known
              THEN out \o <<AsByte(item.level[next] % 256),
                            AsByte((item.level[next] \div 256) % 256)>>
              ELSE out
  /\ UNCHANGED <<bytes, known, pc, item>>

\* handleEnchants(false, ...)
DecodeEnchant ==
  /\ pc = "decoding" /\ next <= Enchants /\ next' = next + 1
  /\ out' = IF next \in known
              THEN out \o <<AsByte((item.level[next] \div 256) % 256),
                            AsByte(item.level[next] % 256)>>
              ELSE out
  /\ UNCHANGED <<bytes, known, pc, item>>
Decoded ==
  /\ pc = "decoding" /\ next = Enchants + 1 /\ pc' = "decoded"
  /\ UNCHANGED <<bytes, known, next, item, out>>

SlotNext == Encode \/ EncodeEnchant \/ Encoded \/ Decode \/ DecodeEnchant \/ Decoded

SlotSpec == SlotInit /\ [][SlotNext]_slotVars
-----------------------------------------------------------------------------
\* How many enchantments up to e the server knows.
Rank(e) == Cardinality(known \cap 1 .. e)

Decoding == pc \in {"decoding", "decoded"}

\* A server that knows every enchantment decodes the bytes it has encoded, for
\* every byte: signs, colours above 127 and levels of any sign included.
RoundTrip == pc = "decoded" /\ known = 1 .. Enchants => out = bytes

\* On any server the bytes of the enchantments it knows survive, in their order,
\* and those of the others are missing: the rest moves up, so that what it decodes
\* is too short to be encoded again.
KnownKept == Decoding =>
  /\ Len(out) = 4 + 2 * Rank(next - 1)
  /\ \A i \in 1 .. 4 : out[i] = bytes[i]
  /\ \A e \in known : e < next =>
       /\ out[3 + 2 * Rank(e)] = bytes[3 + 2 * e]
       /\ out[4 + 2 * Rank(e)] = bytes[4 + 2 * e]
-----------------------------------------------------------------------------
(* The inductive invariant behind them *)

\* The piece holds the first four bytes, and the levels assigned so far.
ItemInv == pc \in {"encoding", "encoded"} \/ Decoding =>
  /\ Len(bytes) = BYTES_PER_SLOT
  /\ item.material = Material(bytes[1]) /\ item.amount = Amount(bytes[1])
  /\ \A i \in 1 .. 3 : item.color[i] = bytes[i + 1] % 256
  /\ \A e \in known : e < next \/ pc # "encoding" =>
       item.level[e] = Level(bytes[3 + 2 * e], bytes[4 + 2 * e])

NextInv == (pc = "start" => next = 1) /\ (pc \in {"encoded", "decoded"} => next = Enchants + 1)

SlotInv == SlotTypeOK /\ ItemInv /\ NextInv /\ KnownKept
=============================================================================
