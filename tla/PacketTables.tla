---------------------------- MODULE PacketTables ----------------------------
(***************************************************************************)
(* The packets of packets.py: the types of their fields, in the order of   *)
(* their definitions.  The table of a state of the protocol is a sequence: *)
(* its ids are 0, 1, 2 and so on, so that the packet with an id is the one *)
(* at id + 1.                                                              *)
(***************************************************************************)
EXTENDS PacketFields

LoginClientbound == <<
  <<"String">>, <<"String", "VarIntPrefixedByteArray", "VarIntPrefixedByteArray">>,
  <<"String", "String">>, <<"VarInt">>>>

\* 0x00 to 0x05: spawn object to spawn player.
Spawning == <<
  <<"VarInt", "UUID", "Byte", "Double", "Double", "Double", "UnsignedByte",
    "UnsignedByte", "Integer", "Short", "Short", "Short">>,
  <<"VarInt", "Double", "Double", "Double", "Short">>,
  <<"VarInt", "Byte", "Double", "Double", "Double">>,
  <<"VarInt", "UUID", "Byte", "Double", "Double", "Double", "UnsignedByte",
    "UnsignedByte", "UnsignedByte", "Short", "Short", "Short">>,
  <<"VarInt", "UUID", "String", "Long", "Byte">>,
  <<"VarInt", "UUID", "Double", "Double", "Double", "UnsignedByte",
    "UnsignedByte">>>>

\* 0x06 to 0x0C: animation clientbound to boss bar.
Blocks == <<
  <<"VarInt", "UnsignedByte">>, <<"VarIntPrefixedByteArray">>,
  <<"VarInt", "Long", "Byte">>, <<"Long", "UnsignedByte", "NBT">>,
  <<"Long", "UnsignedByte", "UnsignedByte", "VarInt">>, <<"Long", "VarInt">>,
  <<"UUID", "VarInt", "String">>>>

\* 0x0D to 0x18: server difficulty to plugin message clientbound.
Windows == <<
  <<"UnsignedByte">>, <<"VarInt", "String">>, <<"String", "Byte">>,
  <<"Integer", "Integer", "RecordArray">>, <<"Byte", "Short", "Boolean">>,
  <<"UnsignedByte">>,
  <<"UnsignedByte", "String", "String", "UnsignedByte", "Integer">>,
  <<"UnsignedByte", "SlotArray">>, <<"UnsignedByte", "Short", "Short">>,
  <<"Byte", "Short", "Slot">>, <<"VarInt", "VarInt">>, <<"String">>>>

\* 0x19 to 0x22: named sound effect to particle.
Effects == <<
  <<"String", "VarInt", "Integer", "Integer", "Integer", "Float", "UnsignedByte">>,
  <<"String">>, <<"Integer", "Byte">>,
  <<"Float", "Float", "Float", "Float", "TripleByteArray", "Float", "Float",
    "Float">>, <<"Integer", "Integer">>, <<"UnsignedByte", "Float">>, <<"VarInt">>,
  <<"Integer", "Integer", "Boolean", "VarInt", "VarIntPrefixedByteArray">>,
  <<"Integer", "Long", "Integer", "Boolean">>,
  <<"Integer", "Boolean", "Float", "Float", "Float", "Float", "Float", "Float",
    "Float", "Integer">>>>

\* 0x23 to 0x2E: join game to player position and look.
Moves == <<
  <<"Integer", "UnsignedByte", "Integer", "UnsignedByte", "UnsignedByte",
    "String", "Boolean">>,
  <<"VarInt", "Byte", "Boolean", "TripleByteArray", "Byte", "Byte", "Byte",
    "Byte", "VarInt">>, <<"VarInt", "Short", "Short", "Short", "Boolean">>,
  <<"VarInt", "Short", "Short", "Short", "UnsignedByte", "UnsignedByte",
    "Boolean">>, <<"VarInt", "UnsignedByte", "UnsignedByte", "Boolean">>,
  <<"VarInt">>, <<"Double", "Double", "Double", "Float", "Float">>, <<"Long">>,
  <<"Byte", "Float", "Float">>, <<"VarInt">>, <<"VarInt">>,
  <<"Double", "Double", "Double", "Float", "Float", "Byte", "VarInt">>>>

\* 0x2F to 0x3B: use bed to entity velocity.
Entities == <<
  <<"VarInt", "Long">>, <<>>, <<"VarInt", "Byte">>, <<"String", "String">>,
  <<"Integer", "UnsignedByte", "UnsignedByte", "String">>,
  <<"VarInt", "UnsignedByte">>, <<"VarInt">>, <<"VarInt">>, <<"Slot">>,
  <<"Byte", "String">>, <<"VarInt">>, <<"Integer", "Integer">>,
  <<"VarInt", "Short", "Short", "Short">>>>

\* 0x3C to 0x46: entity equipment to update sign clientbound.
Scores == <<
  <<"VarInt", "VarInt", "Slot">>, <<"Float", "VarInt", "VarInt">>,
  <<"Float", "VarInt", "Float">>, <<"String", "Byte", "String", "String">>,
  <<"VarInt">>, <<"String", "Byte">>, <<"String", "Byte", "String", "VarInt">>,
  <<"Long">>, <<"Long", "Long">>, <<"VarInt">>,
  <<"Long", "String", "String", "String", "String">>>>

\* 0x47 to 0x4C: sound effect to entity effect.
Others == <<
  <<"VarInt", "VarInt", "Integer", "Integer", "Integer", "Float", "UnsignedByte">>,
  <<"String", "String">>, <<"VarInt", "VarInt">>,
  <<"VarInt", "Double", "Double", "Double", "UnsignedByte", "UnsignedByte",
    "Boolean">>, <<"VarInt">>, <<"VarInt", "Byte", "Byte", "VarInt", NoDict>>>>

PlayingClientbound ==
  Spawning \o Blocks \o Windows \o Effects \o Moves \o Entities \o Scores \o Others

ClientboundPackets == [login |-> LoginClientbound, play |-> PlayingClientbound]

\* The packets the model tells apart, by id.
Disconnect == 0
LoginSuccess == 2
SetCompression == 3
ChatMessage == 15
DisconnectPlay == 26
KeepAlive == 31
PositionAndLook == 46
EntityEffect == 76

\* What the client writes in the play state.
ServerboundPackets == [
  teleport_confirm |-> [id |-> 0, fields |-> <<"VarInt">>],
  keep_alive |-> [id |-> 11, fields |-> <<"VarInt">>],
  chat |-> [id |-> 2, fields |-> <<"String">>],
  position_and_look |-> [id |-> 6, fields |-> <<"Double", "Double", "Double", "Float",
                                                "Float", "Boolean">>]]
=============================================================================
