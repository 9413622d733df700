---------------------------- MODULE PacketFraming ----------------------------
(***************************************************************************)
(* How a packet becomes bytes of the stream and back: the second half of   *)
(* Packet.write (packets.py) and PacketReactor.read_packet (connection.py) *)
(* between the bytes and the fields.                                       *)
(***************************************************************************)
EXTENDS PacketTables

\* compression_threshold is None: packets have no size of their own.
Off == -1

\* zlib (external), by run lengths: like the original it shortens what repeats,
\* lengthens what does not, and marks its end.
Compressed(s) ==
  LET last(z) == Len(z) - 1
      add(z, b) == IF z # <<>> /\ z[Len(z)] = b /\ z[last(z)] < 2 * Group - 1
                     THEN [z EXCEPT ![last(z)] = @ + 1] ELSE z \o <<1, b>>
  IN  Append(FoldLeft(add, <<>>, s), 0)

\* decompress raises on what has lost its end.
Decompressed(z) ==
  LET take(got, b) ==
        CASE got.ok -> got
          [] ~got.ok /\ got.times > 0 ->
               [got EXCEPT !.times = 0, !.value = @ \o [i \in 1 .. got.times |-> b]]
          [] ~got.ok /\ got.times = 0 -> [got EXCEPT !.times = b, !.ok = b = 0]
  IN  FoldLeft(take, [ok |-> FALSE, times |-> 0, value |-> <<>>], z)

\* A payload compressed, with its size before it, or as it is, after a 0.
Zipped(payload) == Sent(Len(payload)) \o Compressed(payload)
Plain(payload) == Sent(0) \o payload

Prefixed(s) == Sent(Len(s)) \o s

\* Mutant of Framed: payloads as long as the threshold and longer ones are sent as
\* they are.
FramedSwapped(payload, threshold) ==
  Prefixed(CASE threshold = Off -> payload
             [] threshold # Off /\ Len(payload) <= threshold -> Zipped(payload)
             [] OTHER -> Plain(payload))

\* Packet.write: a payload longer than the threshold is compressed.
Framed(payload, threshold) ==
  Prefixed(CASE threshold = Off -> payload
             [] threshold # Off /\ Len(payload) > threshold -> Zipped(payload)
             [] OTHER -> Plain(payload))

\* read_packet: the payload in the data of a packet.  A compressed one is read as
\* far as its size before compression says.
Unwrapped(data, enabled) ==
  LET size == ReadVarInt(data)
      zipped == Decompressed(Took(size.value[1], size.rest))
  IN  IF ~enabled THEN Got(data, <<>>)
      ELSE IF ~size.ok THEN size
      ELSE IF size.value[1] = 0 THEN Got(size.rest, <<>>)
      ELSE [ok |-> zipped.ok, value |-> zipped.value, rest |-> <<>>]

\* Mutant of Parsed: an id that is not in the table raises.
ParsedStrict(payload, table) ==
  LET id == ReadVarInt(payload)
      known == id.ok /\ id.value[1] < Len(ClientboundPackets[table])
      fields == ClientboundPackets[table][id.value[1] + 1]
  IN  IF known /\ \A i \in DOMAIN fields : fields[i] # NoDict
        THEN [ok |-> TRUE, packet |-> [table |-> table, id |-> id.value[1],
                                       set |-> ReadFields(fields, id.rest).set]]
        ELSE [ok |-> FALSE, packet |-> [table |-> table, id |-> -1, set |-> <<>>]]

\* ... and the packet in a payload, with the table of the reactor.  A packet it
\* does not know becomes a Packet without attributes.
Parsed(payload, table) ==
  LET id == ReadVarInt(payload)
      known == id.value[1] < Len(ClientboundPackets[table])
      fields == ClientboundPackets[table][id.value[1] + 1]
      base == [table |-> table, id |-> -1, set |-> <<>>]
  IN  IF ~id.ok THEN [ok |-> FALSE, packet |-> base]
      ELSE IF ~known THEN [ok |-> TRUE, packet |-> base]
      ELSE IF \E i \in DOMAIN fields : fields[i] = NoDict
        THEN [ok |-> FALSE, packet |-> base]
      ELSE [ok |-> TRUE,
            packet |-> [table |-> table, id |-> id.value[1],
                        set |-> ReadFields(fields, id.rest).set]]
=============================================================================
