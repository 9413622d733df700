--------------------------- MODULE MCPacketReader ---------------------------
(***************************************************************************)
(* PacketReader on small instances: bytes of three bits, the packets of    *)
(* every entry of the table with sample values.                            *)
(***************************************************************************)
EXTENDS PacketReader

Top == 2 * Group - 1

\* Sample values of each type: the first is the one the other fields have.
SampleValues(type) ==
  CASE type \in DOMAIN Width ->
         <<[i \in 1 .. Width[type] |-> 1], [i \in 1 .. Width[type] |-> (i + 4) % 8]>>
    [] type = "VarInt" -> <<<<1>>, <<0>>, <<Group>>, <<1023>>>>
    [] type = "String" -> <<<<1>>, <<>>, <<2, Top, Group>>>>
    [] type = "VarIntPrefixedByteArray" -> <<<<1>>, <<Top, 0, Top>>>>
    [] type = "NBT" -> <<<<0>>>>
    [] type = "Slot" -> <<<<Top, Top>>, <<1, 2, 1, 0, 0, 0>>>>
    [] type = "SlotArray" -> <<<<>>, <<<<Top, Top>>>>, <<<<Top, Top>>, <<1, 2, 1, 0, 0, 0>>>>>>
    [] type = "TripleByteArray" -> <<<<>>, <<<<1, Top, 3>>, <<Group, 0, 1>>>>>>
    [] type = "RecordArray" -> <<<<>>, <<<<1, Top, Group>>, <<0, 0, 0>>>>>>
    [] OTHER -> <<<<1>>>>

\* The values of a packet: the k-th of every field, from the first again after the
\* last.
SampleRows(fields) ==
  {[i \in DOMAIN fields |->
      LET values == SampleValues(fields[i]) IN values[(k % Len(values)) + 1]] : k \in 0 .. 3}

\* A packet as it is defined, one with bytes after its last field, and one without
\* its last byte.
Exact(id, row) == [id |-> id, payload |-> Payload(id, PlayFields(id), row),
                   values |-> row, whole |-> TRUE]
Longer(id, row) == [Exact(id, row) EXCEPT !.payload = @ \o <<Top, 1>>]
Shorter(id, row) == [Exact(id, row) EXCEPT !.payload = Front(@), !.whole = FALSE]

Forms(id) ==
  LET rows == SampleRows(PlayFields(id))
      plain == CHOOSE r \in rows : TRUE
  IN  {Exact(id, r) : r \in rows} \cup {Longer(id, plain)}
        \cup IF PlayFields(id) = <<>> THEN {} ELSE {Shorter(id, r) : r \in rows}

\* Every packet of the table, and one it does not know; and those with which the
\* thread does more than to read them.
AllSamples == [id \in 0 .. Len(PlayingClientbound) |-> Forms(id)]
CoreSamples == [id \in {KeepAlive, ChatMessage, EntityEffect} |->
  {Exact(id, CASE id = KeepAlive -> <<<<1023>>>>
               [] id = ChatMessage -> <<<<2, 2, 2, 2>>, <<1>>>>
               [] OTHER -> <<<<1>>, <<1>>, <<1>>, <<1>>, <<1>>>>)}]

\* Chats shorter than the thresholds, one much longer, and one that is not ASCII.
ShortAndLong == {<<>>, [i \in 1 .. 30 |-> 1], <<Group>>}

\* Listeners for chat messages, which go to print_chat, for keep alives and for all.
Selected == {<<ChatMessage>>, <<KeepAlive>>}
Listening == {<<ChatMessage>>, <<KeepAlive, ChatMessage>>, <<Base>>}

Common(p) ==
  p.id \in DOMAIN CoreSamples /\ \E s \in CoreSamples[p.id] : s.payload = p.payload

\* Bounds: a client that gets one of AllSamples does nothing else, one that registers
\* listeners writes no chats and has a server that does not compress; both get three
\* packets in clear.
Listeners == registering.busy \/ packet_listeners # <<>>
Focus ==
  /\ (\E k \in DOMAIN pushed : pushed[k].table = "play" /\ ~Common(pushed[k]))
       => Len(pushed) <= 3 /\ sealing = Clear /\ chats = 0 /\ ~Listeners
  /\ Listeners => Len(pushed) <= 3 /\ sealing = Clear /\ chats = 0 /\ sets = Off
=============================================================================
