---------------------------- MODULE PacketReader ----------------------------
(***************************************************************************)
(* The way of a packet through the networking thread, byte by byte: from   *)
(* the stream through read_packet, Packet.read, the reactor and the        *)
(* listeners, and the way of the answers through Packet.write.  Connection *)
(* has the threads, the locks and the settings; here is one thread in its  *)
(* rounds, from where encryption has begun or the server has decided to do *)
(* without, and the bytes.                                                 *)
(***************************************************************************)
EXTENDS PacketListeners

CONSTANTS
  Samples,     \* bound: by id, the packets a server may begin the play state with,
               \* to a client that waits and has neither listeners nor chats,
  Core,        \* ... and those it may send at any time
  Messages,    \* the chats the application may write
  Thresholds,  \* of compression, that the server may set
  MaxPushed, MaxChats  \* bounds: packets of the server, chats

\* What is sent is bytes, and so few that a number can precede them even when zlib makes
\* two of each.
Sendable(payload) == payload \in Seq(Octet) /\ 2 * Len(payload) + 6 \in VarInts

\* The fields of a packet of the play state; those of one the table lacks are not known.
PlayFields(id) == IF id < Len(PlayingClientbound) THEN PlayingClientbound[id + 1] ELSE <<>>

\* A packet of a server: its fields as they are defined, and whatever follows them, or
\* all but the last byte.
Described(id, s) ==
  LET fields == PlayFields(id)
      whole == Payload(id, fields, s.values)
  IN  /\ DOMAIN s.values = DOMAIN fields
      /\ \A i \in DOMAIN fields : Fits(fields[i], s.values[i])
      /\ IF s.whole THEN IsPrefix(whole, s.payload)
         ELSE fields # <<>> /\ s.payload = Front(whole)

ASSUME PacketAssumption ==
  /\ Thresholds \subseteq VarInts
  /\ \A samples \in {Samples, Core} : \A id \in DOMAIN samples : \A s \in samples[id] :
       id \in VarInts /\ s.whole \in BOOLEAN
       /\ s.payload # <<>> /\ Sendable(s.payload) /\ Described(id, s)
  /\ \A m \in Messages : m \in Seq(Octet) /\
       Sendable(Payload(ServerboundPackets.chat.id, ServerboundPackets.chat.fields, <<m>>))
  /\ Group > 2   \* the longest answer of the client can be sent, too

VARIABLES
  stage, sets,        \* the server: state of the protocol, threshold it has set
  sealing,            \* ... and its encryptor
  pushed, closed,     \* the packets it has sent; whether it has closed
  stream,             \* the bytes on their way to the client
  table, threshold,   \* the client: table of its reactor, compression_threshold
  encryptor, decryptor,
  pc, length, data,   \* program counter; length and data of a packet
  packet, taken, at,  \* the packet in hand, all of them, where among the listeners
  queue, written,     \* packets to write, and those written
  unsent,             \* the one that was taken from the queue and raised, if any
  chats, since        \* chats so far; packets taken when each listener was added

server == <<stage, sets, sealing, pushed, closed>>
client == <<table, decryptor, threshold, pc, length, data, packet, taken, at>>
writing == <<queue, written, unsent, encryptor, chats>>
vars == <<server, stream, client, writing, listening, since>>

Values == Seq(Seq(Nat))

TypeOK ==
  /\ stage \in {"login", "play", "kicked"} /\ sets \in Nat \cup {Off} /\ closed \in BOOLEAN
  /\ stream \in Seq(Octet) /\ data \in Seq(Octet)
  /\ table \in {"login", "play"} /\ threshold \in Nat \cup {Off}
  /\ pc \in {"waiting", "body", "parsing", "reacting", "listening",
             "lost", "spinning", "broken", "failed"}
  /\ {sealing, encryptor, decryptor} \subseteq Octet \cup {Clear}
  /\ length \in Nat /\ at \in Nat \X Nat /\ chats \in Nat
  /\ \A w \in Range(queue) \cup Range(written) \cup Range(unsent) :
       w.kind \in DOMAIN ServerboundPackets /\ w.values \in Values
  /\ \A w \in Range(written) : w.bytes \in Seq(Octet)
  /\ since \in Seq(Nat) /\ Len(since) = Len(packet_listeners)

NoPacket == [table |-> "login", id |-> Base, set |-> <<>>]

Init ==
  /\ stage = "login" /\ sets = Off /\ pushed = <<>> /\ closed = FALSE
  /\ stream = <<>> /\ sealing \in {Clear, Fresh}
  /\ encryptor = sealing /\ decryptor = sealing
  /\ table = "login" /\ threshold = Off
  /\ pc = "waiting" /\ length = 0 /\ data = <<>>
  /\ packet = NoPacket /\ taken = <<>> /\ at = <<1, 1>>
  /\ queue = <<>> /\ written = <<>> /\ unsent = <<>> /\ chats = 0
  /\ ListenersInit /\ since = <<>>
-----------------------------------------------------------------------------
(* The server (external) *)

\* A server compresses a payload that is as long as the threshold, too.
Zips(payload) == sets # Off /\ Len(payload) >= sets
ServerFramed(payload) ==
  Prefixed(IF Zips(payload) THEN Zipped(payload)
           ELSE IF sets = Off THEN payload ELSE Plain(payload))

\* The bytes of a packet cut off by the end of the connection: inside the length,
\* or right before the last one.
CutOff(s) == {SubSeq(s, 1, n) : n \in {1, Len(s) - 1}} \ {s}

Push(id, payload, values, whole) ==
  LET frame == Encrypted(ServerFramed(payload), sealing) IN
  /\ ~closed /\ Len(pushed) < MaxPushed
  /\ \E bytes \in {frame} \cup CutOff(frame) :
       /\ pushed' = Append(pushed, [table |-> stage, id |-> id, payload |-> payload,
                                    values |-> values, whole |-> whole,
                                    zipped |-> Zips(payload), bytes |-> bytes])
       /\ stream' = stream \o bytes /\ closed' = (bytes # frame)
       /\ sealing' = AfterByte(bytes, sealing)

PushLogin(id, values) ==
  Push(id, Payload(id, LoginClientbound[id + 1], values), values, TRUE)

ServerLogin ==
  /\ stage = "login"
  /\ \/ \E t \in Thresholds :
          /\ sets = Off /\ PushLogin(SetCompression, <<<<t>>>>)
          /\ sets' = t /\ UNCHANGED stage
     \/ PushLogin(LoginSuccess, <<<<1>>, <<2>>>>) /\ stage' = "play" /\ UNCHANGED sets
     \/ PushLogin(Disconnect, <<<<1>>>>) /\ stage' = "kicked" /\ UNCHANGED sets
  /\ UNCHANGED <<client, writing, listening, since>>

PushOneOf(samples) ==
  \E id \in DOMAIN samples : \E s \in samples[id] : Push(id, s.payload, s.values, s.whole)

Alone ==
  /\ \A k \in DOMAIN pushed : pushed[k].table = "login"
  /\ packet_listeners = <<>> /\ ~registering.busy /\ chats = 0
  /\ pc = "waiting" /\ table = "play" /\ stream = <<>>

ServerPlay ==
  /\ stage = "play"
  /\ PushOneOf(Core) \/ (Alone /\ PushOneOf(Samples))
  /\ UNCHANGED <<stage, sets, client, writing, listening, since>>

ServerClose ==
  /\ ~closed /\ closed' = TRUE
  /\ UNCHANGED <<stage, sets, sealing, pushed, stream, client, writing, listening, since>>

Server == ServerLogin \/ ServerPlay \/ ServerClose
-----------------------------------------------------------------------------
(* read_packet *)

\* What the wrappers make of the stream, and the reading of n bytes of it: the one
\* decryptor is that of the socket and of the file object.
Plaintext == Decrypted(stream, decryptor)
Consume(n) ==
  stream' = Left(n, stream) /\ decryptor' = AfterByte(Took(n, stream), decryptor)

\* VarInt.read_socket, which raises at the end of the stream.
ReadLength ==
  /\ pc = "waiting"
  /\ \/ /\ Whole(Plaintext) /\ pc' = "body"
        /\ length' = Received(Plaintext) /\ Consume(Used(Plaintext))
     \/ /\ ~Whole(Plaintext) /\ closed /\ pc' = "lost"
        /\ UNCHANGED <<length, stream, decryptor>>
  /\ UNCHANGED <<server, table, threshold, data, packet, taken, at, writing, listening,
                 since>>

\* Mutant of ReadBody: the file object has a decryptor of its own.
ReadBodyApart ==
  /\ pc = "body" /\ Len(stream) >= length /\ pc' = "parsing"
  /\ data' = Took(length, Plaintext) /\ stream' = Left(length, stream)
  /\ UNCHANGED <<server, table, decryptor, threshold, length, packet, taken, at, writing,
                 listening, since>>

\* The loop that completes a packet goes on for ever when the stream has ended.
ReadBody ==
  /\ pc = "body"
  /\ \/ /\ Len(stream) >= length /\ pc' = "parsing"
        /\ data' = Took(length, Plaintext) /\ Consume(length)
     \/ /\ Len(stream) < length /\ closed /\ pc' = "spinning"
        /\ UNCHANGED <<data, stream, decryptor>>
  /\ UNCHANGED <<server, table, threshold, length, packet, taken, at, writing,
                 listening, since>>

\* The rest of read_packet, which has the data to itself.
Parse ==
  /\ pc = "parsing"
  /\ LET body == Unwrapped(data, threshold # Off)
         got == Parsed(body.value, table)
     IN  IF body.ok /\ got.ok
           THEN /\ packet' = got.packet /\ taken' = Append(taken, got.packet)
                /\ pc' = "reacting"
           ELSE pc' = "broken" /\ UNCHANGED <<packet, taken>>
  /\ UNCHANGED <<server, stream, table, threshold, decryptor, length, data, at, writing,
                 listening, since>>
-----------------------------------------------------------------------------
(* The reactors *)

Has(i) == i \in DOMAIN packet.set /\ packet.set[i].ok
Is(state, id) == packet.table = state /\ packet.id = id

\* What the reactor reads of a packet; a missing attribute raises.
Reads ==
  CASE Is("login", SetCompression) \/ Is("play", KeepAlive) -> {1}
    [] Is("login", Disconnect) \/ Is("play", DisconnectPlay) -> {1}
    [] Is("play", PositionAndLook) -> 1 .. 5 \cup {7}
    [] OTHER -> {}

\* Mutant of Answer: the number is taken for a byte.
AnswerByte ==
  CASE Is("play", KeepAlive) ->
         <<[kind |-> "keep_alive", values |-> <<<<packet.set[1].value[1] % Group>>>>]>>
    [] OTHER -> <<>>

\* Mutant of Answer: the number is turned into the negative one it stands for, which
\* VarInt.send never comes to the end of.
AnswerSigned ==
  CASE Is("play", KeepAlive) ->
         LET n == packet.set[1].value[1]
             top == 2 * Group * Group * Group * Group
         IN  <<[kind |-> "keep_alive", values |-> <<<<IF n < top THEN n ELSE n - 2 * top>>>>]>>
    [] OTHER -> <<>>

\* PlayingReactor: the packets it queues in answer.
Answer ==
  CASE Is("play", KeepAlive) ->
         <<[kind |-> "keep_alive", values |-> <<packet.set[1].value>>]>>
    [] Is("play", PositionAndLook) /\ packet.set[7].value # <<0>> ->
         <<[kind |-> "teleport_confirm", values |-> <<packet.set[7].value>>]>>
    [] Is("play", PositionAndLook) /\ packet.set[7].value = <<0>> ->
         <<[kind |-> "position_and_look",
            values |-> [i \in 1 .. 6 |-> IF i < 6 THEN packet.set[i].value ELSE <<1>>]]>>
    [] OTHER -> <<>>

React ==
  /\ pc = "reacting"
  /\ IF \A i \in Reads : Has(i)
       THEN /\ pc' = "listening" /\ at' = <<1, 1>>
            /\ table' = IF Is("login", LoginSuccess) THEN "play" ELSE table
            /\ threshold' = IF Is("login", SetCompression) THEN packet.set[1].value[1]
                            ELSE threshold
            /\ queue' = queue \o Answer
       ELSE pc' = "broken" /\ UNCHANGED <<at, table, threshold, queue>>
  /\ UNCHANGED <<server, stream, decryptor, length, data, packet, taken, written, unsent,
                 encryptor, chats, listening, since>>
-----------------------------------------------------------------------------
(* The listeners, and writing *)

Listen ==
  /\ pc = "listening"
  /\ IF AllCalled(at)
       THEN pc' = "waiting" /\ UNCHANGED <<at, listening>>
       ELSE /\ CallNext(at, packet, Len(taken))
            /\ at' = NextAt(at)
            /\ pc' = IF Breaks(at, packet) THEN "broken" ELSE pc
  /\ UNCHANGED <<server, stream, table, threshold, decryptor, length, data, packet, taken,
                 writing, since>>

\* Each of the texts of a packet is encoded before anything is sent.
Encodes(w) ==
  LET fields == ServerboundPackets[w.kind].fields
  IN  \A i \in DOMAIN fields : fields[i] = "String" => Ascii(w.values[i])

\* _pop_packet and Packet.write, between two rounds of reading: what the stream holds
\* need not have arrived when the round before looked for it.
Write ==
  /\ pc = "waiting" /\ queue # <<>> /\ Encodes(Head(queue)) /\ queue' = Tail(queue)
  /\ LET w == ServerboundPackets[Head(queue).kind]
         payload == Payload(w.id, w.fields, Head(queue).values)
         bytes == Encrypted(Framed(payload, threshold), encryptor)
     IN  /\ written' = Append(written,
              [kind |-> Head(queue).kind, values |-> Head(queue).values,
               payload |-> payload, threshold |-> threshold, bytes |-> bytes])
         /\ encryptor' = AfterByte(bytes, encryptor)
  /\ UNCHANGED <<server, stream, client, unsent, chats, listening, since>>

\* Packet.write raises: socket.send when the server has closed, String.send before a
\* byte is sent.  That ends the thread, the packet is no longer in the queue, and
\* nothing uses the encryptor again.
WriteRaises ==
  /\ pc = "waiting" /\ queue # <<>> /\ (closed \/ ~Encodes(Head(queue)))
  /\ pc' = "failed" /\ queue' = Tail(queue) /\ unsent' = <<Head(queue)>>
  /\ UNCHANGED <<server, stream, table, decryptor, threshold, length, data, packet, taken,
                 at, written, encryptor, chats, listening, since>>

Thread == ReadLength \/ ReadBody \/ Parse \/ React \/ Listen \/ Write \/ WriteRaises

\* The application writes chats when the play state has been reached, and registers
\* listeners at any time.
Chat ==
  /\ table = "play" /\ chats < MaxChats /\ chats' = chats + 1
  /\ \E m \in Messages : queue' = Append(queue, [kind |-> "chat", values |-> <<m>>])
  /\ UNCHANGED <<server, stream, client, written, unsent, encryptor, listening, since>>

Registering ==
  /\ Register \/ AddClass \/ AddListener
  /\ since' = IF Len(packet_listeners') > Len(packet_listeners)
                THEN Append(since, Len(taken)) ELSE since
  /\ UNCHANGED <<server, stream, client, writing>>

Next == Server \/ Thread \/ Chat \/ Registering

Spec == Init /\ [][Next]_vars
-----------------------------------------------------------------------------
(* Safety *)

\* Whenever the thread looks for a packet, what is left of the stream begins with
\* one, whatever became of those before: fields that raised, data that were longer
\* or shorter than their definition, packets the tables do not know.
InStep == pc = "waiting" =>
  stream = FlattenSeq([k \in 1 .. Len(pushed) - Len(taken) |->
                         pushed[Len(taken) + k].bytes])

\* The value of a field has an NBT tag, for which reading raises.
Tagged(type, value) ==
  \/ type = "NBT" \/ (type = "Slot" /\ Len(value) > 2)
  \/ type = "SlotArray" /\ \E i \in DOMAIN value : Len(value[i]) > 2

\* Every packet is the one that was sent, and each of its attributes that is set has
\* the value it was sent with, or the beginning of a text cut off at the end of the
\* packet.  Only the last attribute can be missing, for its end or for a tag.
AsSent == \A k \in DOMAIN taken :
  LET got == taken[k]
      was == pushed[k]
      fields == ClientboundPackets[was.table][got.id + 1]
  IN  /\ got.id = IF was.id < Len(ClientboundPackets[was.table]) THEN was.id ELSE Base
      /\ \A i \in DOMAIN got.set :
           /\ got.set[i].ok => IsPrefix(got.set[i].value, was.values[i])
           /\ got.set[i].ok /\ was.whole => got.set[i].value = was.values[i]
           /\ ~got.set[i].ok =>
                i = Len(got.set) /\ (~was.whole \/ Tagged(fields[i], was.values[i]))

\* The packets whose last attribute the reactor reads.
EndsNeeded == {KeepAlive, DisconnectPlay, PositionAndLook}

\* What a packet may have that ends the thread with an exception: a definition that
\* cannot be read, compressed data longer than what they stand for, a last attribute
\* the reactor needs and the packet lacks, or print_chat called with a packet that has
\* no json_data, as it is once a listener was registered for other packets.
Fatal(p) ==
  \/ p.table = "play" /\ p.id = EntityEffect
  \/ p.zipped /\ Len(Compressed(p.payload)) > Len(p.payload)
  \/ ~p.whole /\ p.table = "play" /\ p.id \in EndsNeeded
  \/ \E l \in DOMAIN packet_listeners : packet_listeners[l] = <<ChatMessage>>
       /\ \E class \in Range(packets_to_listen) : class # ChatMessage /\ IsInstance(p, class)

\* The thread ends, or hangs, for no other reason than the end of the stream, such a
\* packet, the last one it has read, or a packet it could not write: one for a server
\* that has closed, or a chat whose text is not ASCII.
EndsOnlyBy ==
  /\ pc = "broken" => \E k \in {Len(taken), Len(taken) + 1} \cap DOMAIN pushed :
                        Fatal(pushed[k])
  /\ pc = "lost" => closed
  /\ pc = "spinning" => closed /\ Len(pushed) = Len(taken) + 1
  /\ pc = "failed" => closed \/ \E w \in Range(unsent) : w.kind = "chat" /\ ~Ascii(w.values[1])

\* The server, whose decryptor has seen the packets before, gets every packet as it was
\* written, and none compressed that is shorter than the threshold, for which servers
\* drop the connection.
ServerTakes == \A i \in DOMAIN written :
  LET w == written[i]
      plain == Decrypted(w.bytes, IF encryptor = Clear THEN Clear
                                  ELSE IF i = 1 THEN Fresh ELSE Last(written[i - 1].bytes))
      body == Left(Used(plain), plain)
      size == ReadVarInt(body)
  IN  /\ Len(body) = Received(plain)
      /\ IF w.threshold = Off THEN body = w.payload
         ELSE \/ size.value = <<0>> /\ size.rest = w.payload
              \/ /\ size.value = <<Len(w.payload)>> /\ Len(w.payload) >= w.threshold
                 /\ Decompressed(size.rest).value = w.payload

\* Each keep alive is answered with the very bytes of its number, a negative one
\* included, which the client takes for a large one.
EchoesExact ==
  LET heard == {k \in 1 .. Len(taken) : pushed[k].table = "play" /\ pushed[k].id = KeepAlive}
      said == {i \in 1 .. Len(written) : written[i].kind = "keep_alive"}
      nth(T, i) == Cardinality({j \in T : j <= i})
      number(p) == LET rest == Left(Used(p.payload), p.payload) IN Took(Used(rest), rest)
  IN  \A i \in said : \E k \in heard :
        nth(heard, k) = nth(said, i) /\ number(pushed[k]) = number(written[i])

\* A listener is called for every packet of its classes that was read after it had
\* been registered, while others are being registered too.
NoneMissed == pc = "waiting" => \A l \in DOMAIN packet_listeners :
  \A k \in since[l] + 1 .. Len(taken) :
    (\E class \in Range(packet_listeners[l]) : IsInstance(taken[k], class))
      => <<l, k>> \in calls
-----------------------------------------------------------------------------
(* What the comments say and the code does not do *)

\* connection.py:235: a packet whose structure is not known is skipped.  No packet
\* that is framed as the protocol says ends the thread of a program without listeners.
Skipped == pc = "broken" /\ packet_listeners = <<>> =>
  \E k \in {Len(taken), Len(taken) + 1} \cap DOMAIN pushed : ~pushed[k].whole

\* connection.py:84: a listener is notified of packets of a selected type.
OnlySelected == \A c \in calls :
  \E class \in Range(packet_listeners[c[1]]) : IsInstance(taken[c[2]], class)
=============================================================================
