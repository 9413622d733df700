# MineProxy in TLA+

MineProxy carries HTTP requests over a Minecraft session. A client program
(`src/Client/pyCraft-master`, Python) accepts requests from local programs and
types them, in pieces, as chat commands on a Minecraft server. A plugin of that
server (`src/Server/Forge/eclipse/Test_Plugin`, Java) puts the pieces together,
sends the request to the web server it is for, and shows the reply in the chat.

This directory models the parts of that system that have behaviour worth
checking: the client's connection with its networking thread, the packets on
their way through it byte by byte, its authentication token, the text on its way
through the chat, the plugin's logins, worlds and commands, the thread that talks to
the web servers, and the codec of item stacks.

Sources are named without their prefix below: `connection.py`, `packets.py`,
`types.py` and `encryption.py` are in `minecraft/networking/`,
`authentication.py` in `minecraft/`, the Java files in `src/me/bridgar/`.

## The system

| Part | State | Operations | Interacts with |
|---|---|---|---|
| `Connection` (`connection.py`) | class attributes: outgoing queue, write lock, options (address, compression); per object: reactor, socket, file object, thread | constructor, `connect`, `status`, `write_packet`, `register_packet_listener` | application threads call it; its networking thread uses it |
| `NetworkingThread` (`connection.py:155`) | `interrupt`, number of packets in this round | `run`: up to 300 packets out under the lock, then up to 50 in | the queue and lock (shared), the socket, the reactor |
| reactors (`connection.py:196`) | which packet table is in force | `read_packet`, `react` | switch reactor, cipher, compression; queue answers; stop the thread |
| packet listeners (`packets.py:34`) | packets to listen for (class attribute), callback | `call_packet` | called by the networking thread for each packet |
| packet framing (`packets.py:55`, `types.py`) | none | `read`, `write` of a packet, VarInt, strings | socket, zlib |
| encryption (`encryption.py`) | cipher streams | wrappers of the socket and the file object | installed by the login reactor |
| `AuthenticationToken` (`authentication.py`) | username, access token, client token, profile | `authenticate`, `refresh`, `validate`, `invalidate`, `sign_out`, `join` | Yggdrasil server; `join` is called by the login reactor |
| client program (`start.py`) | server socket, connection | accept a request, `send_message`: `/k` address, `/j` chunks of 90 characters, `/l` | `Connection.write_packet` |
| `MyPlugin` | list of permitted names (memory and disk), maps by player: chunks, address, queue, thread, attachment | `/fun`, `/nofun`, `/j`, `/k`, `/l`, `playerLoggedOff` | all on the server's main thread |
| `PlayerListener` | map of IPs, worlds | login, logout and teleport handlers | calls `playerLoggedOff` at the end of a logout |
| `ProxyServer` | queue of one session, cache of sockets, `HashMap` of destinations | `run`, `sendToServer`, `dnsQuery` | one thread per session: the queue is shared with the main thread |
| `Transcoder` | code books | bytes to inventories of items and back | called by nothing |

What is hard about it:

* **Two threads, one queue.** The application queues packets, or forces them
  past the queue, while the networking thread writes and the reader switches
  cipher, compression and packet table in the middle of the stream.
* **Everything shared is a class attribute.** Two connections in a process share
  queue, lock, address and compression.
* **Lost connections.** Any send may raise, with the lock held; the stream may
  end inside a packet.
* **Texts that cannot be encoded.** Writing a chat that is not ASCII raises, in the
  networking thread and with the lock held, though the server is there.
* **Handlers that stop half way.** An exception in a plugin handler leaves what it
  has done, and nothing rolls it back; the server may stop between memory and disk.
* **Bytes without boundaries.** A packet that is longer or shorter than its definition,
  compressed, encrypted or unknown must leave the stream at the beginning of the next;
  exceptions of single fields are swallowed.
* **Sockets kept too long.** The proxy thread reads every reply to the end of the
  stream, so each socket it keeps is closed when it is used again; and what is written to
  a server that closes may have been read in part, or as a whole, before it raises.

`PROJECT.json` lists the hazards line by line, with the properties that cover
each.

## The modules

| Module | Models |
|---|---|
| `Connection` | `connection.py`: constructor, `connect`, `status`, `write_packet`, `NetworkingThread.run`, the reactors; the server (external) |
| `OrderedDelivery` | the abstract promise of a queue and its reader |
| `ConnectionInvariants` | the inductive invariants behind the properties of `Connection` |
| `ConnectionProofs` | the theorems about `Connection` |
| `MCConnection` | bounds, refinement mappings and liveness properties for TLC |
| `VarInt` | the numbers of variable length of `types.py` |
| `PacketFields` | the field types of `types.py`; the fields of a packet in `Packet.read` and `Packet.write` |
| `PacketTables` | the packets of `packets.py`: ids and types of fields |
| `PacketFraming` | lengths, compression and ids in `Packet.write` and `read_packet`; zlib (external) |
| `PacketCipher` | the wrappers of `encryption.py`; the cipher (external) |
| `PacketListeners` | `PacketListener` and `register_packet_listener`, `print_chat` |
| `PacketReader`, `MCPacketReader` | the networking thread on bytes: reading, reactors, listeners, writing; the server (external) |
| `PacketProofs`, `FieldProofs` | the theorems about `VarInt` and `PacketReader`; those that depend on what is in every field |
| `PlayerWorlds`, `MCPlayerWorlds` | `PlayerListener` and `/fun`, `/nofun` |
| `ProxyCommands` | `/j`, `/k`, `/l` and `playerLoggedOff`, and the poll of each queue |
| `Plugin`, `MCPlugin` | `PlayerWorlds` and `ProxyCommands` composed: whole logins, logouts, crashes |
| `PluginProofs` | the theorems about `Plugin` and `Transcoder` |
| `ProxyServer`, `MCProxyServer` | `ProxyServer.java`: the thread of one session; the web servers (external) |
| `ProxyProofs` | the theorems about `ProxyServer` |
| `AuthenticationToken`, `MCAuthenticationToken` | `authentication.py`: the calls of the application thread and `join` on the networking thread; the authentication and session servers (external) |
| `TokenProofs` | the theorems about `AuthenticationToken` |
| `ChatCodec`, `MCChatCodec` | the text of a request: `send_message` of `start.py` and `/j`, `/l` of the plugin |
| `ChatProofs` | the theorems about `ChatCodec` |
| `Transcoder`, `MCTranscoder` | `Transcoder.java`: slots of bytes as item stacks and back |
| `SequenceLemmas` | lemmas on sequences the proof modules share: induction over their length, joining, flattening, folding |

A definition whose comment begins with *Mutant of* is a plausible mistake in the
definition that follows it. No specification uses it. Put in the place of that
definition it makes the property `PROJECT.json` names fail, which shows that the
property depends on the code being as it is.

### Connection

One step is one statement that other threads can see. `Script` lists the
statements of `connect()` and `status()`, and `call[c]` counts those done; the two
differ in when the reactor is installed and the thread started. `netpc[c]` is
where the networking thread is: `top` of a round, `locking`, `writing`, `select`,
`polling` (the reactor's `read_packet` has been looked up), `reacting`, and inside
the reaction to an encryption request `forcing` and `swapping`. It may end
`stopped` (interrupted), `dead` (an exception), `spinning` (the stream ended inside
a packet) or `garbled` (a packet read with the wrong settings).

A frame on the wire carries the cipher, the framing and the protocol state it was
sent with, in place of bytes; a reader whose settings differ cannot read it
(`Decodes`). Names, positions and the text of chats are left out: a chat is its
number. A packet also remembers the connection it was written on.

A write raises, and nothing leaves, when the server has closed or when a text cannot be encoded
(`SendRaises`): `start.py` passes on the bytes it has received (109), which `String.send`
(`types.py:305`) asks Python 2 to encode, and Python decodes them as ASCII first. `Unencodable`
are the chats with other bytes. `Packet.write` encodes all its fields into a buffer before it sends
any of it. A queued chat of that kind ends the networking thread with the lock held, a forced one leaves the
lock with the application. Exceptions of `socket.connect`, on which the call ends before there is a
thread, and of `json.loads` in the reactors are not modelled.

The server takes in each stage of the protocol the packets of that stage and drops
the connection on any other, asks for encryption or not, sets compression or not,
sends keep alives, positions and other packets, and closes at any time, after a
disconnect packet or with a packet cut short. It does not close with a disconnect
packet between its encryption request and the answer: servers differ in whether
that packet is encrypted, and the client cannot tell.

### VarInt, PacketFields, PacketTables, PacketFraming, PacketCipher, PacketListeners, PacketReader

Each of these modules extends the one before it. `Connection` has the threads, the lock
and the settings, and a frame stands for its bytes; `PacketReader` has one networking
thread between its rounds and the bytes themselves, from the moment encryption has begun
or the server has decided to do without.

A value of a field is the sequence of bytes `struct` unpacks (or a text, a number, the elements
of an array), so that what is compared is what is sent. A read gives whether it
returned, the value, and the bytes that are left. `Packet.read` swallows the exception of
a field, so the fields after it are read from wherever it stopped (`ReadFields`). A field
that is written as a set (`packets.py:1035`) has the type `NoDict`: it raises outside the `try`.

The program counter of the thread follows `read_packet`: `waiting` for a length, `body`
(the loop that completes a packet), `parsing`, `reacting`, and `listening`, where it goes through
the listeners and, for each, through the classes of *all* listeners, one at a time, while
an application thread may be adding to both lists. It may end `lost` (the stream ended
before a length), `spinning` (inside a packet), `broken` (an exception) or `failed` (an exception of a
write). `Write` is `_pop_packet` and `Packet.write`; `WriteRaises` takes the packet from the queue
too, and keeps it in `unsent` for the properties. It raises if the server has closed, or if a text
is not ASCII (`Ascii`); so the one conversion of `encode` is that such texts never leave. Where
in the two calls of `socket.send` it raises is left open: what of the packet has left by then reaches a server
that has closed, and nothing uses the encryptor afterwards. What `print_chat` does with a text the
terminal cannot show is not modelled.

The library compresses a payload that is longer than the threshold, and servers one that is as
long, too; both are modelled as they are. The branch for "set compression" of the reactor of
the play state is never reached, since its table has no such packet (`packets.py`), and is left
out. `VarInt.read` never gives a negative number: one comes as a large one, and its answer
is the same five bytes.

Two things the model of the server leaves out bear on what the properties show. It writes every packet with the
types of the client's own tables, so a table that is wrong about the protocol, as `packets.py:339`
suspects of itself, cannot be noticed here. And a packet that is cut lacks its last byte only, so it is the last
field that raises: that the next field is read from wherever the one before stopped
(`packets.py:71`) is in `ReadFields`, but no packet of the runs has a field after the one that raises.

zlib is external and is a code of run lengths, since what matters of it is that it
shortens some data, lengthens others and cannot do without its end. The cipher is external too,
and masks each byte with the one before it on the wire: what matters is that each end must
see every byte once, in order, whichever of the two wrappers it comes through. `nbt` is
imported by `types.py`, and what it does with `nbt.NBTFILE` is open: the module of that name
keeps a class `NBTFile` in `nbt.nbt`, and
then every tag raises; the runs check that case (`HasNbt`).

### PlayerWorlds, ProxyCommands, Plugin

Every handler runs on the server's main thread to its end or to its first
exception, so a handler is one action, and an exception is a branch that leaves
undone what comes after it. `LogoutFails` is such a branch: `deletePlayerWorld`
raises for a permitted player without a world, and `playerLoggedOut` never
reaches `playerLoggedOff`. `torn` remembers the players this has happened to.
`Bukkit.getPlayer` finds a player by the beginning of the name (`Extends`).
`createWorld` gives a world that is loaded as it is, with or without a folder; any other it
loads or generates, or it fails, by an exception or with null, on which the handler raises (`CreatePlayerWorld`).
Whether a world could be unloaded is not looked at, so one may stay loaded without its folder
(`left`), and the next login or `/fun` is given it; `failed` are the players whose world could not be
made. That Bukkit writes the folder of a loaded world again when it saves is not modelled.
`revoked`, `session`, `left`, `failed`, `typed`, `taken` and `chunks` are there for the properties.

`Plugin` puts the logins of `PlayerWorlds` and the commands of `ProxyCommands`
together. A thread that polls a queue goes on after its session: the interrupt of
`playerLoggedOff` is swallowed by its `sleep`.

### ProxyServer

One action for each place the thread can be interrupted by a server: `Poll`,
`LookupCached` or `Connect`, `Write`, `WriteEnds` or `WriteRaises`, `Read`, `ReadEnd`, `Drain`. A request
is its number, the destination in the request line (the key of the cache), the
host header (where a new socket goes) and whether it parses.

`writeBytes` writes byte by byte. At some byte an open server has what it takes for the request
(`Write`), and from there on, while the rest is written (`flushing`), it may answer or close. A byte written to a server that has
closed is lost or raises, before the request has arrived or after (`WriteRaises`); then the socket leaves the cache and
`sendToServer` calls itself with the whole request, so that a server may get it again. `tries` counts these repeats, and
`sent` has each arrival with the tries before it. When the inner call returns, each outer one goes on
reading the socket it gave up: what is unread there (`old`) is shown or lost (`Drain`).

A reply is the number of its request. What the player is shown of it in the code is
`reply.toString()` of an array of bytes (`ProxyServer.java:109-110`), that is `[B@` and a hash; the model has
that something is shown, and for which request.

### AuthenticationToken

The application thread makes one call at a time. `Ask` sends the request, on which
the server acts at once; then the answer is `Lost` (or taken for an error: `validate`
succeeds only for status 200), or `Assign` stores its parts one by one, in the order of
`Assigned`, and may raise at a part the answer lacks. `join` is three kinds of
steps on the networking thread: the check of `authenticated`, the reads of the access
token and of the profile, and the post. An access token is the number of the record in
`issued`; `live` are those that count. The servers issue tokens to this object alone:
another client of the same account could revoke them at any time, and nothing could be
promised. Of the parts of an answer only the profile may be missing; the two tokens are always there.
`settled` and `calm` are there for the properties.

### ChatCodec

Characters are a blank, a backslash, the two line ends, the letters `n` and `r`, and one
that stands for all others; the three replacements of each side are done in the order
of the code. `Joined` is what splitting a command into words and joining them does: the
server takes a run of blanks for one and drops those at the ends, and this is why the
client puts a backslash before every blank. A `/j` without words raises. `send_message`
is given a text for its address, as its author's example does; `main` passes the pair
that `accept` returns, on which `"/k " + addr` raises at the first request. The texts are those that
leave at all: one with a byte that is not ASCII ends the networking thread
(`types.py:305`), which `Connection` and `PacketReader` have.

### Transcoder

Bytes are signed, and shifts and masks are the arithmetic they do on Java's ints. The
enchantments are numbered in the order of `handleEnchants`; the set the server knows is
chosen at the start, since `Enchantment.getById` gives null for the others.

## What is checked

| Run | Instance | Shows |
|---|---|---|
| `connect_safety` | 1 connection, both calls, 4 chats of which two are forced and two cannot be encoded, 2 pushes, 2 packets in flight, batches of 2 | `StreamInStep`, `RejectedOnlyIfHasty`, `LockOfWriter`, `KeepAlivesKept`, `ChatOnce` |
| `connect_live` | 1 connection, both calls, 3 chats of which the last cannot be encoded, 2 pushes, 1 in flight, batches of 1, fair | calls complete, chats are heard, keep alives answered, both in order (`OrderedDelivery`) |
| `two_crosstalk` | 2 connections | violated: packets reach the server of the other connection |
| `packets` | every packet of the tables, as defined, too long, too short or cut off; 2 thresholds, 2 listeners, 1 chat, which may not be ASCII, 4 packets | `InStep`, `AsSent`, `EndsOnlyBy`, `ServerTakes`, `EchoesExact`, `NoneMissed` |
| `packets_killed` | every packet of the tables, neither listeners nor compression | violated: an entity effect ends the networking thread |
| `listeners_shared` | chat messages, keep alives and entity effects, 2 listeners | violated: a listener is called for packets it was not registered for |
| `plugin_safety` | 2 players, one name the beginning of the other, 2 logins, 1 restart, refusals, 2 chunks, 2 requests | `ThreadOfSession`, `ChunksKept`, `WorldOfPermitted`, `AttachmentCurrent` |
| `nofun_unsaved` | the worlds alone, no refusals | violated: the list on disk keeps a name `/nofun` has removed |
| `auth_safety` | 2 accounts, 3 access tokens | `JoinWhole`, `KeepsPromise`, `JoinAdmitted` |
| `chat_text` | every text of at most 4 characters, pieces of 3 | `Intact`, `Typeable` |
| `transcode` | 2 enchantments, slots of 3 sample bytes and a list too short | `KnownKept`, `RoundTrip` |
| `proxy_thread` | 2 hosts, 3 requests, 2 pieces of reply, 2 repeats, fair | the cache is stale, answers match, requests arrive in order where they belong, again only after a write that raised, all are polled |

What the properties say:

* `StreamInStep`: every packet is read with the settings it was written with,
  whatever order of encryption, compression and login success the server chooses.
* `RejectedOnlyIfHasty`: the server never drops the connection for what the library
  writes of itself; only for a chat the application wrote before the player spawned,
  which `start.py` does.
* `LockOfWriter`: the write lock belongs to the thread that writes, and is lost only
  behind a write that raised: to the networking thread for a server that has closed or a queued chat that
  cannot be encoded, to the application for such a server or a forced one.
* `ChatHeard`, `KeepAliveAnswered`, `CallCompletes`: every chat that can be encoded is heard, every keep alive
  answered and every call completed, unless the server closes or the thread dies; a chat that cannot be
  encoded is one of the ways to die.
* `KeepAlivesKept`: each keep alive is answered once and in order, wherever it is now.
* `ChatOnce`: no chat arrives twice, even through two threads on one queue.
* `InStep`: whenever the thread looks for a packet, the stream is at the beginning of one,
  whatever became of those before: fields that raised, data longer or shorter than their
  definition, unknown packets, either cipher, either framing.
* `AsSent`: every packet taken is the one sent, and an attribute that is set has the value it
  was sent with; only the last can be missing, or hold the beginning of a text.
* `EndsOnlyBy`: the thread ends or hangs for no other reason than the end of the stream, one
  of four kinds of packets (a definition that cannot be read, compressed data that are longer
  than what they stand for, a packet cut in an attribute the reactor needs, and `print_chat` called for a packet
  without `json_data`), or a write: to a server that has closed, or of a chat that is not ASCII. A lock or a
  list shared between threads is not among them, nor is a packet cut where nobody looks.
* `ServerTakes`: the server reads back every packet the client writes, and none is compressed that
  is shorter than the threshold.
* `EchoesExact`: a keep alive comes back with the bytes of its number, negative ones too.
* `NoneMissed`: a listener is called for every packet of its classes read after it was
  registered, though both lists grow while the thread goes through them.
* `Skipped` (violated): no well-formed packet ends the thread of a program without listeners.
* `OnlySelected` (violated): a listener is called for packets of the types it selected.
* `WorldOfPermitted`: a player who is logged in and was given the permission has a world, unless
  it could not be made when it last should be; and the worlds without a folder are those a logout or
  `/nofun` of their own player has left loaded. No command for another name and no restart takes world or folder
  from under a player.
* `AttachmentCurrent`: the map's attachment is that of the current login, though logouts
  never remove one (`attachments.remove` is given the value for a key).
* `ThreadOfSession`, `ChunksKept`: a session's requests are exactly its chunks, and the
  thread that polls them was started for that session, unless a logout was cut short: then the code leaves
  queue, thread and chunks to the next session, and nothing is claimed of it.
* `JoinWhole`: a join that found the token authenticated sends a whole one, even while the
  application refreshes it; no call takes an attribute back.
* `KeepsPromise`, `JoinAdmitted`: after `authenticate` or `refresh` returned True, and until the
  next call, the token is one the server knows with its owner's profile, whatever mixture
  earlier failures had left, and a join with it is admitted.
* `Intact`: a request arrives as it was sent exactly if no blank of its escapes meets a cut
  or the end, and no blank of the text is followed by `n` or `r`: "a red" arrives as "a", a
  carriage return and "ed".
* `Typeable`: no command is too long or has a line end.
* `KnownKept`, `RoundTrip`: what comes back of a slot on a server that knows some, or all, of the
  enchantments.
* `CacheStale`: every socket the cache holds between requests has been closed: it
  spares no connection.
* `SentInOrder`: no server gets a request after a later one has arrived, and none gets one again
  but for a write of it that raised after it had arrived. The code does repeat a request then; this says that nothing
  else in the cache, the retry or the reading does.
* `AnswersMatch`, `ReachesItsHost`, `PolledInOrder`, `EachPolled`: with the
  stale cache and the retry inside itself, requests are still neither sent to the wrong server,
  polled out of order nor left in the queue, and no old reply is shown for a new request. `EachPolled` is under
  the assumption that servers close.

### Bounds

300 and 50 packets a round become 2 and 2, or 1 and 1: the bounds matter when they
are met, and with 2 a round ends both full and not. Two packets in flight are enough
for a setting to change between two packets of the stream. Two chats that can be encoded and two pushes
are enough for two messages of a kind to change places, or for one of them to be
forced past the other; after them come one that cannot be encoded on the queue, and one that is forced.

In `packets` a byte has three bits (`Group` = 4, of which the low two are a group), so that a
VarInt of five bytes, a sign bit and an index of two bytes are all met with small numbers; what depends on the
width, the round trip of VarInts, is proved for every width. The samples of a packet give each
field up to four values, together with a packet with bytes after its last field and one
without its last byte. A threshold of 3 is met by most packets and one of 20 by the longest and
by a chat of 30 bytes; the third text of a chat is one character that is not ASCII. A packet of the tables is the only one after the login, to a client that
does nothing else (`Samples`, `Focus`); those with which the thread does more than to read
them (`Core`) come in any number up to `MaxPushed`, with encryption, compression and chats, or with
listeners, one of which is registered while the other is being called. The two are kept
apart because the listeners see the packet after all of this is done with it.

Two logins of a player are the least that can leave something behind for the next, and a
restart the least that reads the list back. `Focus` of `MCPlugin` has two halves: either nobody
types `/j`, `/k` or `/l`, and permissions, refusals and restarts are free; or all commands are typed, by
players who have the permission only as operators, in worlds that are never refused. In both one player at a time
is an operator or has typed `/k`, whose address no handler reads, and only one of them logs in
more than once, which is enough for what one session leaves behind to meet the next, and the
other player beside it. The theorems of `PluginProofs` need none of these bounds.

Three requests over two destinations meet a cached socket that is stale, of
another host, and fresh again. A request is repeated at most twice (`MaxRepeats`) after it has arrived, so that two calls of
`sendToServer` may wait inside each other; writes that raise before anything has arrived are not bounded. Three access tokens are two exchanged one after the
other and one of the other account. A text of four characters holds each pair of
characters at every place of a piece of three, its escape takes up to four pieces, and
the escapes are at most three characters long. The sample bytes are even and odd, and of either sign.

`CHECK_DEADLOCK FALSE` is everywhere but in `auth_safety`: these systems stop, when the
connection is lost, the thread has been interrupted, or the inputs are used up.

### Fairness

The operating system schedules the threads: weak fairness of each networking thread,
of each call and of the proxy thread. It is one condition for all steps of a
thread, so no thread is assumed to win the lock against another infinitely often. A
server takes what it is sent and goes on with a login it has begun; without this
nothing can be promised of a client. What a server sends in the play state, when it
closes and what the application writes is left open. For the proxy
thread a web server closes in the end: the thread has no other way to go on, and what
becomes of the requests behind a server that does not is therefore not covered (the hazard at `ProxyServer.java:108`).
Not every write of a request raises, before it has arrived or after (strong fairness of `Write` and `WriteEnds`).

## What is proved

The library's induction theorems have an operator for a parameter, which the provers cannot instantiate.
`SequenceLemmas` does induction with sets instead (`Induct`: a set of numbers that has 0 and with each number the next has all;
`InductSeq`, the same for the sequences over a set), which is enough for what `FlattenSeq` (`FlattenAppend`,
`FlattenFirst`) and `FoldLeft` do to every sequence (`FoldIs`: from a fold to the fold with one element more), and so for
properties that speak of selections, joined sequences and ciphers.

`ConnectionProofs` holds for every set of connections, every bound
and every batch size that satisfy `ConnectionAssumption`.

* `Typing`: `Spec => []TypeOK`.
* `WriterHoldsLock`: `Spec => []LockOfWriter`. The lock can be left behind only by a write
  that raises, which takes a closed server or a chat that cannot be encoded (`RaisesFor`); a closed server stays closed
  (`ClosedStays`), and what has been written stays so. For this the invariant needs `ScriptInv`: a thread that has not been
  started, or a connection that has not been opened, cannot be writing; and `QueuedInv`: a chat the networking
  thread takes was written, and not with force.
* `ReadsInStep`: `ASSUME OneConnection PROVE Spec => []StreamInStep`. With two connections it is
  false, since compression is shared. The inductive invariant `StreamInv` says that the
  frames on their way form a chain: the first is stamped with the settings the client
  will have once it is done with the packet in hand (`Expected`), each next one with the
  settings after the one before (`Chained`), and the server's settings are those at the
  end of the chain (`Promised`). The other parts are what keeps the chain going: nothing
  is sent or switched before the first packets are taken (`Quiet`), reactor, stage and the
  packets on their way belong to the call made (`Modal`, `Letters`), `status` may be
  reading under the reactor it had before only while there is nothing to read (`Idle`), and only the
  answer to an encryption request is forced (`Held`). There is a lemma for each group
  of actions, and two about sequences (`ChainAppend`, `ChainTail`).
* `ChatsHeardOnce`: `Spec => []ChatOnce`, for any number of connections. The invariant `ChatInv` says that a chat is at one place at most
  (`Apart`): waiting in the queue, on its way to one server, or heard by one; and is there once.
  That connections share the queue is why the packets of all of them are in one invariant:
  the thread of any may take the chat, but the step that takes it removes it.
* `RejectsOnlyHasty`: `ASSUME OneConnection PROVE Spec => []RejectedOnlyIfHasty`. The invariant
  `ServedInv` holds as long as the server is there. Besides chats, nothing waits or travels but
  what is due in the server's stage, and what is taken once is there once (`Wanted`), the handshake
  first (`Ordered`). What travels is in the server's cipher and framing, unless it is a chat written
  too early (`Legible`); this is inductive only with what the client knows: under the playing reactor, which
  every answer to game traffic and every other chat presupposes, its settings are the server's
  (`Playing`), and in each stage of the login what the server has sent, and the packet in hand,
  fix how far the client is with the key exchange and with compression (`Asked`, `Answered`). The
  lemmas ending in `Mail` show that queue and wire keep their order under each
  kind of step, those ending in `Served` take the actions in turn; `StreamInv` supplies that
  what is read is read in step. For more connections nothing of the kind is claimed: packets then
  reach the server of another (`two_crosstalk`).
* `KeepsKeepAlives`: `ASSUME OneConnection PROVE Spec => []KeepAlivesKept`. Inductive with `StreamInv`, which says
  that what is read is a keep alive only if it was sent as one: the numbers on the wire, in the packet in hand, in the queue and on the
  way back, in this order, are at each step those not yet echoed (`StepKept`).
* `DeliversEchoes`: `ASSUME OneConnection PROVE Spec => EchoesInOrder`, the refinement of `OrderedDelivery`: since
  the echoes are a beginning of the numbers sent, a step that takes one delivers the next.
* `DeliversChats`: `ASSUME OneConnection, Urgent = {} PROVE Spec => ChatsInOrder`. A chat forced past the queue does overtake those
  in it, so the theorem is about programs that force none, as `start.py` does, and as the run that checks it. Its
  invariant is `ChatsKept`: as long as the server is there, the chats heard, travelling and waiting are those written.

`PacketProofs` holds for any number of bits in a group, and any samples, thresholds and bounds.

* `VarIntRoundTrip`: what `VarInt.send` writes, `read` and `read_socket` read back, and take exactly its
  bytes from whatever stream follows. Numbers of more than five groups, and negative ones,
  which `send` never finishes, are outside `VarInts`.
* `ListenersMissNothing`: `Spec => []NoneMissed`. The two lists grow at any time while the thread goes through both, so the
  invariant `ListenInv` follows the place the thread is at: the listeners before it have been called for the packet in hand (`InHand`), the one it is
  at for the classes before (`CalledSoFar`), and those of the packets before are done with (`Done`, `Notified`). It holds
  because the classes of a listener are in the list before the listener is (`ClassesListed`). That a
  listener is registered for a list of classes is an assumption (`ListenersAssumption`).
* `StaysInStep`: `Spec => []InStep`. The invariant `ReadInv` says how far the client is in the packets sent (`Frames`): at the
  beginning of one and its decryptor with it (`Between`, `Behind`), or inside one with as many bytes to come
  as the length read has left, or in one cut off by the end of the connection (`Within`). Each of `Frames`
  is one packet for a decryptor that has seen those before (`Frame`), and only the last, of a server
  that has closed, can be less (`Cut`). Below this are lemmas about every sequence of bytes: decryption
  undoes encryption and needs nothing but the bytes before (`CipherRoundTrip`, `DecryptedPart`,
  `AfterJoined`), zlib at most doubles a payload (`CompressedIs`), and the number at the beginning is read
  the same whatever follows (`WholeAgree`). That a server sends nothing longer than a number can tell is an
  assumption (`PacketAssumption`).
* `ServerReadsWritten`, `PacketTyping`: `Spec => []ServerTakes` and `[]TypeOK`. The invariant `WriteInv` says of each
  packet written that its bytes are those of its payload under the threshold it left with, for an encryptor that goes on from the
  last byte of the packet before (`SealedBy`, `WellWritten`), and that the encryptor still does. The server then takes it (`FramedTaken`), since
  decompression undoes compression (`ZipRoundTrip`: the runs `Compressed` counts are those `Decompressed` takes,
  by induction over the payload) and the cipher and the numbers are undone as above. What waits to be
  written is short enough for a number to precede it (`Queuable`): of the chats that is assumed (`PacketAssumption`), of the answers it
  is proved (`AnswerQueuable`), which takes what a reading leaves in the packet in hand
  (`Filled`, `ParsedAnswers`): a number that was read is a number that can be sent, and a word of a fixed width keeps it.
* `EchoesAreExact`: `Spec => []EchoesExact`, from everything a packet goes through. `ServerInv` says of each packet that its bytes are its payload,
  with the threshold and from the table the packets before it have set (`LimitAt`, `TableAt`), deciphered by a decryptor that has
  seen those before (`SealAt`); and what the client would make of the payload (`Right`). `ReaderInv` says that the client has just that
  threshold and table when it looks at the packet (`SetFor`), that the length and the data it has read are those of what the server put
  in it (`InnerAt`), and so that each packet taken is what it makes of the one sent (`TakenAs`). On the way are the round trips of
  compression (`UnwrapSent`, `ZipCut`), cipher (`BodyOf`) and numbers, and that every entry of the tables is a list of types that are
  known (`TablesTyped`). `EchoInv` then counts: of the packets that are written or wait, the i-th keep alive has the number of the
  i-th the reactor has been through (`Echoes`, `Ticks`), since the queue is first in, first out and only keep alives are answered
  with one. What a server writes in the fields of a packet is an assumption (`Described`, `Fits`).
`FieldProofs` goes on from there, under the same assumptions.

* `PacketsAreAsSent`: `Spec => []AsSent`. `CarriedInv` says that the payload of each packet sent is its id, the fields of its row
  with its values, and anything after them, or all of this but the last byte (`CarriedAs`). What the client makes of it is followed
  upwards. The reading of a field gives back what was written, whatever follows (`ReadFirst`), and a field of which the last byte
  is missing raises, or is the beginning of a text. The numbers `struct` unpacks and the arrays, read element after element, are
  folds, and so is `ReadFields`, which goes on after a field that raises; `RowWhole` and `RowCut` are about a whole row, by
  induction over its length. They need that a field which may hold a tag of `nbt`, and so
  may raise, is the last of its row, which is shown for every row of the tables (`PlayRows`) but the one that cannot be read.
  With `TakenAs` of `ReaderInv` this is about the packets taken.
* `ThreadEndsOnlyBy`: `Spec => []EndsOnlyBy`. The invariant `EndInv` says that a thread that has ended by an exception was at a
  packet that is fatal, taken or next (`EndedBy`), and that a body that is not there is that of the last packet (`LastCut`). A fatal packet stays
  one, since packets and lists are only added to (`EndedOn`). The parts that could raise are taken in turn: the length and the body
  (`LengthEnds`, `BodyEnds`, with `ReadInv`), decompression and the row that cannot be read (`ParseEnds`), the reactor, which needs attributes that
  are there unless the packet was cut in just these (`ReactEnds`, `CutNeeded`), `print_chat`, which has `json_data` if the packet is a chat
  (`ListenEnds`), and the writing, where of all packets only a chat has a text (`ChatAlone`, `RaisesEnds`).

`ChatProofs` holds for every text a program may send and every size of the pieces.

* `CodecTypes`, `AlwaysTypeable`, `ArrivesIntact`: `Spec => []TypeOK`, `[]Typeable` and `[]Intact`. The invariant `CodecInv`
  says that as many commands of the text have been carried out as are missing, and that the entry of the player is what the plugin
  makes of the pieces so far (`Done`, `Heard`). The rest is about the operators, by induction over the text. A replacement is
  known from what one character more adds, and one pattern more (`SubAppend`, `SubPattern`, `InductPatterns`), so that the three of
  each side can be followed along a text (`DecodesAll`): unescaping the whole gives back the text if no blank stands before an
  `n` or an `r`, and one that is shorter otherwise (`RoundTrip`). Pieces that neither begin nor end with a blank are unescaped like the
  whole (`UnescapedConcat`). That of any others something is lost takes a count: blanks and line ends are as many after escaping and
  unescaping as before (`Weight`, `EscapedShape`, `SubWeight`), and the server drops some (`JoinedIs`, `HeardIs`).

`PluginProofs` holds for every set of players, whatever names begin others.

* `PermittedHaveWorlds`, `AttachmentsAreCurrent`: `Spec => []WorldOfPermitted` and
  `[]AttachmentCurrent`. The first is inductive with one fact more: a world that is loaded while its player
  is away was left there (`WorldInv`); for `/nofun` of a name nobody online answers to takes the folder of its world. Every step of the whole plugin is one of
  `PlayerWorlds` or leaves the worlds alone (`StepRefines`), so what is shown of those holds of it.
* `Typing`, `ThreadsOfSessions`: `Spec => []TypeOK` and `[]ThreadOfSession`; the latter is the argument that
  a queue is made by the `/l` that also starts its thread, and that a logout removes both or neither.
* `KeepsChunks`: `Spec => []ChunksKept`. Three things have to be known besides: of a player who has gone, unless by a logout
  cut short, nothing is left in the maps (`CleanedUp`); no two players have the same queue (`Apart`); and
  what a queue was made with is what its thread has taken and what still waits in it (`Kept`).

`PluginProofs` also has the theorems about `Transcoder`, whose definitions are named for the slot where `Plugin` has the
same ones (`SlotSpec`, `SlotTypeOK`). They hold for every number of enchantments, so for the code's 25, and every set of inputs, so
for all slots of 54 bytes.

* `TranscoderTyping`, `KnownSurvive`, `SlotsRoundTrip`: `SlotSpec => []SlotTypeOK`, `[]KnownKept` and
  `[]RoundTrip`. The arithmetic is in lemmas about one byte or two (`ByteKept`, `FirstKept`,
  `LevelKept`). `ItemInv` says what the item holds at each step, and `RankStep` counts the
  enchantments the server knows, which gives the place of each pair of bytes; with all known
  the rank of an enchantment is its number, and the lists are equal.

`ProxyProofs` holds for every set of destinations and any bounds.

* `ProxyTyping`, `AnswersTheRequest`, `SendsInOrder`, `CacheAlwaysStale`: `Spec => []TypeOK`, `[]AnswersMatch`,
  `[]SentInOrder` and `[]CacheStale`. The invariant `ProxyInv` adds that requests are numbered as they are
  added (`Counted`), that what has arrived came before the request in hand, or is this request at an earlier
  try until the one under way has arrived (`Ordered`), that the one socket a server has not closed, or that has a reply, is the one in hand, while
  writing or reading (`InHand`), and that what is unread on the sockets given up answers the request in hand and is gone before the next
  is polled (`Leftover`). The retry keeps it since it gives up the socket, and counts, first.
* `ReachesTheHost`: a step sends a request only on a socket of its host, whatever the cache holds.
* `PollsInOrder`: `Spec => PolledInOrder`, the refinement of `OrderedDelivery`: requests are polled
  once each, in the order they were added.

`TokenProofs` holds for every set of accounts and every number of tokens.

* `TokenTyping`, `JoinsWhole`, `PromiseKept`, `JoinsAdmitted`: `Spec => []TypeOK`, `[]JoinWhole`,
  `[]KeepsPromise` and `[]JoinAdmitted`. `KeepsPromise` speaks of a call that has returned; what
  makes it true is what holds half way through: the answer under way belongs to a token
  that counts (`AnswerInv`), the attributes assigned so far are its own (`AssignInv`), and,
  since `refresh` does not assign the username, the one the token has is the owner's at every
  moment but between two assignments of `authenticate` (`OwnerInv`). `JoinInv` adds that
  an authenticated token stays so while a join reads it.

Only model-checked: liveness, which is beyond the prover. Every invariant a passing run checks is proved.

## What is not modelled

* The options of `start.py` and its sockets to local programs: input and output that ends,
  with the pair `accept` returns, in the exception `ChatCodec` mentions.
* `generate_verification_hash` (`encryption.py`): the digest of a library, written in hexadecimal.
* `VarInt.size` and `ShortPrefixedByteArray` (`types.py`): nothing uses them.
* `docs/conf.py`, `setup.py`: configuration.
* What a server does with an item whose amount or level it finds odd: the first byte of a
  slot may make the amount zero or negative, and `Transcoder` keeps the item as it is.
* The fields of the handshake, of the status packets and of the encryption exchange: these
  packets are told apart by their kind in `Connection`.
* Ciphers, hashes, zlib, DNS, Bukkit and the JVM: libraries. Where the code depends on
  their results they are external actions or operators.
* Teleport handler of `PlayerListener`: it writes a log that nothing reads.
* The time a round waits in `select`: the models have no clock.
* Known and not stated as properties, since a glance at the code shows them: logouts leave
  attachments in the map (`PlayerListener.java:137`); `/nofun` deletes the folder of a
  loaded world (`PlayerListener.java:88`); `/l` goes on without `/j` and `/k`
  (`MyPlugin.java:139`); a connection made after another has been compressed starts
  compressed (`connection.py:31`); the ping of `status` is queued in the reaction that also
  stops the thread, so it is never written (`connection.py:344`).

## What is left

In the order in which it would add most:

1. A request followed from the text `send_message` is given to the queue of the proxy thread:
   `ChatCodec` and `PacketReader` composed with a server between them.
2. The threads of ended sessions beside that of the current one: `ProxyServer` once for each
   session, composed with `Plugin`.
