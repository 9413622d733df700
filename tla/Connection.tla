----------------------------- MODULE Connection -----------------------------
(***************************************************************************)
(* The pyCraft client connection (minecraft/networking/connection.py):     *)
(* application threads call Connection.connect, status and write_packet;   *)
(* one NetworkingThread per connection drains the outgoing queue, reads    *)
(* packets and lets the current reactor answer them.  The server at the    *)
(* other end of each socket is external and modelled from how the code     *)
(* uses it.                                                                *)
(*                                                                         *)
(* Class attributes of Connection (_outgoing_packet_queue, _write_lock and *)
(* options) exist once per process, whatever the number of Connection      *)
(* objects: they are variables without a connection index.                 *)
(***************************************************************************)
EXTENDS Naturals, SequencesExt

CONSTANTS
  Conns,        \* the Connection objects of the process
  Modes,        \* the calls made on a connection: subset of {"connect", "status"}
  MaxChats,     \* bound: chat packets the application writes
  Urgent,       \* the chats written with force=True
  Unencodable,  \* the chats whose text String.send cannot encode: in Python 2
                \* any byte string that is not ASCII
  MaxPushes,    \* bound: keep alives and positions a server sends
  MaxInFlight,  \* bound: packets of a server not read yet
  WriteBatch,   \* packets written per round (300 in the code)
  ReadBatch,    \* packets read per round (50 in the code)
  App, Free     \* lock values that are not networking threads

ASSUME ConnectionAssumption ==
  /\ Modes \subseteq {"connect", "status"}
  /\ MaxChats \in Nat /\ MaxPushes \in Nat /\ MaxInFlight \in Nat \ {0}
  /\ WriteBatch \in Nat \ {0} /\ ReadBatch \in Nat \ {0}
  /\ Urgent \subseteq Nat /\ Unencodable \subseteq Nat
  /\ App \notin Conns /\ Free \notin Conns /\ App # Free

VARIABLES
  \* attributes of the class Connection, shared by all its instances
  queue,        \* _outgoing_packet_queue
  lock,         \* holder of _write_lock
  compressed,   \* options.compression_enabled
  address,      \* options.address and options.port
  \* attributes of one Connection object and of its networking thread
  reactor, cipher, interrupt, spawned, peer,
  \* application threads: progress of the call on each connection
  call, mode, written, hasty,
  \* networking threads: program counter, num_packets, the reactor whose
  \* read_packet is running, the packet being reacted to
  netpc, n, bound, pkt,
  \* the two directions of each socket, and the server behind it
  c2s, s2c, stage, senc, scomp, pushes, alive, echoed, heard, verdict

shared == <<queue, lock, compressed, address>>
object == <<reactor, cipher, interrupt, spawned, peer>>
caller == <<call, mode, written, hasty>>
thread == <<netpc, n, bound, pkt>>
server == <<stage, senc, scomp, pushes, alive, echoed, heard, verdict>>
vars   == <<shared, object, caller, thread, c2s, s2c, server>>

Reactors   == {"base", "login", "playing", "status"}
Serverbound == {"handshake", "login_start", "encryption_response", "request",
                "ping", "chat", "keep_alive_serverbound", "teleport_confirm",
                "position_and_look"}
Clientbound == {"disconnect", "encryption_request", "login_success",
                "set_compression", "keep_alive", "player_position_and_look",
                "response", "other", "cut"}
Counters == {"none", "top", "locking", "writing", "select", "polling", "reacting",
             "forcing", "swapping", "stopped", "dead", "garbled", "spinning"}
Stages == {"none", "handshake", "login", "greeted", "key", "ready", "play",
           "status", "closed"}

\* A packet remembers the connection it was written on (via); on the wire it
\* also carries the cipher and the framing it was sent with.
Packet == [kind : Serverbound, arg : Nat, via : Conns]
FrameUp == [kind : Serverbound, arg : Nat, via : Conns, enc : BOOLEAN, cmp : BOOLEAN]
FrameDown == [kind : Clientbound, arg : Nat, enc : BOOLEAN, cmp : BOOLEAN,
              table : Reactors]
Nothing == [kind |-> "other", arg |-> 0]

SharedType ==
  /\ queue \in Seq(Packet) /\ lock \in Conns \cup {App, Free}
  /\ compressed \in BOOLEAN /\ address \in Conns
ObjectType ==
  /\ reactor \in [Conns -> Reactors] /\ cipher \in [Conns -> BOOLEAN]
  /\ interrupt \in [Conns -> BOOLEAN] /\ spawned \in [Conns -> BOOLEAN]
  /\ peer \in [Conns -> Conns]
CallerType ==
  /\ call \in [Conns -> 0 .. 6] /\ mode \in [Conns -> {"connect", "status"}]
  /\ written \in Nat /\ hasty \in [Conns -> BOOLEAN]
ThreadType ==
  /\ netpc \in [Conns -> Counters] /\ n \in [Conns -> Nat]
  /\ bound \in [Conns -> Reactors] /\ pkt \in [Conns -> [kind : Clientbound, arg : Nat]]
WireType ==
  c2s \in [Conns -> Seq(FrameUp)] /\ s2c \in [Conns -> Seq(FrameDown)]
ServerType ==
  /\ stage \in [Conns -> Stages]
  /\ senc \in [Conns -> BOOLEAN] /\ scomp \in [Conns -> BOOLEAN]
  /\ pushes \in [Conns -> Nat] /\ alive \in [Conns -> Nat]
  /\ echoed \in [Conns -> Seq(Nat)] /\ heard \in [Conns -> Seq(Nat)]
  /\ verdict \in [Conns -> Serverbound \cup {"none"}]

TypeOK == SharedType /\ ObjectType /\ CallerType /\ ThreadType /\ WireType /\ ServerType

Init ==
  /\ queue = <<>> /\ lock = Free /\ compressed = FALSE /\ address \in Conns
  /\ reactor = [c \in Conns |-> "base"] /\ cipher = [c \in Conns |-> FALSE]
  /\ interrupt = [c \in Conns |-> FALSE] /\ spawned = [c \in Conns |-> FALSE]
  /\ peer = [c \in Conns |-> c]
  /\ call = [c \in Conns |-> 0] /\ mode \in [Conns -> Modes]
  /\ written = 0 /\ hasty = [c \in Conns |-> FALSE]
  /\ netpc = [c \in Conns |-> "none"] /\ n = [c \in Conns |-> 0]
  /\ bound = [c \in Conns |-> "base"] /\ pkt = [c \in Conns |-> Nothing]
  /\ c2s = [c \in Conns |-> <<>>] /\ s2c = [c \in Conns |-> <<>>]
  /\ stage = [c \in Conns |-> "none"]
  /\ senc = [c \in Conns |-> FALSE] /\ scomp = [c \in Conns |-> FALSE]
  /\ pushes = [c \in Conns |-> 0] /\ alive = [c \in Conns |-> 0]
  /\ echoed = [c \in Conns |-> <<>>] /\ heard = [c \in Conns |-> <<>>]
  /\ verdict = [c \in Conns |-> "none"]
-----------------------------------------------------------------------------
(* Writing.  Each definition named a mutant is a plausible mistake in the    *)
(* definition it names; it is part of no specification and shows that the   *)
(* properties notice the mistake.                                           *)

\* write_packet(packet, force=False): the packet joins the shared queue.
Enqueue(c, k, a) == queue' = Append(queue, [kind |-> k, arg |-> a, via |-> c])

\* The fields of a packet are encoded into a buffer before any byte of it is
\* sent.
Encodes(p) == p.kind = "chat" => p.arg \notin Unencodable

\* packet.write(self.socket, ...): the frame leaves through the socket c has
\* now, with its cipher and the process-wide compression setting.  Bytes sent
\* to a server that has closed are lost.
Transmit(c, p) ==
  /\ Encodes(p)
  /\ c2s' = IF stage[c] = "closed" THEN c2s
            ELSE [c2s EXCEPT ![c] = Append(@,
                    [kind |-> p.kind, arg |-> p.arg, via |-> p.via,
                     enc |-> cipher[c], cmp |-> compressed])]

\* ... or it raises and nothing is sent: the peer has closed, or a field cannot
\* be encoded.
SendRaises(c, p) == (stage[c] = "closed" \/ ~Encodes(p)) /\ UNCHANGED c2s
-----------------------------------------------------------------------------
(* Application threads *)

\* Mutant of Script: the reactor is installed after the last statement.
ScriptReactorLast(m) ==
  <<"new", "open", "handshake", "thread", "first_packet", "reactor">>

\* The statements of connect() and status(), after the constructor; call[c]
\* counts those done.  connect installs its reactor before it starts the
\* thread, status after.
Script(m) ==
  IF m = "connect"
    THEN <<"new", "open", "handshake", "reactor", "thread", "first_packet">>
    ELSE <<"new", "open", "handshake", "thread", "reactor", "first_packet">>

Does(c, statement) ==
  /\ call[c] < Len(Script(mode[c])) /\ Script(mode[c])[call[c] + 1] = statement
  /\ call' = [call EXCEPT ![c] = @ + 1]

Returned(c) == call[c] = Len(Script(mode[c]))

\* Connection(address, port, auth_token): stores its address in the options
\* all connections share.
New(c) ==
  /\ Does(c, "new") /\ address' = c
  /\ UNCHANGED <<queue, lock, compressed, object, mode, written, hasty, thread,
                 c2s, s2c, server>>

\* _connect: a socket to whatever address the options hold now.
Open(c) ==
  /\ Does(c, "open")
  /\ peer' = [peer EXCEPT ![c] = address]
  /\ stage' = [stage EXCEPT ![c] = "handshake"]
  /\ UNCHANGED <<shared, reactor, cipher, interrupt, spawned, mode, written,
                 hasty, thread, c2s, s2c, senc, scomp, pushes, alive, echoed,
                 heard, verdict>>

\* _handshake(next_state): 2 for connect, 1 for status.
Handshake(c) ==
  /\ Does(c, "handshake")
  /\ Enqueue(c, "handshake", IF mode[c] = "connect" THEN 2 ELSE 1)
  /\ UNCHANGED <<lock, compressed, address, object, mode, written, hasty, thread,
                 c2s, s2c, server>>

SetReactor(c) ==
  /\ Does(c, "reactor")
  /\ reactor' = [reactor EXCEPT ![c] = IF mode[c] = "connect" THEN "login" ELSE "status"]
  /\ UNCHANGED <<shared, cipher, interrupt, spawned, peer, mode, written, hasty,
                 thread, c2s, s2c, server>>

\* _start_network_thread.
StartThread(c) ==
  /\ Does(c, "thread")
  /\ netpc' = [netpc EXCEPT ![c] = "top"]
  /\ UNCHANGED <<shared, object, mode, written, hasty, n, bound, pkt, c2s, s2c,
                 server>>

\* Login start after connect(), request after status().
FirstPacket(c) ==
  /\ Does(c, "first_packet")
  /\ Enqueue(c, IF mode[c] = "connect" THEN "login_start" ELSE "request", 0)
  /\ UNCHANGED <<lock, compressed, address, object, mode, written, hasty, thread,
                 c2s, s2c, server>>

\* Mutant of WriteChat: write_packet without its else.
WriteChatBoth(c) ==
  /\ mode[c] = "connect" /\ Returned(c) /\ written < MaxChats
  /\ written' = written + 1
  /\ hasty' = [hasty EXCEPT ![c] = @ \/ ~spawned[c]]
  /\ Enqueue(c, "chat", written')
  /\ IF written' \in Urgent
       THEN lock = Free /\ Transmit(c, [kind |-> "chat", arg |-> written', via |-> c])
       ELSE UNCHANGED c2s
  /\ UNCHANGED <<lock, compressed, address, object, call, mode, thread, s2c, server>>

\* The application writes its next chat once connect() has returned, whether
\* or not the player has spawned.  A forced write needs the lock, goes straight
\* to the socket, and leaves the lock held when the send raises.
WriteChat(c) ==
  /\ mode[c] = "connect" /\ Returned(c) /\ written < MaxChats
  /\ written' = written + 1
  /\ hasty' = [hasty EXCEPT ![c] = @ \/ ~spawned[c]]
  /\ IF written' \notin Urgent
       THEN Enqueue(c, "chat", written') /\ UNCHANGED <<lock, c2s>>
       ELSE /\ lock = Free
            /\ \/ Transmit(c, [kind |-> "chat", arg |-> written', via |-> c])
                  /\ UNCHANGED lock
               \/ SendRaises(c, [kind |-> "chat", arg |-> written', via |-> c])
                  /\ lock' = App
            /\ UNCHANGED queue
  /\ UNCHANGED <<compressed, address, object, call, mode, thread, s2c, server>>

Call(c) ==
  New(c) \/ Open(c) \/ Handshake(c) \/ SetReactor(c) \/ StartThread(c)
  \/ FirstPacket(c)

Application(c) == Call(c) \/ WriteChat(c)
-----------------------------------------------------------------------------
(* NetworkingThread.run: the writing half of a round *)

NetTop(c) ==
  /\ netpc[c] = "top"
  /\ netpc' = [netpc EXCEPT ![c] = IF interrupt[c] THEN "stopped" ELSE "locking"]
  /\ n' = [n EXCEPT ![c] = 0]
  /\ UNCHANGED <<shared, object, caller, bound, pkt, c2s, s2c, server>>

NetLock(c) ==
  /\ netpc[c] = "locking" /\ lock = Free
  /\ lock' = c /\ netpc' = [netpc EXCEPT ![c] = "writing"]
  /\ UNCHANGED <<queue, compressed, address, object, caller, n, bound, pkt, c2s,
                 s2c, server>>

\* Mutant of StopWriting: the lock is not released.
StopWritingLocked(c) ==
  netpc' = [netpc EXCEPT ![c] = "select"] /\ n' = [n EXCEPT ![c] = 0] /\ UNCHANGED lock

\* Leave the write loop: release the lock, start reading.
StopWriting(c) ==
  /\ lock' = Free
  /\ netpc' = [netpc EXCEPT ![c] = "select"] /\ n' = [n EXCEPT ![c] = 0]

NetDrained(c) ==
  /\ netpc[c] = "writing" /\ queue = <<>>
  /\ StopWriting(c)
  /\ UNCHANGED <<queue, compressed, address, object, caller, bound, pkt, c2s, s2c,
                 server>>

\* Mutant of NetPop: pop for popleft.
NetPopNewest(c) ==
  /\ netpc[c] = "writing" /\ queue # <<>>
  /\ queue' = SubSeq(queue, 1, Len(queue) - 1) /\ Transmit(c, queue[Len(queue)])
  /\ IF n[c] + 1 >= WriteBatch
       THEN StopWriting(c)
       ELSE n' = [n EXCEPT ![c] = @ + 1] /\ UNCHANGED <<lock, netpc>>
  /\ UNCHANGED <<compressed, address, object, caller, bound, pkt, s2c, server>>

NetPop(c) ==
  /\ netpc[c] = "writing" /\ queue # <<>>
  /\ queue' = Tail(queue) /\ Transmit(c, Head(queue))
  /\ IF n[c] + 1 >= WriteBatch
       THEN StopWriting(c)
       ELSE n' = [n EXCEPT ![c] = @ + 1] /\ UNCHANGED <<lock, netpc>>
  /\ UNCHANGED <<compressed, address, object, caller, bound, pkt, s2c, server>>

\* The write raises out of run(): the packet is gone and the thread ends without
\* releasing the lock.
NetPopRaises(c) ==
  /\ netpc[c] = "writing" /\ queue # <<>>
  /\ queue' = Tail(queue) /\ SendRaises(c, Head(queue))
  /\ netpc' = [netpc EXCEPT ![c] = "dead"]
  /\ UNCHANGED <<lock, compressed, address, object, caller, n, bound, pkt, s2c,
                 server>>
-----------------------------------------------------------------------------
(* NetworkingThread.run: the reading half of a round *)

\* self.connection.reactor.read_packet: the reactor is looked up before select.
NetSelect(c) ==
  /\ netpc[c] = "select"
  /\ bound' = [bound EXCEPT ![c] = reactor[c]]
  /\ netpc' = [netpc EXCEPT ![c] = "polling"]
  /\ UNCHANGED <<shared, object, caller, n, pkt, c2s, s2c, server>>

\* select times out, read_packet returns None, the round is over.
NetTimeout(c) ==
  /\ netpc[c] = "polling" /\ s2c[c] = <<>> /\ stage[c] # "closed"
  /\ netpc' = [netpc EXCEPT ![c] = "top"]
  /\ UNCHANGED <<shared, object, caller, n, bound, pkt, c2s, s2c, server>>

\* VarInt.read_socket meets the end of the stream and raises.
NetEof(c) ==
  /\ netpc[c] = "polling" /\ s2c[c] = <<>> /\ stage[c] = "closed"
  /\ netpc' = [netpc EXCEPT ![c] = "dead"]
  /\ UNCHANGED <<shared, object, caller, n, bound, pkt, c2s, s2c, server>>

\* The stream ended inside a packet: stream.read returns nothing for ever, and
\* the loop that completes the packet never ends.
NetSpin(c) ==
  /\ netpc[c] = "polling" /\ s2c[c] # <<>> /\ Head(s2c[c]).kind = "cut"
  /\ netpc' = [netpc EXCEPT ![c] = "spinning"]
  /\ UNCHANGED <<shared, object, caller, n, bound, pkt, c2s, s2c, server>>

\* What the thread needs to make sense of a frame: the cipher and the framing
\* it was sent with, and a reactor with the packet table of its state.  The
\* base reactor has no table and raises.
Decodes(c, f) == f.enc = cipher[c] /\ f.cmp = compressed /\ f.table = bound[c]

NetRead(c) ==
  /\ netpc[c] = "polling" /\ s2c[c] # <<>> /\ Head(s2c[c]).kind # "cut"
  /\ s2c' = [s2c EXCEPT ![c] = Tail(@)]
  /\ LET f == Head(s2c[c]) IN
       IF Decodes(c, f)
         THEN /\ netpc' = [netpc EXCEPT ![c] = "reacting"]
              /\ pkt' = [pkt EXCEPT ![c] = [kind |-> f.kind, arg |-> f.arg]]
         ELSE netpc' = [netpc EXCEPT ![c] = "garbled"] /\ UNCHANGED pkt
  /\ UNCHANGED <<shared, object, caller, n, bound, c2s, server>>
-----------------------------------------------------------------------------
(* The reactors *)

\* Mutant of NextRead: no limit on the packets read in a round.
NextReadEndless(c) ==
  /\ netpc' = [netpc EXCEPT ![c] = "select"] /\ n' = n
  /\ pkt' = [pkt EXCEPT ![c] = Nothing]

\* One more packet read: the next one, or the end of the round.
NextRead(c) ==
  /\ netpc' = [netpc EXCEPT ![c] = IF n[c] + 1 >= ReadBatch THEN "top" ELSE "select"]
  /\ n' = [n EXCEPT ![c] = @ + 1] /\ pkt' = [pkt EXCEPT ![c] = Nothing]

Reacting(c, k) == netpc[c] = "reacting" /\ pkt[c].kind = k

\* LoginReactor, encryption request: join() may raise and end the thread; if
\* it does not, the response is written with force=True.
ReactKey(c) ==
  /\ Reacting(c, "encryption_request") /\ reactor[c] = "login"
  /\ \/ netpc' = [netpc EXCEPT ![c] = "forcing"]
     \/ netpc' = [netpc EXCEPT ![c] = "dead"]
  /\ UNCHANGED <<shared, object, caller, n, bound, pkt, c2s, s2c, server>>

\* Mutant of NetForce: the response is queued like any packet.
NetForceQueued(c) ==
  /\ netpc[c] = "forcing"
  /\ Enqueue(c, "encryption_response", 0)
  /\ netpc' = [netpc EXCEPT ![c] = "swapping"]
  /\ UNCHANGED <<lock, compressed, address, object, caller, n, bound, pkt, c2s, s2c,
                 server>>

NetForce(c) ==
  /\ netpc[c] = "forcing" /\ lock = Free
  /\ LET p == [kind |-> "encryption_response", arg |-> 0, via |-> c] IN
       \/ Transmit(c, p) /\ netpc' = [netpc EXCEPT ![c] = "swapping"] /\ UNCHANGED lock
       \/ SendRaises(c, p) /\ netpc' = [netpc EXCEPT ![c] = "dead"] /\ lock' = c
  /\ UNCHANGED <<queue, compressed, address, object, caller, n, bound, pkt, s2c,
                 server>>

\* Mutant of NetSwap: the wrappers are made and not installed.
NetSwapForgotten(c) ==
  /\ netpc[c] = "swapping" /\ NextRead(c)
  /\ UNCHANGED <<shared, object, caller, bound, c2s, s2c, server>>

\* The socket and the file object are replaced by their encrypting wrappers.
NetSwap(c) ==
  /\ netpc[c] = "swapping"
  /\ cipher' = [cipher EXCEPT ![c] = TRUE] /\ NextRead(c)
  /\ UNCHANGED <<shared, reactor, interrupt, spawned, peer, caller, bound, c2s,
                 s2c, server>>

\* Mutant of ReactSuccess: the name of the state for the reactor.
ReactSuccessByState(c) ==
  /\ Reacting(c, "login_success") /\ reactor[c] = "login"
  /\ reactor' = [reactor EXCEPT ![c] = "play"] /\ NextRead(c)
  /\ UNCHANGED <<shared, cipher, interrupt, spawned, peer, caller, bound, c2s,
                 s2c, server>>

ReactSuccess(c) ==
  /\ Reacting(c, "login_success") /\ reactor[c] = "login"
  /\ reactor' = [reactor EXCEPT ![c] = "playing"] /\ NextRead(c)
  /\ UNCHANGED <<shared, cipher, interrupt, spawned, peer, caller, bound, c2s,
                 s2c, server>>

ReactCompression(c) ==
  /\ Reacting(c, "set_compression") /\ reactor[c] \in {"login", "playing"}
  /\ compressed' = TRUE /\ NextRead(c)
  /\ UNCHANGED <<queue, lock, address, object, caller, bound, c2s, s2c, server>>

\* Mutant of ReactKeepAlive: appendleft for append.
ReactKeepAliveFirst(c) ==
  /\ Reacting(c, "keep_alive") /\ reactor[c] = "playing"
  /\ queue' = <<[kind |-> "keep_alive_serverbound", arg |-> pkt[c].arg, via |-> c]>>
                \o queue
  /\ NextRead(c)
  /\ UNCHANGED <<lock, compressed, address, object, caller, bound, c2s, s2c, server>>

ReactKeepAlive(c) ==
  /\ Reacting(c, "keep_alive") /\ reactor[c] = "playing"
  /\ Enqueue(c, "keep_alive_serverbound", pkt[c].arg) /\ NextRead(c)
  /\ UNCHANGED <<lock, compressed, address, object, caller, bound, c2s, s2c, server>>

\* A teleport id of 0 is answered with the position, any other confirmed.
ReactPosition(c) ==
  /\ Reacting(c, "player_position_and_look") /\ reactor[c] = "playing"
  /\ IF pkt[c].arg # 0 THEN Enqueue(c, "teleport_confirm", pkt[c].arg)
                       ELSE Enqueue(c, "position_and_look", 0)
  /\ spawned' = [spawned EXCEPT ![c] = TRUE] /\ NextRead(c)
  /\ UNCHANGED <<lock, compressed, address, reactor, cipher, interrupt, peer,
                 caller, bound, c2s, s2c, server>>

\* StatusReactor: queue a ping, then tell the own thread to stop.
ReactResponse(c) ==
  /\ Reacting(c, "response") /\ reactor[c] = "status"
  /\ Enqueue(c, "ping", 0)
  /\ interrupt' = [interrupt EXCEPT ![c] = TRUE] /\ NextRead(c)
  /\ UNCHANGED <<lock, compressed, address, reactor, cipher, spawned, peer,
                 caller, bound, c2s, s2c, server>>

\* A disconnect is printed; a packet no reactor knows is skipped.
ReactNothing(c) ==
  /\ Reacting(c, "disconnect") \/ Reacting(c, "other")
  /\ NextRead(c)
  /\ UNCHANGED <<shared, object, caller, bound, c2s, s2c, server>>

React(c) ==
  ReactKey(c) \/ NetForce(c) \/ NetSwap(c) \/ ReactSuccess(c)
  \/ ReactCompression(c) \/ ReactKeepAlive(c) \/ ReactPosition(c)
  \/ ReactResponse(c) \/ ReactNothing(c)

Network(c) ==
  NetTop(c) \/ NetLock(c) \/ NetDrained(c) \/ NetPop(c) \/ NetPopRaises(c)
  \/ NetSelect(c) \/ NetTimeout(c) \/ NetEof(c) \/ NetSpin(c)
  \/ NetRead(c) \/ React(c)
-----------------------------------------------------------------------------
(* The server behind a socket (external) *)

TableOf(s) == CASE s = "play" -> "playing" [] s = "status" -> "status" [] OTHER -> "login"

Push(c, k, a) ==
  /\ Len(s2c[c]) < MaxInFlight
  /\ s2c' = [s2c EXCEPT ![c] = Append(@,
       [kind |-> k, arg |-> a, enc |-> senc[c], cmp |-> scomp[c],
        table |-> TableOf(stage[c])])]

\* The packets a server takes in each stage; any other, or one it cannot
\* decipher, makes it drop the connection.
Takes(s) ==
  CASE s = "handshake" -> {"handshake"}
    [] s = "login"     -> {"login_start"}
    [] s = "key"       -> {"encryption_response"}
    [] s = "play"      -> {"chat", "keep_alive_serverbound", "teleport_confirm",
                           "position_and_look"}
    [] s = "status"    -> {"request", "ping"}
    [] OTHER           -> {}

Legal(c, f) == f.enc = senc[c] /\ f.cmp = scomp[c] /\ f.kind \in Takes(stage[c])

ServerReject(c) ==
  /\ c2s[c] # <<>> /\ stage[c] # "closed"
  /\ ~Legal(c, Head(c2s[c]))
  /\ verdict' = [verdict EXCEPT ![c] = Head(c2s[c]).kind]
  /\ stage' = [stage EXCEPT ![c] = "closed"] /\ c2s' = [c2s EXCEPT ![c] = <<>>]
  /\ UNCHANGED <<shared, object, caller, thread, s2c, senc, scomp, pushes, alive,
                 echoed, heard>>

ServerTake(c) ==
  /\ c2s[c] # <<>> /\ stage[c] # "closed"
  /\ LET f == Head(c2s[c]) IN
       /\ Legal(c, f)
       /\ stage' = [stage EXCEPT ![c] =
            CASE f.kind = "handshake" -> IF f.arg = 2 THEN "login" ELSE "status"
              [] f.kind = "login_start" -> "greeted"
              [] f.kind = "encryption_response" -> "ready"
              [] OTHER -> @]
       /\ senc' = [senc EXCEPT ![c] = @ \/ f.kind = "encryption_response"]
       /\ heard' = [heard EXCEPT ![c] = IF f.kind = "chat" THEN Append(@, f.arg) ELSE @]
       /\ echoed' = [echoed EXCEPT ![c] =
            IF f.kind = "keep_alive_serverbound" THEN Append(@, f.arg) ELSE @]
       /\ IF f.kind = "request" THEN Push(c, "response", 0) ELSE UNCHANGED s2c
  /\ c2s' = [c2s EXCEPT ![c] = Tail(@)]
  /\ UNCHANGED <<shared, object, caller, thread, scomp, pushes, alive, verdict>>

\* Login: ask for encryption or not, set compression or not, accept.
ServerLogin(c) ==
  /\ \/ /\ stage[c] = "greeted" /\ Push(c, "encryption_request", 0)
        /\ stage' = [stage EXCEPT ![c] = "key"] /\ UNCHANGED scomp
     \/ /\ stage[c] \in {"greeted", "ready"} /\ ~scomp[c]
        /\ Push(c, "set_compression", 0)
        /\ stage' = [stage EXCEPT ![c] = "ready"]
        /\ scomp' = [scomp EXCEPT ![c] = TRUE]
     \/ /\ stage[c] \in {"greeted", "ready"} /\ Push(c, "login_success", 0)
        /\ stage' = [stage EXCEPT ![c] = "play"] /\ UNCHANGED scomp
  /\ UNCHANGED <<shared, object, caller, thread, c2s, senc, pushes, alive, echoed,
                 heard, verdict>>

ServerKeepAlive(c) ==
  /\ stage[c] = "play" /\ pushes[c] < MaxPushes
  /\ pushes' = [pushes EXCEPT ![c] = @ + 1] /\ alive' = [alive EXCEPT ![c] = @ + 1]
  /\ Push(c, "keep_alive", alive[c] + 1)
  /\ UNCHANGED <<shared, object, caller, thread, c2s, stage, senc, scomp, echoed,
                 heard, verdict>>

ServerPosition(c) ==
  /\ stage[c] = "play" /\ pushes[c] < MaxPushes
  /\ pushes' = [pushes EXCEPT ![c] = @ + 1]
  /\ \E id \in 0 .. 1 : Push(c, "player_position_and_look", id)
  /\ UNCHANGED <<shared, object, caller, thread, c2s, stage, senc, scomp, alive,
                 echoed, heard, verdict>>

\* The rest of the game traffic, without end.
ServerOther(c) ==
  /\ stage[c] = "play" /\ Push(c, "other", 0)
  /\ UNCHANGED <<shared, object, caller, thread, c2s, server>>

\* The server closes the socket: silently, after a disconnect packet, or with
\* a last packet cut short.
ServerClose(c) ==
  /\ stage[c] \notin {"none", "closed"}
  /\ \/ UNCHANGED s2c
     \/ /\ stage[c] \in {"greeted", "ready", "play"}
        /\ \E k \in {"disconnect", "cut"} : Push(c, k, 0)
  /\ stage' = [stage EXCEPT ![c] = "closed"] /\ c2s' = [c2s EXCEPT ![c] = <<>>]
  /\ UNCHANGED <<shared, object, caller, thread, senc, scomp, pushes, alive,
                 echoed, heard, verdict>>

Server(c) ==
  ServerReject(c) \/ ServerTake(c) \/ ServerLogin(c) \/ ServerKeepAlive(c)
  \/ ServerPosition(c) \/ ServerOther(c) \/ ServerClose(c)
-----------------------------------------------------------------------------
Next == \E c \in Conns : Application(c) \/ Network(c) \/ Server(c)

Spec == Init /\ [][Next]_vars

\* The threads are scheduled, and a server goes on with what it was asked: it
\* takes what it is sent and finishes the login.  When the application writes,
\* and what else a server sends or when it closes, is left open.
Fairness == \A c \in Conns :
  /\ WF_vars(Network(c))
  /\ WF_vars(Call(c))
  /\ WF_vars(ServerTake(c) \/ ServerReject(c)) /\ WF_vars(ServerLogin(c))

FairSpec == Spec /\ Fairness
-----------------------------------------------------------------------------
(* Safety *)

\* Every frame a connection reads, it reads with the cipher and the framing the
\* server sent it with and with the packet table of the state the server was
\* in: the reactor, the cipher and the compression switch follow the stream.
StreamInStep == \A c \in Conns : netpc[c] # "garbled"

\* The server drops the connection for something it was sent only if that is a
\* chat, and the application wrote one before the player had spawned: what the
\* library writes of itself is always legal where it arrives.
RejectedOnlyIfHasty ==
  \A c \in Conns : verdict[c] # "none" => verdict[c] = "chat" /\ hasty[c]

\* A chat among those in S that cannot be encoded has been written.
Babbled(S) == \E k \in 1 .. written : k \in S /\ k \in Unencodable

\* The write lock belongs to the thread that writes.  It stays for ever with one
\* that writes no more only when a write raised: behind a closed peer, or for a
\* chat that cannot be encoded, in the networking thread when it was queued and
\* in the application when it was forced.
LockOfWriter ==
  /\ \A c \in Conns : netpc[c] = "writing" => lock = c
  /\ \A c \in Conns : lock = c /\ netpc[c] # "writing" =>
       netpc[c] = "dead" /\ (stage[c] = "closed" \/ Babbled(Nat \ Urgent))
  /\ lock = App => (\E c \in Conns : stage[c] = "closed") \/ Babbled(Urgent)

\* The arguments of the packets of kind k in s, in their order.
ArgsOf(k, s) == FlattenSeq([i \in 1 .. Len(s) |->
  IF s[i].kind = k THEN <<s[i].arg>> ELSE <<>>])
BeingRead(c) == IF Reacting(c, "keep_alive") THEN <<pkt[c].arg>> ELSE <<>>

\* While the server is there, every keep alive it has sent is answered, or its
\* answer is on its way, or it is being read, or it is on its way itself: once,
\* and in the order sent.
KeepAlivesKept == \A c \in Conns : stage[c] # "closed" =>
  echoed[c] \o ArgsOf("keep_alive_serverbound", c2s[c])
    \o ArgsOf("keep_alive_serverbound", queue) \o BeingRead(c) \o ArgsOf("keep_alive", s2c[c])
  = [i \in 1 .. alive[c] |-> i]

\* No chat reaches servers twice, whatever connections and threads wrote.
ChatOnce == \A c, d \in Conns : \A i \in DOMAIN heard[c], j \in DOMAIN heard[d] :
  heard[c][i] = heard[d][j] => c = d /\ i = j
=============================================================================
