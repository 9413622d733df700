------------------------ MODULE ConnectionInvariants ------------------------
(***************************************************************************)
(* The inductive invariants behind the safety properties of Connection.    *)
(***************************************************************************)
EXTENDS Connection

\* How far connect() or status() has come bounds what else can have happened.
Started(c) == call[c] \in {5, 6} \/ (call[c] = 4 /\ mode[c] # "connect")
ScriptAt(c) ==
  /\ call[c] \in {0, 1} => stage[c] = "none" /\ c2s[c] = <<>>
  /\ ~Started(c) => netpc[c] = "none"
ScriptInv == \A c \in Conns : ScriptAt(c)

\* The chats on the queue have been written, and not with force.
QueuedInv == \A i \in 1 .. Len(queue) :
  queue[i].kind = "chat" => queue[i].arg \in 1 .. written /\ queue[i].arg \notin Urgent
-----------------------------------------------------------------------------
(* The stream from the server and the state of its reader, of one connection *)

Alive(c) == netpc[c] \notin {"dead", "stopped", "spinning"}

\* Cipher, framing and packet table: of a frame, of the client now, and after
\* a packet of kind k has been reacted to.
Stamp(f) == [enc |-> f.enc, cmp |-> f.cmp, table |-> f.table]
Current(c) == [enc |-> cipher[c], cmp |-> compressed, table |-> reactor[c]]
After(st, k) ==
  [enc |-> st.enc \/ k = "encryption_request", cmp |-> st.cmp \/ k = "set_compression",
   table |-> IF k = "login_success" THEN "playing" ELSE st.table]

\* The client's settings once the packet in hand is dealt with, and what the
\* server will use for its next frame.
Busy(c) == netpc[c] \in {"reacting", "forcing", "swapping"}
Expected(c) == IF Busy(c) THEN After(Current(c), pkt[c].kind) ELSE Current(c)
Promised(c) == [enc |-> senc[c] \/ stage[c] = "key", cmp |-> scomp[c],
                table |-> TableOf(stage[c])]

\* A reader with settings st reads all of s, and ends with the settings End.
Chained(s, st) ==
  /\ s # <<>> => Stamp(s[1]) = st
  /\ \A i \in 1 .. Len(s) - 1 : Stamp(s[i + 1]) = After(Stamp(s[i]), s[i].kind)
End(s, st) == IF s = <<>> THEN st ELSE After(Stamp(s[Len(s)]), s[Len(s)].kind)

\* connect() or status() has queued all it queues.
Begun(c) == call[c] = 6

\* The server has not heard the login start or the request yet; it has, and is
\* there to say something.
Early(c) == stage[c] \in {"none", "handshake", "login"}
Talks(c) == ~Early(c) /\ stage[c] # "closed" /\ Begun(c)

\* Until then the stream is empty and nothing is encrypted or compressed.
Quiet(c) ==
  /\ Early(c) \/ ~Begun(c) =>
       s2c[c] = <<>> /\ ~senc[c] /\ ~scomp[c] /\ ~cipher[c] /\ ~compressed /\ ~Busy(c)
  /\ ~Begun(c) => Early(c) \/ stage[c] \in {"status", "closed"}

\* The reactor and the server's stage are those of the call made.
Modal(c) ==
  /\ mode[c] = "connect" => (call[c] \in {4, 5, 6} /\ Early(c) => reactor[c] = "login")
  /\ mode[c] = "status" => (call[c] \in {5, 6} => reactor[c] = "status")
  /\ stage[c] \in {"login", "greeted", "key", "ready", "play"} => mode[c] = "connect"
  /\ stage[c] = "status" => mode[c] = "status"

\* So are the packets on their way to the server.
Fits(c, k, a) ==
  /\ k = "handshake" => a = IF mode[c] = "connect" THEN 2 ELSE 1
  /\ k \in {"login_start", "request"} => Begun(c)
Letters(c) ==
  /\ \A i \in 1 .. Len(queue) : Fits(c, queue[i].kind, queue[i].arg)
  /\ \A i \in 1 .. Len(c2s[c]) : Fits(c, c2s[c][i].kind, c2s[c][i].arg)

\* A read under way under a reactor that has been replaced since finds nothing.
Stale(c) == netpc[c] = "polling" /\ bound[c] # reactor[c]
Idle(c) == Stale(c) =>
  /\ mode[c] = "status" /\ s2c[c] = <<>>
  /\ \A i \in 1 .. Len(c2s[c]) : c2s[c][i].kind # "request"

\* What is forced out and followed by the swap is the answer to a request.
Held(c) == netpc[c] \in {"forcing", "swapping"} => pkt[c].kind = "encryption_request"

\* The reader reads all the server has sent, and will send, in step.
Reading(c) ==
  /\ netpc[c] # "garbled"
  /\ Alive(c) => /\ Chained(s2c[c], Expected(c))
                 /\ Talks(c) => Promised(c) = End(s2c[c], Expected(c))

StreamAt(c) == Quiet(c) /\ Modal(c) /\ Letters(c) /\ Idle(c) /\ Held(c) /\ Reading(c)
StreamInv == \A c \in Conns : StreamAt(c)
-----------------------------------------------------------------------------
(* The packets on their way to the server of one connection, while it is     *)
(* there                                                                     *)

First(c) == IF mode[c] = "connect" THEN "login_start" ELSE "request"
InPlay == {"keep_alive_serverbound", "teleport_confirm", "position_and_look"}

\* The packets, but for chats, that may still be on their way in a stage.
Due(c) ==
  CASE stage[c] = "handshake" -> {"handshake", First(c)}
    [] stage[c] = "login"     -> {"login_start"}
    [] stage[c] = "key"       -> {"encryption_response"}
    [] stage[c] = "play"      -> InPlay
    [] stage[c] = "status"    -> {"request", "ping"}
    [] OTHER                  -> {}

Waits(k) == \E i \in 1 .. Len(queue) : queue[i].kind = k
Travels(c, k) == \E i \in 1 .. Len(c2s[c]) : c2s[c][i].kind = k
Single(s, k) == \A i, j \in 1 .. Len(s) : s[i].kind = k /\ s[j].kind = k => i = j

\* Nothing else is on its way, and what the server takes once is there once.
Wanted(c) ==
  /\ \A i \in 1 .. Len(queue) : queue[i].kind = "chat" \/
       (queue[i].kind \in Due(c) /\ queue[i].kind # "encryption_response")
  /\ \A i \in 1 .. Len(c2s[c]) : c2s[c][i].kind \in Due(c) \cup {"chat"}
  /\ \A k \in {"handshake", First(c), "encryption_response"} :
       Single(queue, k) /\ Single(c2s[c], k) /\ ~(Waits(k) /\ Travels(c, k))

\* The handshake comes first.
Ordered(c) ==
  /\ stage[c] = "none" => call[c] \in {0, 1}
  /\ call[c] = 2 => stage[c] = "handshake"
  /\ call[c] \in {0, 1, 2} => queue = <<>> /\ c2s[c] = <<>>
  /\ \A i \in 1 .. Len(queue) : queue[i].kind = "handshake" => i = 1
  /\ Waits("handshake") => ~Travels(c, First(c))
  /\ stage[c] = "handshake" =>
       /\ call[c] \notin {0, 1, 2} => Waits("handshake") \/ Travels(c, "handshake")
       /\ \A i \in 1 .. Len(c2s[c]) : c2s[c][i].kind = First(c) =>
            \E j \in 1 .. i - 1 : c2s[c][j].kind = "handshake"

\* The server can decipher all but hasty chats, and the client is in step with it
\* whenever it has anything else to send.
Tuned(c) == cipher[c] = senc[c] /\ compressed = scomp[c]
Legible(c) ==
  \A i \in 1 .. Len(c2s[c]) : LET f == c2s[c][i] IN
    /\ f.kind # "chat" \/ ~hasty[c] => f.enc = senc[c] /\ f.cmp = scomp[c]
    /\ f.kind = "chat" /\ ~hasty[c] => stage[c] = "play"
Playing(c) ==
  /\ reactor[c] = "playing" => stage[c] = "play" /\ Tuned(c) /\ netpc[c] # "swapping"
  /\ spawned[c] => reactor[c] = "playing"
  /\ \A i \in 1 .. Len(queue) :
       queue[i].kind \in InPlay \/ (queue[i].kind = "chat" /\ ~hasty[c])
         => reactor[c] = "playing"

\* What the server has sent in each stage, and where the client is with it.
Clean(c) == ~cipher[c] /\ ~compressed /\ ~senc[c] /\ ~scomp[c]
Asked(c) ==
  /\ stage[c] \in {"none", "handshake", "login", "greeted"} =>
       Clean(c) /\ s2c[c] = <<>> /\ ~Busy(c)
  /\ stage[c] = "status" =>
       /\ Clean(c) /\ \A i \in 1 .. Len(s2c[c]) : s2c[c][i].kind = "response"
       /\ Busy(c) => netpc[c] = "reacting" /\ pkt[c].kind = "response"
  /\ stage[c] = "key" =>
       /\ ~compressed /\ ~senc[c] /\ ~scomp[c] /\ Len(s2c[c]) <= 1
       /\ \A i \in 1 .. Len(s2c[c]) : s2c[c][i].kind = "encryption_request"
       /\ s2c[c] # <<>> => ~Busy(c)
       /\ s2c[c] # <<>> \/ netpc[c] \in {"reacting", "forcing"} =>
            ~cipher[c] /\ ~Travels(c, "encryption_response")
       /\ netpc[c] = "reacting" => pkt[c].kind = "encryption_request"
Answered(c) ==
  stage[c] \in {"ready", "play"} =>
       /\ netpc[c] # "forcing"
       /\ \A i \in 1 .. Len(s2c[c]) : LET f == s2c[c][i] IN
            \/ f.kind = "set_compression" /\ f.table = "login"
            \/ /\ stage[c] = "play" /\ f.enc = senc[c] /\ f.cmp = scomp[c]
               /\ \/ f.kind = "login_success" /\ f.table = "login"
                  \/ f.kind \in {"keep_alive", "player_position_and_look", "other"}
       /\ netpc[c] = "reacting" =>
            \/ pkt[c].kind = "set_compression" /\ reactor[c] = "login"
            \/ /\ stage[c] = "play" /\ Tuned(c)
               /\ pkt[c].kind \in {"login_success", "keep_alive",
                                  "player_position_and_look", "other"}

ServedAt(c) == stage[c] # "closed" =>
  Wanted(c) /\ Ordered(c) /\ Legible(c) /\ Playing(c) /\ Asked(c) /\ Answered(c)
ServedInv == \A c \in Conns : ServedAt(c)
-----------------------------------------------------------------------------
(* What is delivered on the only connection of a process *)

\* The chats of the only connection of a process, as its server hears them, and
\* the keep alives of that server, as they come back to it.
Only == CHOOSE c \in Conns : TRUE
ChatDelivery == INSTANCE OrderedDelivery WITH sent <- written, delivered <- heard[Only]
EchoDelivery == INSTANCE OrderedDelivery WITH sent <- alive[Only], delivered <- echoed[Only]

\* Chats queued on the only connection reach its server once and in the order
\* of the write_packet calls.
ChatsInOrder == ChatDelivery!Spec

\* A server gets its keep alives back once each, in order, never before it
\* sent them.
EchoesInOrder == EchoDelivery!Spec

\* While the server and the thread are there, every chat queued has been heard,
\* or is on its way: once, and in the order written.  A thread that has ended
\* leaves behind those it had not written, the one that made it raise among them.
ChatsKept == \A c \in Conns : stage[c] # "closed" =>
  IF netpc[c] = "dead"
    THEN \E k \in 0 .. written :
           heard[c] \o ArgsOf("chat", c2s[c]) = [i \in 1 .. k |-> i]
    ELSE heard[c] \o ArgsOf("chat", c2s[c]) \o ArgsOf("chat", queue)
           = [i \in 1 .. written |-> i]
=============================================================================
