---------------------------- MODULE ProxyServer ----------------------------
(***************************************************************************)
(* The thread behind a player's /l (ProxyServer.java): it polls the        *)
(* requests of one session, sends each to the server it is for, over a     *)
(* socket it keeps by destination, and reads the reply to its end before   *)
(* it polls the next.  The main thread, which queues the requests, and the *)
(* web servers are external.                                               *)
(***************************************************************************)
EXTENDS Naturals, Sequences

CONSTANTS
  Hosts,        \* web servers, and the destinations that name them
  MaxRequests,  \* bound: requests queued
  MaxReplies,   \* bound: pieces of reply under way
  MaxRepeats    \* bound: times a request is sent again though a server has it

ASSUME ProxyServerAssumption ==
  /\ Hosts # {} /\ MaxRequests \in Nat
  /\ MaxReplies \in Nat \ {0} /\ MaxRepeats \in Nat

VARIABLES
  in,       \* the ConcurrentLinkedQueue of the session
  queued,   \* number of requests queued so far
  polled,   \* the requests polled, by number
  pc, data, \* program counter; the request in hand
  socks,    \* the cache, by destination: the socket it holds, if any
  tries,    \* writes of the request in hand that raised after it had arrived
  old,      \* unread pieces of reply on the sockets given up, the last one's first
  sent,     \* the requests that arrived at a server, with the tries before
  said      \* the last piece of reply shown to the player: for which request

vars == <<in, queued, polled, pc, data, socks, tries, old, sent, said>>

\* url is the destination in the request line, the key of the cache; host the
\* server in the host header, where a new socket goes; a request that does not
\* parse is not whole.
Request == [number : Nat, url : Hosts, host : Hosts, whole : BOOLEAN]

\* A socket: its server, whether that end is open, the last request that came
\* through and the pieces of reply not read yet.
Socket == [host : Hosts, open : BOOLEAN, got : Nat, reply : Seq(Nat)]
None == [host |-> CHOOSE h \in Hosts : TRUE, open |-> FALSE, got |-> 0, reply |-> <<>>]

Arrival == [number : Nat, try : Nat]

TypeOK ==
  /\ in \in Seq(Request) /\ queued \in Nat /\ polled \in Seq(Nat)
  /\ pc \in {"idle", "looking", "writing", "flushing", "reading", "draining"}
  /\ data \in Request /\ tries \in Nat /\ old \in Seq(Nat)
  /\ socks \in [Hosts -> [cached : BOOLEAN, socket : Socket]]
  /\ sent \in Seq(Arrival) /\ said \in [in_hand : Nat, of : Nat]

Init ==
  /\ in = <<>> /\ queued = 0 /\ polled = <<>>
  /\ pc = "idle"
  /\ data \in [number : {0}, url : Hosts, host : Hosts, whole : {FALSE}]
  /\ socks = [h \in Hosts |-> [cached |-> FALSE, socket |-> None]]
  /\ tries = 0 /\ old = <<>> /\ sent = <<>> /\ said = [in_hand |-> 0, of |-> 0]

\* The socket sendToServer has in hand: the one the cache holds for data.
s == socks[data.url].socket
-----------------------------------------------------------------------------
(* The main thread: /l adds a request *)

Add ==
  /\ queued < MaxRequests /\ queued' = queued + 1
  /\ \E u, h \in Hosts, w \in BOOLEAN :
       in' = Append(in, [number |-> queued', url |-> u, host |-> h, whole |-> w])
  /\ UNCHANGED <<polled, pc, data, socks, tries, old, sent, said>>
-----------------------------------------------------------------------------
(* run() and sendToServer() *)

\* Mutant of Poll: peek for poll.
PollPeek ==
  /\ pc = "idle" /\ in # <<>>
  /\ polled' = Append(polled, Head(in).number)
  /\ data' = Head(in) /\ UNCHANGED in
  /\ pc' = IF Head(in).whole THEN "looking" ELSE "idle"
  /\ Len(polled) < MaxRequests
  /\ tries' = 0 /\ UNCHANGED <<queued, socks, old, sent, said>>

\* Mutant of Poll: what does not parse ends the thread.
PollStuck ==
  /\ pc = "idle" /\ in # <<>> /\ Head(in).whole
  /\ in' = Tail(in) /\ polled' = Append(polled, Head(in).number)
  /\ data' = Head(in) /\ pc' = "looking"
  /\ tries' = 0 /\ UNCHANGED <<queued, socks, old, sent, said>>

\* A request that does not parse is dropped.
Poll ==
  /\ pc = "idle" /\ in # <<>>
  /\ in' = Tail(in) /\ polled' = Append(polled, Head(in).number)
  /\ data' = Head(in)
  /\ pc' = IF Head(in).whole THEN "looking" ELSE "idle"
  /\ tries' = 0 /\ UNCHANGED <<queued, socks, old, sent, said>>

LookupCached ==
  /\ pc = "looking" /\ socks[data.url].cached /\ pc' = "writing"
  /\ UNCHANGED <<in, queued, polled, data, socks, tries, old, sent, said>>

\* Mutant of Connect: the exception ends the thread.
ConnectUncaught ==
  /\ pc = "looking" /\ ~socks[data.url].cached
  /\ \/ /\ socks' = [socks EXCEPT ![data.url] =
             [cached |-> TRUE,
              socket |-> [host |-> data.host, open |-> TRUE, got |-> 0, reply |-> <<>>]]]
        /\ pc' = "writing"
     \/ pc' = "dead" /\ UNCHANGED socks
  /\ UNCHANGED <<in, queued, polled, data, tries, old, sent, said>>

\* What follows the last call of sendToServer: each call it returns to reads on
\* where it was, on the socket it had given up.
Return == IF old = <<>> THEN "idle" ELSE "draining"

\* dnsQuery and new Socket, either of which may raise: the request is dropped.
Connect ==
  /\ pc = "looking" /\ ~socks[data.url].cached
  /\ \/ /\ socks' = [socks EXCEPT ![data.url] =
             [cached |-> TRUE,
              socket |-> [host |-> data.host, open |-> TRUE, got |-> 0, reply |-> <<>>]]]
        /\ pc' = "writing"
     \/ pc' = Return /\ UNCHANGED socks
  /\ UNCHANGED <<in, queued, polled, data, tries, old, sent, said>>

\* writeBytes writes byte by byte.  At some byte an open server has what it takes
\* for the request, and may answer or close while the rest is written; what is
\* written to a server that has closed is lost.
Write ==
  /\ pc = "writing"
  /\ IF s.open
       THEN /\ pc' = "flushing"
            /\ socks' = [socks EXCEPT ![data.url].socket.got = data.number]
            /\ sent' = Append(sent, [number |-> data.number, try |-> tries])
       ELSE pc' = "reading" /\ UNCHANGED <<socks, sent>>
  /\ UNCHANGED <<in, queued, polled, data, tries, old, said>>

WriteEnds ==
  /\ pc = "flushing" /\ pc' = "reading"
  /\ UNCHANGED <<in, queued, polled, data, socks, tries, old, sent, said>>

\* A byte written after the server has closed may raise, whether or not the
\* request had arrived: the socket leaves the cache and sendToServer calls itself
\* with the whole request.
WriteRaises ==
  /\ pc \in {"writing", "flushing"} /\ ~s.open /\ pc' = "looking"
  /\ pc = "flushing" => tries < MaxRepeats
  /\ tries' = IF pc = "flushing" THEN tries + 1 ELSE tries
  /\ old' = s.reply \o old
  /\ socks' = [socks EXCEPT ![data.url] =
        [cached |-> FALSE, socket |-> [s EXCEPT !.reply = <<>>]]]
  /\ UNCHANGED <<in, queued, polled, data, sent, said>>

\* A piece of the reply is shown to the player.
Read ==
  /\ pc = "reading" /\ s.reply # <<>>
  /\ said' = [in_hand |-> data.number, of |-> Head(s.reply)]
  /\ socks' = [socks EXCEPT ![data.url].socket.reply = Tail(@)]
  /\ UNCHANGED <<in, queued, polled, pc, data, tries, old, sent>>

\* Mutant of ReadEnd: the reading ends when there is nothing to read now.
ReadEndEarly ==
  /\ pc = "reading" /\ s.reply = <<>> /\ pc' = Return
  /\ UNCHANGED <<in, queued, polled, data, socks, tries, old, sent, said>>

\* Mutant of ReadEnd: one try around writing and reading, so that an exception of
\* either sends the request again.
ReadEndRetries ==
  /\ pc = "reading" /\ ~s.open
  /\ \/ /\ pc' = Return
        /\ socks' = [socks EXCEPT ![data.url].socket.reply = <<>>]
     \/ /\ pc' = "looking"
        /\ socks' = [socks EXCEPT ![data.url] =
              [cached |-> FALSE, socket |-> [s EXCEPT !.reply = <<>>]]]
  /\ UNCHANGED <<in, queued, polled, data, tries, old, sent, said>>

\* The reading ends at the end of the stream, or with an exception that only the
\* end of the connection brings and that loses what is not read; the socket
\* stays in the cache.
ReadEnd ==
  /\ pc = "reading" /\ ~s.open /\ pc' = Return
  /\ socks' = [socks EXCEPT ![data.url].socket.reply = <<>>]
  /\ UNCHANGED <<in, queued, polled, data, tries, old, sent, said>>

\* A call the last one returns to reads a socket it has given up: what is left
\* there is shown, or lost to an exception.
Drain ==
  /\ pc = "draining" /\ old' = Tail(old)
  /\ said' \in {said, [in_hand |-> data.number, of |-> Head(old)]}
  /\ pc' = IF Tail(old) = <<>> THEN "idle" ELSE "draining"
  /\ UNCHANGED <<in, queued, polled, data, socks, tries, sent>>

Thread ==
  \/ Poll \/ LookupCached \/ Connect
  \/ Write \/ WriteEnds \/ WriteRaises \/ Read \/ ReadEnd \/ Drain
-----------------------------------------------------------------------------
(* The web servers (external) *)

\* A server answers the last request it got on a socket, in pieces.
Reply(u) ==
  /\ socks[u].socket.open /\ socks[u].socket.got # 0
  /\ Len(socks[u].socket.reply) + Len(old) < MaxReplies
  /\ socks' = [socks EXCEPT ![u].socket.reply = Append(@, socks[u].socket.got)]
  /\ UNCHANGED <<in, queued, polled, pc, data, tries, old, sent, said>>

\* It may close at any time.
Close(u) ==
  /\ socks[u].socket.open /\ socks' = [socks EXCEPT ![u].socket.open = FALSE]
  /\ UNCHANGED <<in, queued, polled, pc, data, tries, old, sent, said>>

Next == Add \/ Thread \/ \E u \in Hosts : Reply(u) \/ Close(u)

Spec == Init /\ [][Next]_vars

\* The thread is scheduled; every server closes some day, without which the
\* code has no way to go on; and not every write of a request raises, before it
\* has arrived or after.
Fairness ==
  /\ WF_vars(Thread) /\ SF_vars(Write) /\ SF_vars(WriteEnds)
  /\ \A u \in Hosts : WF_vars(Close(u))

FairSpec == Spec /\ Fairness
-----------------------------------------------------------------------------
(* Safety *)

\* No server gets a request after a later one has arrived, and none gets one that
\* has arrived but for a write of it that raised in between: neither the retry
\* on a new socket nor the sockets kept between requests reorder the requests,
\* and only the exception of a write repeats one.
Precedes(a, b) ==
  \/ a.number < b.number
  \/ a.number = b.number /\ a.try < b.try

SentInOrder == \A i \in 1 .. Len(sent) - 1 : Precedes(sent[i], sent[i + 1])

\* Every socket in the cache of a thread without a request has been closed by
\* its server: the cache never spares a connection, a request that finds a
\* socket there is lost or sent again over a new one.
CacheStale == pc = "idle" => \A u \in Hosts : ~socks[u].socket.open

\* What is shown to the player while a request is in hand answers that request.
AnswersMatch == said.in_hand = said.of

\* A request arrives only at the server its host header names, though sockets
\* are kept by the destination in the request line.
ReachesItsHost == [][sent' # sent => s.host = data.host]_vars

PollDelivery == INSTANCE OrderedDelivery WITH sent <- queued, delivered <- polled

\* The requests of a session are polled once each, in the order of the /l.
PolledInOrder == PollDelivery!Spec

\* Every request queued is polled, whatever became of those before it.
EachPolled == \A k \in 1 .. MaxRequests : queued >= k ~> Len(polled) >= k
=============================================================================
