---------------------------- MODULE ProxyProofs ----------------------------
(***************************************************************************)
(* Proofs about ProxyServer, for any number of servers and requests and    *)
(* replies of any length.  None of them needs a server ever to close: that *)
(* is for liveness only, which TLC checks.                                 *)
(***************************************************************************)
EXTENDS ProxyServer, TLAPS

\* Every request queued is polled, in hand or waiting, by its number.
Counted ==
  /\ queued = Len(polled) + Len(in) /\ data.number = Len(polled)
  /\ \A i \in 1 .. Len(in) : in[i].number = Len(polled) + i

\* What has arrived came before the request in hand, or is that request: at an
\* earlier try of it until the one under way has arrived.
Now == [number |-> data.number, try |-> tries]
Ordered ==
  /\ SentInOrder
  /\ \A i \in 1 .. Len(sent) :
       Precedes(sent[i], Now) \/ (pc \notin {"looking", "writing"} /\ sent[i] = Now)

\* A socket is open, or has something to be read, only while the request in hand
\* uses it: for the server that request names, and with replies to it.
SocketOf(u, k) ==
  /\ k.open => /\ u = data.url /\ pc \in {"writing", "flushing", "reading"}
               /\ k.host = data.host
               /\ k.got = IF pc = "writing" THEN 0 ELSE data.number
  /\ \A i \in 1 .. Len(k.reply) :
       u = data.url /\ pc \in {"flushing", "reading"} /\ k.reply[i] = data.number
InHand == \A u \in Hosts : SocketOf(u, socks[u].socket)

\* What is left on the sockets given up answers the request in hand, and is gone
\* before the next is polled.
Leftover ==
  /\ \A i \in 1 .. Len(old) : old[i] = data.number
  /\ pc = "idle" => old = <<>>
  /\ pc = "draining" => old # <<>>

ProxyInv == TypeOK /\ Counted /\ Ordered /\ InHand /\ Leftover /\ AnswersMatch
-----------------------------------------------------------------------------
(* Sequences *)

LEMMA Appended ==
  ASSUME NEW S, NEW q \in Seq(S), NEW e \in S
  PROVE  /\ Append(q, e) \in Seq(S) /\ Len(Append(q, e)) = Len(q) + 1
         /\ Append(q, e)[Len(q) + 1] = e
         /\ \A i \in 1 .. Len(q) : Append(q, e)[i] = q[i]
OBVIOUS

LEMMA Shortened ==
  ASSUME NEW S, NEW q \in Seq(S), q # <<>>
  PROVE  /\ Tail(q) \in Seq(S) /\ Len(Tail(q)) = Len(q) - 1 /\ Len(q) >= 1
         /\ Head(q) \in S /\ Head(q) = q[1]
         /\ \A i \in 1 .. Len(Tail(q)) : Tail(q)[i] = q[i + 1]
OBVIOUS

LEMMA Joined ==
  ASSUME NEW S, NEW q \in Seq(S), NEW r \in Seq(S)
  PROVE  /\ q \o r \in Seq(S)
         /\ \A i \in 1 .. Len(q \o r) :
              \/ i \in 1 .. Len(q) /\ (q \o r)[i] = q[i]
              \/ i - Len(q) \in 1 .. Len(r) /\ (q \o r)[i] = r[i - Len(q)]
OBVIOUS

LEMMA NothingYet ==
  ASSUME NEW S
  PROVE  <<>> \in Seq(S) /\ Len(<<>>) = 0
OBVIOUS
-----------------------------------------------------------------------------
(* Types *)

LEMMA RequestType ==
  ASSUME NEW n \in Nat, NEW u \in Hosts, NEW h \in Hosts, NEW w \in BOOLEAN
  PROVE  [number |-> n, url |-> u, host |-> h, whole |-> w] \in Request
BY DEF Request

LEMMA SocketType ==
  ASSUME TypeOK, NEW u \in Hosts
  PROVE  /\ socks[u].cached \in BOOLEAN /\ socks[u].socket \in Socket
         /\ socks[u].socket.host \in Hosts /\ socks[u].socket.open \in BOOLEAN
         /\ socks[u].socket.got \in Nat /\ socks[u].socket.reply \in Seq(Nat)
BY DEF TypeOK, Socket

LEMMA DataType ==
  ASSUME TypeOK
  PROVE  /\ data.number \in Nat /\ data.url \in Hosts /\ data.host \in Hosts
         /\ data.whole \in BOOLEAN
BY DEF TypeOK, Request

\* A cache with one entry changed.
LEMMA CacheType ==
  ASSUME TypeOK, NEW u \in Hosts,
         NEW e \in [cached : BOOLEAN, socket : Socket]
  PROVE  [socks EXCEPT ![u] = e] \in [Hosts -> [cached : BOOLEAN, socket : Socket]]
BY DEF TypeOK

LEMMA InitInv == Init => ProxyInv
<1> SUFFICES ASSUME Init
             PROVE  ProxyInv
  OBVIOUS
<1>1. None \in Socket /\ None.open = FALSE /\ None.reply = <<>>
  BY ProxyServerAssumption DEF ProxyServerAssumption, None, Socket
<1>2. \A u \in Hosts : socks[u].socket = None
  BY DEF Init
<1>3. data \in Request /\ data.number = 0
  <2>1. data \in [number : {0}, url : Hosts, host : Hosts, whole : {FALSE}]
    BY DEF Init
  <2>2. data.number \in {0} /\ data.url \in Hosts /\ data.host \in Hosts
        /\ data.whole \in {FALSE}
    BY <2>1
  <2>3. data = [number |-> data.number, url |-> data.url, host |-> data.host,
                whole |-> data.whole]
    BY <2>1
  <2>4. [number |-> data.number, url |-> data.url, host |-> data.host,
         whole |-> data.whole] \in Request
    BY <2>2, RequestType
  <2>5. data \in Request
    BY <2>3, <2>4, Zenon
  <2>6. QED
    BY <2>2, <2>5
<1>4. TypeOK
  <2>1. in \in Seq(Request) /\ polled \in Seq(Nat) /\ sent \in Seq(Arrival)
        /\ old \in Seq(Nat)
    BY NothingYet DEF Init
  <2>2. socks \in [Hosts -> [cached : BOOLEAN, socket : Socket]]
    BY <1>1 DEF Init
  <2>3. QED
    BY <1>3, <2>1, <2>2 DEF Init, TypeOK
<1>5. \A u \in Hosts : SocketOf(u, socks[u].socket)
  <2>1. TAKE u \in Hosts
  <2>2. ~socks[u].socket.open /\ Len(socks[u].socket.reply) = 0
    BY <1>1, <1>2, NothingYet
  <2>3. QED
    BY <2>2 DEF SocketOf
<1>6. queued = 0 /\ in = <<>> /\ polled = <<>> /\ sent = <<>> /\ said.in_hand = said.of
      /\ old = <<>>
  BY DEF Init
<1>7. QED
  <2>1. Len(<<>>) = 0 /\ pc = "idle"
    BY DEF Init
  <2>2. Counted /\ Ordered /\ Leftover
    BY <1>3, <1>6, <2>1 DEF Counted, Ordered, SentInOrder, Leftover
  <2>3. QED
    BY <1>4, <1>5, <1>6, <2>2 DEF InHand, ProxyInv, AnswersMatch
-----------------------------------------------------------------------------
(* What a step does to the sockets *)

Entry == [cached : BOOLEAN, socket : Socket]

\* The cache after a step that changes the entry of u: the types, and what is left.
Kept(u) ==
  /\ socks' \in [Hosts -> Entry]
  /\ \A v \in Hosts \ {u} : socks'[v] = socks[v]

\* What a socket holds.
Holds(k, h, o, n, r) == k.host = h /\ k.open = o /\ k.got = n /\ k.reply = r

LEMMA ChangedEntry ==
  ASSUME TypeOK, NEW u \in Hosts, NEW e \in Entry, socks' = [socks EXCEPT ![u] = e]
  PROVE  Kept(u) /\ socks'[u] = e
BY DEF TypeOK, Kept, Entry

\* One field of a socket changed, or the mark that it is in the cache.
LEMMA ChangedField ==
  ASSUME NEW k \in Socket, NEW n \in Nat, NEW r \in Seq(Nat), NEW e \in Entry
  PROVE  /\ [k EXCEPT !.got = n] \in Socket
         /\ Holds([k EXCEPT !.got = n], k.host, k.open, n, k.reply)
         /\ [k EXCEPT !.open = FALSE] \in Socket
         /\ Holds([k EXCEPT !.open = FALSE], k.host, FALSE, k.got, k.reply)
         /\ [k EXCEPT !.reply = r] \in Socket
         /\ Holds([k EXCEPT !.reply = r], k.host, k.open, k.got, r)
         /\ [e EXCEPT !.socket = k] \in Entry /\ [e EXCEPT !.socket = k].socket = k
         /\ [e EXCEPT !.cached = FALSE] \in Entry
         /\ [e EXCEPT !.cached = FALSE].socket = e.socket
<1>1. /\ [k EXCEPT !.got = n] \in Socket
      /\ Holds([k EXCEPT !.got = n], k.host, k.open, n, k.reply)
  BY DEF Socket, Holds
<1>2. /\ [k EXCEPT !.open = FALSE] \in Socket
      /\ Holds([k EXCEPT !.open = FALSE], k.host, FALSE, k.got, k.reply)
  BY DEF Socket, Holds
<1>3. /\ [k EXCEPT !.reply = r] \in Socket
      /\ Holds([k EXCEPT !.reply = r], k.host, k.open, k.got, r)
  BY DEF Socket, Holds
<1>4. [e EXCEPT !.socket = k] \in Entry /\ [e EXCEPT !.socket = k].socket = k
  BY DEF Entry
<1>5. [e EXCEPT !.cached = FALSE] \in Entry /\ [e EXCEPT !.cached = FALSE].socket = e.socket
  BY DEF Entry
<1>6. QED
  BY <1>1, <1>2, <1>3, <1>4, <1>5

LEMMA ChangedSocket ==
  ASSUME TypeOK, NEW u \in Hosts, NEW k \in Socket,
         socks' = [socks EXCEPT ![u] = [@ EXCEPT !.socket = k]]
  PROVE  Kept(u) /\ socks'[u].socket = k
<1>1. socks[u] \in Entry
  BY DEF TypeOK, Entry
<1> DEFINE e == [socks[u] EXCEPT !.socket = k]
<1>2. e \in Entry /\ e.socket = k
  BY <1>1, ChangedField, 0 \in Nat, NothingYet
<1>3. socks' = [socks EXCEPT ![u] = e]
  OBVIOUS
<1> HIDE DEF e
<1>4. QED
  BY <1>2, <1>3, ChangedEntry

LEMMA GotSocket ==
  ASSUME TypeOK, NEW u \in Hosts, NEW n \in Nat,
         socks' = [socks EXCEPT ![u].socket.got = n]
  PROVE  LET k == socks[u].socket
         IN  Kept(u) /\ Holds(socks'[u].socket, k.host, k.open, n, k.reply)
<1> DEFINE k == socks[u].socket
           l == [k EXCEPT !.got = n]
<1>1. k \in Socket /\ socks[u] \in Entry
  BY SocketType DEF TypeOK, Entry
<1>2. socks' = [socks EXCEPT ![u] = [@ EXCEPT !.socket = l]]
  OBVIOUS
<1> HIDE DEF k
<1>3. l \in Socket /\ Holds(l, k.host, k.open, n, k.reply)
  BY <1>1, ChangedField, NothingYet
<1> HIDE DEF l
<1>4. Kept(u) /\ socks'[u].socket = l
  BY <1>2, <1>3, ChangedSocket
<1>5. QED
  BY <1>3, <1>4 DEF k

LEMMA ClosedSocket ==
  ASSUME TypeOK, NEW u \in Hosts,
         socks' = [socks EXCEPT ![u].socket.open = FALSE]
  PROVE  LET k == socks[u].socket
         IN  Kept(u) /\ Holds(socks'[u].socket, k.host, FALSE, k.got, k.reply)
<1> DEFINE k == socks[u].socket
           l == [k EXCEPT !.open = FALSE]
<1>1. k \in Socket /\ socks[u] \in Entry
  BY SocketType DEF TypeOK, Entry
<1>2. socks' = [socks EXCEPT ![u] = [@ EXCEPT !.socket = l]]
  OBVIOUS
<1> HIDE DEF k
<1>3. l \in Socket /\ Holds(l, k.host, FALSE, k.got, k.reply)
  BY <1>1, ChangedField, 0 \in Nat, NothingYet
<1> HIDE DEF l
<1>4. Kept(u) /\ socks'[u].socket = l
  BY <1>2, <1>3, ChangedSocket
<1>5. QED
  BY <1>3, <1>4 DEF k

LEMMA ReplySocket ==
  ASSUME TypeOK, NEW u \in Hosts, NEW r \in Seq(Nat),
         socks' = [socks EXCEPT ![u].socket.reply = r]
  PROVE  LET k == socks[u].socket
         IN  Kept(u) /\ Holds(socks'[u].socket, k.host, k.open, k.got, r)
<1> DEFINE k == socks[u].socket
           l == [k EXCEPT !.reply = r]
<1>1. k \in Socket /\ socks[u] \in Entry
  BY SocketType DEF TypeOK, Entry
<1>2. socks' = [socks EXCEPT ![u] = [@ EXCEPT !.socket = l]]
  OBVIOUS
<1> HIDE DEF k
<1>3. l \in Socket /\ Holds(l, k.host, k.open, k.got, r)
  BY <1>1, ChangedField, 0 \in Nat
<1> HIDE DEF l
<1>4. Kept(u) /\ socks'[u].socket = l
  BY <1>2, <1>3, ChangedSocket
<1>5. QED
  BY <1>3, <1>4 DEF k

LEMMA UncachedSocket ==
  ASSUME TypeOK, NEW u \in Hosts,
         socks' = [socks EXCEPT ![u].cached = FALSE]
  PROVE  Kept(u) /\ socks'[u].socket = socks[u].socket
<1> DEFINE e == [socks[u] EXCEPT !.cached = FALSE]
<1>1. socks[u] \in Entry /\ socks[u].socket \in Socket
  BY SocketType DEF TypeOK, Entry
<1>2. e \in Entry /\ e.socket = socks[u].socket
  BY <1>1, ChangedField, 0 \in Nat, NothingYet
<1>3. socks' = [socks EXCEPT ![u] = e]
  OBVIOUS
<1> HIDE DEF e
<1>4. QED
  BY <1>2, <1>3, ChangedEntry

LEMMA NewSocket ==
  ASSUME TypeOK, NEW u \in Hosts, NEW h \in Hosts,
         socks' = [socks EXCEPT ![u] =
           [cached |-> TRUE,
            socket |-> [host |-> h, open |-> TRUE, got |-> 0, reply |-> <<>>]]]
  PROVE  Kept(u) /\ Holds(socks'[u].socket, h, TRUE, 0, <<>>)
<1> DEFINE k == [host |-> h, open |-> TRUE, got |-> 0, reply |-> <<>>]
           e == [cached |-> TRUE, socket |-> k]
<1>1. k \in Socket /\ Holds(k, h, TRUE, 0, <<>>)
  BY NothingYet DEF Socket, Holds
<1>2. socks' = [socks EXCEPT ![u] = e]
  OBVIOUS
<1> HIDE DEF k
<1>3. e \in Entry /\ e.socket = k
  BY <1>1 DEF Entry
<1> HIDE DEF e
<1>4. socks'[u] = e /\ Kept(u)
  BY <1>2, <1>3, ChangedEntry
<1>5. QED
  BY <1>1, <1>3, <1>4
-----------------------------------------------------------------------------
(* The steps *)

\* Nothing arrives, and the request in hand stays: it is not yet to be written
\* unless it was not before.
LEMMA NothingArrives ==
  ASSUME Ordered, UNCHANGED <<data, tries, sent>>,
         pc' \in {"looking", "writing"} => pc \in {"looking", "writing"}
  PROVE  Ordered'
BY DEF Ordered, SentInOrder, Precedes, Now

LEMMA AddInv == ProxyInv /\ Add => ProxyInv'
<1> SUFFICES ASSUME ProxyInv, Add
             PROVE  ProxyInv'
  OBVIOUS
<1> USE DEF ProxyInv
<1>1. PICK u \in Hosts, h \in Hosts, w \in BOOLEAN :
        in' = Append(in, [number |-> queued', url |-> u, host |-> h, whole |-> w])
  BY DEF Add
<1> DEFINE r == [number |-> queued', url |-> u, host |-> h, whole |-> w]
<1>2. /\ queued' = queued + 1 /\ queued' \in Nat
      /\ UNCHANGED <<polled, pc, data, socks, tries, old, sent, said>>
  BY DEF Add, TypeOK
<1>3. r \in Request /\ r.number = queued' /\ in' = Append(in, r)
  BY <1>1, <1>2, RequestType
<1> HIDE DEF r
<1>4. /\ in' \in Seq(Request) /\ Len(in') = Len(in) + 1 /\ in'[Len(in) + 1] = r
      /\ \A i \in 1 .. Len(in) : in'[i] = in[i]
  BY <1>3, Appended DEF TypeOK
<1>5. TypeOK'
  BY <1>2, <1>4 DEF TypeOK
<1>6. Counted'
  <2>1. Len(in) \in Nat /\ Len(polled) \in Nat
    BY DEF TypeOK
  <2>2. queued' = Len(polled') + Len(in') /\ data'.number = Len(polled')
    BY <1>2, <1>4, <2>1 DEF Counted
  <2>3. ASSUME NEW i \in 1 .. Len(in')
        PROVE  in'[i].number = Len(polled') + i
    <3>1. i \in 1 .. Len(in) \/ i = Len(in) + 1
      BY <1>4, <2>1
    <3>2. QED
      BY <1>2, <1>3, <1>4, <2>1, <2>2, <3>1 DEF Counted
  <2>4. QED
    BY <2>2, <2>3 DEF Counted
<1>7. Ordered' /\ InHand' /\ Leftover' /\ AnswersMatch'
  BY <1>2, NothingArrives DEF InHand, SocketOf, Leftover, AnswersMatch
<1>8. QED
  BY <1>5, <1>6, <1>7

\* Between two requests nothing is open and nothing is left to be read.
LEMMA IdleSockets ==
  ASSUME InHand, pc \notin {"writing", "flushing", "reading"}, NEW u \in Hosts
  PROVE  ~socks[u].socket.open /\ 1 .. Len(socks[u].socket.reply) = {}
BY DEF InHand, SocketOf

LEMMA PollInv == ProxyInv /\ Poll => ProxyInv'
<1> SUFFICES ASSUME ProxyInv, Poll
             PROVE  ProxyInv'
  OBVIOUS
<1> USE DEF ProxyInv
<1>1. /\ pc = "idle" /\ in # <<>> /\ in' = Tail(in)
      /\ polled' = Append(polled, Head(in).number) /\ data' = Head(in)
      /\ pc' \in {"looking", "idle"} /\ tries' = 0
      /\ UNCHANGED <<queued, socks, old, sent, said>>
  BY DEF Poll
<1>2. /\ in' \in Seq(Request) /\ Len(in') = Len(in) - 1 /\ Len(in) >= 1
      /\ data' \in Request /\ data' = in[1]
      /\ \A i \in 1 .. Len(in') : in'[i] = in[i + 1]
  BY <1>1, Shortened DEF TypeOK
<1>3. data'.number \in Nat
  BY <1>2 DEF Request
<1>4. polled' \in Seq(Nat) /\ Len(polled') = Len(polled) + 1
  BY <1>1, <1>3, Appended DEF TypeOK
<1>5. TypeOK'
  BY <1>1, <1>2, <1>4 DEF TypeOK
<1>6. Len(in) \in Nat /\ Len(polled) \in Nat /\ Len(in') \in Nat
  BY <1>2 DEF TypeOK
<1>7. data'.number = data.number + 1 /\ data.number \in Nat
  BY <1>2, <1>6 DEF Counted
<1>8. Counted'
  <2>1. queued' = Len(polled') + Len(in') /\ data'.number = Len(polled')
    BY <1>1, <1>2, <1>4, <1>6, <1>7 DEF Counted
  <2>2. ASSUME NEW i \in 1 .. Len(in')
        PROVE  in'[i].number = Len(polled') + i
    <3>1. i + 1 \in 1 .. Len(in)
      BY <1>2, <1>6
    <3>2. in[i + 1].number = Len(polled) + (i + 1)
      BY <3>1 DEF Counted
    <3>3. QED
      BY <1>2, <1>4, <1>6, <3>2
  <2>3. QED
    BY <2>1, <2>2 DEF Counted
<1>9. Ordered'
  <2>1. \A i \in 1 .. Len(sent) : sent[i] \in Arrival
    BY DEF TypeOK
  <2>2. \A i \in 1 .. Len(sent) : sent[i].number \in Nat /\ sent[i].number <= data.number
    BY <1>7, <2>1 DEF Ordered, Precedes, Now, Arrival
  <2>3. \A i \in 1 .. Len(sent') : Precedes(sent'[i], Now')
    BY <1>1, <1>7, <2>2 DEF Precedes, Now
  <2>4. SentInOrder'
    BY <1>1 DEF Ordered, SentInOrder
  <2>5. QED
    BY <2>3, <2>4 DEF Ordered
<1>10. InHand'
  BY <1>1, IdleSockets DEF InHand, SocketOf
<1>11. Leftover' /\ AnswersMatch'
  <2>1. Len(old) = 0 /\ old' = <<>>
    BY <1>1, NothingYet DEF Leftover
  <2>2. QED
    BY <1>1, <2>1 DEF Leftover, AnswersMatch
<1>12. QED
  BY <1>5, <1>8, <1>9, <1>10, <1>11

LEMMA LookupInv == ProxyInv /\ LookupCached => ProxyInv'
<1> SUFFICES ASSUME ProxyInv, LookupCached
             PROVE  ProxyInv'
  OBVIOUS
<1> USE DEF ProxyInv
<1>1. pc = "looking" /\ pc' = "writing"
      /\ UNCHANGED <<in, queued, polled, data, socks, tries, old, sent, said>>
  BY DEF LookupCached
<1>2. TypeOK' /\ Counted' /\ Leftover' /\ AnswersMatch'
  BY <1>1 DEF TypeOK, Counted, Leftover, AnswersMatch
<1>3. Ordered'
  BY <1>1, NothingArrives
<1>4. InHand'
  BY <1>1, IdleSockets DEF InHand, SocketOf
<1>5. QED
  BY <1>2, <1>3, <1>4

LEMMA ConnectInv == ProxyInv /\ Connect => ProxyInv'
<1> SUFFICES ASSUME ProxyInv, Connect
             PROVE  ProxyInv'
  OBVIOUS
<1> USE DEF ProxyInv
<1>1. pc = "looking" /\ UNCHANGED <<in, queued, polled, data, tries, old, sent, said>>
  BY DEF Connect
<1>2. CASE pc' = Return /\ UNCHANGED socks
  <2>0. pc' \in {"idle", "draining"} /\ (pc' = "idle" <=> old = <<>>)
    BY <1>2 DEF Return
  <2>1. TypeOK' /\ Counted' /\ Leftover' /\ AnswersMatch'
    BY <1>1, <1>2, <2>0 DEF TypeOK, Counted, Leftover, AnswersMatch
  <2>2. Ordered'
    BY <1>1, <2>0, NothingArrives
  <2>3. InHand'
    BY <1>1, <1>2, <2>0, IdleSockets DEF InHand, SocketOf
  <2>4. QED
    BY <2>1, <2>2, <2>3
<1>3. CASE /\ pc' = "writing"
           /\ socks' = [socks EXCEPT ![data.url] =
                [cached |-> TRUE,
                 socket |-> [host |-> data.host, open |-> TRUE, got |-> 0, reply |-> <<>>]]]
  <2>1. Kept(data.url) /\ Holds(socks'[data.url].socket, data.host, TRUE, 0, <<>>)
    BY <1>3, DataType, NewSocket
  <2>2. TypeOK' /\ Counted' /\ Leftover' /\ AnswersMatch'
    BY <1>1, <1>3, <2>1 DEF TypeOK, Counted, Leftover, AnswersMatch, Kept, Entry
  <2>3. Ordered'
    BY <1>1, <1>3, NothingArrives
  <2>4. ASSUME NEW u \in Hosts
        PROVE  SocketOf(u, socks[u].socket)'
    <3>1. CASE u = data.url
      <4>1. Len(<<>>) = 0
        OBVIOUS
      <4>2. QED
        BY <1>1, <1>3, <2>1, <3>1, <4>1 DEF Holds, SocketOf
    <3>2. CASE u # data.url
      <4>1. socks'[u] = socks[u]
        BY <2>1, <3>2 DEF Kept
      <4>2. QED
        BY <1>1, <4>1, IdleSockets DEF SocketOf
    <3>3. QED
      BY <3>1, <3>2
  <2>5. QED
    BY <2>2, <2>3, <2>4 DEF InHand
<1>4. QED
  BY <1>2, <1>3 DEF Connect

\* The sockets other than that of the request in hand, while its thread is at work.
LEMMA OtherSockets ==
  ASSUME InHand, Kept(data.url), data' = data, NEW u \in Hosts, u # data.url
  PROVE  SocketOf(u, socks[u].socket)'
<1>1. socks'[u] = socks[u]
  BY DEF Kept
<1>2. ~socks[u].socket.open /\ 1 .. Len(socks[u].socket.reply) = {}
  BY DEF InHand, SocketOf
<1>3. QED
  BY <1>1, <1>2 DEF SocketOf

LEMMA WriteInv == ProxyInv /\ Write => ProxyInv'
<1> SUFFICES ASSUME ProxyInv, Write
             PROVE  ProxyInv'
  OBVIOUS
<1> USE DEF ProxyInv
<1>1. pc = "writing" /\ UNCHANGED <<in, queued, polled, data, tries, old, said>>
  BY DEF Write
<1>2. data.url \in Hosts /\ data.number \in Nat /\ tries \in Nat
  BY DataType DEF TypeOK
<1>3. SocketOf(data.url, s)
  BY <1>2 DEF InHand, s
<1>4. CASE ~s.open
  <2>1. pc' = "reading" /\ UNCHANGED <<socks, sent>>
    BY <1>4 DEF Write
  <2>2. TypeOK' /\ Counted' /\ Leftover' /\ AnswersMatch'
    BY <1>1, <2>1 DEF TypeOK, Counted, Leftover, AnswersMatch
  <2>3. Ordered'
    BY <1>1, <2>1, NothingArrives
  <2>4. ASSUME NEW u \in Hosts
        PROVE  SocketOf(u, socks[u].socket)'
    <3>1. u = data.url => ~socks[u].socket.open
      BY <1>4 DEF s
    <3>2. QED
      BY <1>1, <2>1, <3>1 DEF InHand, SocketOf
  <2>5. QED
    BY <2>2, <2>3, <2>4 DEF InHand
<1>5. CASE s.open
  <2>1. /\ socks' = [socks EXCEPT ![data.url].socket.got = data.number]
        /\ pc' = "flushing" /\ sent' = Append(sent, Now)
    BY <1>5 DEF Write, Now
  <2>2. Kept(data.url)
        /\ Holds(socks'[data.url].socket, s.host, s.open, data.number, s.reply)
    BY <1>2, <2>1, GotSocket DEF s
  <2> Now \in Arrival
    BY <1>2 DEF Now, Arrival
  <2>3. /\ sent' \in Seq(Arrival) /\ Len(sent') = Len(sent) + 1 /\ Len(sent) \in Nat
        /\ sent'[Len(sent) + 1] = Now
        /\ \A i \in 1 .. Len(sent) : sent'[i] = sent[i]
    BY <1>2, <2>1, Appended DEF TypeOK
  <2>4. TypeOK' /\ Counted' /\ Leftover' /\ AnswersMatch'
    BY <1>1, <2>1, <2>2, <2>3 DEF TypeOK, Counted, Leftover, AnswersMatch, Kept, Entry
  <2>5. Ordered'
    <3>1. \A i \in 1 .. Len(sent) : Precedes(sent[i], Now)
      BY <1>1 DEF Ordered
    <3>2. Now' = Now
      BY <1>1 DEF Now
    <3>3. ASSUME NEW i \in 1 .. Len(sent')
          PROVE  Precedes(sent'[i], Now') \/ sent'[i] = Now'
      <4>1. i \in 1 .. Len(sent) \/ i = Len(sent) + 1
        BY <2>3
      <4>2. QED
        BY <2>3, <3>1, <3>2, <4>1
    <3>4. ASSUME NEW i \in 1 .. Len(sent') - 1
          PROVE  Precedes(sent'[i], sent'[i + 1])
      <4>1. CASE i = Len(sent)
        BY <2>3, <3>1, <4>1
      <4>2. CASE i # Len(sent)
        <5>1. i \in 1 .. Len(sent) - 1 /\ i \in 1 .. Len(sent) /\ i + 1 \in 1 .. Len(sent)
          BY <2>3, <4>2
        <5>2. QED
          BY <2>3, <5>1 DEF Ordered, SentInOrder
      <4>3. QED
        BY <4>1, <4>2
    <3>5. QED
      BY <2>1, <3>3, <3>4 DEF Ordered, SentInOrder
  <2>6. ASSUME NEW u \in Hosts
        PROVE  SocketOf(u, socks[u].socket)'
    <3>1. CASE u = data.url
      <4>1. s.host = data.host /\ 1 .. Len(s.reply) = {}
        BY <1>1, <1>3, <1>5 DEF SocketOf
      <4>2. QED
        BY <1>1, <2>1, <2>2, <3>1, <4>1 DEF Holds, SocketOf
    <3>2. CASE u # data.url
      BY <1>1, <2>2, <3>2, OtherSockets
    <3>3. QED
      BY <3>1, <3>2
  <2>7. QED
    BY <2>4, <2>5, <2>6 DEF InHand
<1>6. QED
  BY <1>4, <1>5

LEMMA WriteEndsInv == ProxyInv /\ WriteEnds => ProxyInv'
<1> SUFFICES ASSUME ProxyInv, WriteEnds
             PROVE  ProxyInv'
  OBVIOUS
<1> USE DEF ProxyInv
<1>1. /\ pc = "flushing" /\ pc' = "reading"
      /\ UNCHANGED <<in, queued, polled, data, socks, tries, old, sent, said>>
  BY DEF WriteEnds
<1>2. TypeOK' /\ Counted' /\ Leftover' /\ AnswersMatch'
  BY <1>1 DEF TypeOK, Counted, Leftover, AnswersMatch
<1>3. Ordered'
  BY <1>1, NothingArrives
<1>4. InHand'
  BY <1>1 DEF InHand, SocketOf
<1>5. QED
  BY <1>2, <1>3, <1>4

LEMMA WriteRaisesInv == ProxyInv /\ WriteRaises => ProxyInv'
<1> SUFFICES ASSUME ProxyInv, WriteRaises
             PROVE  ProxyInv'
  OBVIOUS
<1> USE DEF ProxyInv
<1> DEFINE k == [s EXCEPT !.reply = <<>>]
           e == [cached |-> FALSE, socket |-> k]
<1>1. /\ pc \in {"writing", "flushing"} /\ ~s.open /\ pc' = "looking"
      /\ tries' = (IF pc = "flushing" THEN tries + 1 ELSE tries)
      /\ old' = s.reply \o old /\ socks' = [socks EXCEPT ![data.url] = e]
      /\ UNCHANGED <<in, queued, polled, data, sent, said>>
  BY DEF WriteRaises
<1> HIDE DEF k, e
<1>2. /\ data.url \in Hosts /\ data.number \in Nat /\ s \in Socket
      /\ s.reply \in Seq(Nat) /\ old \in Seq(Nat) /\ tries \in Nat
  BY DataType, SocketType DEF s, TypeOK
<1>3. k \in Socket /\ Holds(k, s.host, s.open, s.got, <<>>)
  BY <1>2, NothingYet DEF k, Socket, Holds
<1>4. e \in Entry /\ e.socket = k
  BY <1>3 DEF e, Entry
<1>5. Kept(data.url) /\ socks'[data.url].socket = k
  BY <1>1, <1>2, <1>4, ChangedEntry
<1>6. old' \in Seq(Nat) /\ \A i \in 1 .. Len(old') : old'[i] = data.number
  <2>1. \A i \in 1 .. Len(s.reply) : s.reply[i] = data.number
    BY <1>2 DEF InHand, SocketOf, s
  <2>2. \A i \in 1 .. Len(old) : old[i] = data.number
    BY DEF Leftover
  <2>3. /\ s.reply \o old \in Seq(Nat) /\ Len(s.reply) \in Nat
        /\ \A i \in 1 .. Len(s.reply \o old) :
             \/ i \in 1 .. Len(s.reply) /\ (s.reply \o old)[i] = s.reply[i]
             \/ /\ i - Len(s.reply) \in 1 .. Len(old)
                /\ (s.reply \o old)[i] = old[i - Len(s.reply)]
    BY <1>2, Joined
  <2>4. \A i \in 1 .. Len(s.reply \o old) : (s.reply \o old)[i] = data.number
    BY <2>1, <2>2, <2>3
  <2>5. QED
    BY <1>1, <2>3, <2>4
<1> tries' \in Nat
  BY <1>1, <1>2
<1>7. TypeOK' /\ Counted' /\ Leftover' /\ AnswersMatch'
  BY <1>1, <1>5, <1>6 DEF TypeOK, Counted, Leftover, AnswersMatch, Kept, Entry
<1>8. Ordered'
  <2>1. ASSUME NEW i \in 1 .. Len(sent)
        PROVE  Precedes(sent[i], Now')
    <3>1. sent[i].number \in Nat /\ sent[i].try \in Nat
      <4>1. sent[i] \in Arrival
        BY DEF TypeOK
      <4>2. QED
        BY <4>1 DEF Arrival
    <3>2. CASE Precedes(sent[i], Now)
      BY <1>1, <1>2, <3>1, <3>2 DEF Precedes, Now
    <3>3. CASE pc \notin {"looking", "writing"} /\ sent[i] = Now
      BY <1>1, <1>2, <3>3 DEF Precedes, Now
    <3>4. QED
      BY <3>2, <3>3 DEF Ordered
  <2>2. QED
    BY <1>1, <2>1 DEF Ordered, SentInOrder
<1>9. ASSUME NEW u \in Hosts
      PROVE  SocketOf(u, socks[u].socket)'
  <2>1. CASE u = data.url
    <3>1. Len(<<>>) = 0
      OBVIOUS
    <3>2. QED
      BY <1>1, <1>3, <1>5, <2>1, <3>1 DEF Holds, SocketOf
  <2>2. CASE u # data.url
    BY <1>1, <1>5, <2>2, OtherSockets
  <2>3. QED
    BY <2>1, <2>2
<1>10. QED
  BY <1>7, <1>8, <1>9 DEF InHand

LEMMA ReadInv == ProxyInv /\ Read => ProxyInv'
<1> SUFFICES ASSUME ProxyInv, Read
             PROVE  ProxyInv'
  OBVIOUS
<1> USE DEF ProxyInv
<1>1. /\ pc = "reading" /\ s.reply # <<>>
      /\ said' = [in_hand |-> data.number, of |-> Head(s.reply)]
      /\ socks' = [socks EXCEPT ![data.url].socket.reply = Tail(s.reply)]
      /\ UNCHANGED <<in, queued, polled, pc, data, tries, old, sent>>
  BY DEF Read, s
<1>2. data.url \in Hosts /\ data.number \in Nat /\ s.reply \in Seq(Nat)
  BY DataType, SocketType DEF s
<1>3. /\ Tail(s.reply) \in Seq(Nat) /\ Len(Tail(s.reply)) = Len(s.reply) - 1
      /\ Len(s.reply) >= 1 /\ Len(s.reply) \in Nat /\ Head(s.reply) = s.reply[1]
      /\ \A i \in 1 .. Len(Tail(s.reply)) : Tail(s.reply)[i] = s.reply[i + 1]
  BY <1>1, <1>2, Shortened
<1>4. \A i \in 1 .. Len(s.reply) : s.reply[i] = data.number
  BY <1>2 DEF InHand, SocketOf, s
<1>5. Head(s.reply) = data.number
  BY <1>3, <1>4
<1>6. Kept(data.url)
      /\ Holds(socks'[data.url].socket, s.host, s.open, s.got, Tail(s.reply))
  BY <1>1, <1>2, <1>3, ReplySocket DEF s
<1>7. said' \in [in_hand : Nat, of : Nat] /\ said'.in_hand = said'.of
  BY <1>1, <1>2, <1>5
<1>8. TypeOK' /\ Counted' /\ Leftover' /\ AnswersMatch'
  BY <1>1, <1>6, <1>7 DEF TypeOK, Counted, Leftover, AnswersMatch, Kept, Entry
<1>9. Ordered'
  BY <1>1, NothingArrives
<1>10. ASSUME NEW u \in Hosts
       PROVE  SocketOf(u, socks[u].socket)'
  <2>1. CASE u = data.url
    <3>1. \A i \in 1 .. Len(Tail(s.reply)) : Tail(s.reply)[i] = data.number
      BY <1>3, <1>4
    <3>2. SocketOf(data.url, s)
      BY <1>2 DEF InHand, s
    <3>3. QED
      BY <1>1, <1>6, <2>1, <3>1, <3>2 DEF Holds, SocketOf
  <2>2. CASE u # data.url
    BY <1>1, <1>6, <2>2, OtherSockets
  <2>3. QED
    BY <2>1, <2>2
<1>11. QED
  BY <1>8, <1>9, <1>10 DEF InHand

LEMMA ReadEndInv == ProxyInv /\ ReadEnd => ProxyInv'
<1> SUFFICES ASSUME ProxyInv, ReadEnd
             PROVE  ProxyInv'
  OBVIOUS
<1> USE DEF ProxyInv
<1>1. /\ pc = "reading" /\ ~s.open
      /\ pc' \in {"idle", "draining"} /\ (pc' = "idle" <=> old = <<>>)
      /\ socks' = [socks EXCEPT ![data.url].socket.reply = <<>>]
      /\ UNCHANGED <<in, queued, polled, data, tries, old, sent, said>>
  BY DEF ReadEnd, Return
<1>2. Kept(data.url) /\ Holds(socks'[data.url].socket, s.host, s.open, s.got, <<>>)
  BY <1>1, DataType, NothingYet, ReplySocket DEF s
<1>3. TypeOK' /\ Counted' /\ Leftover' /\ AnswersMatch'
  BY <1>1, <1>2 DEF TypeOK, Counted, Leftover, AnswersMatch, Kept, Entry
<1>4. Ordered'
  BY <1>1, NothingArrives
<1>5. ASSUME NEW u \in Hosts
      PROVE  SocketOf(u, socks[u].socket)'
  <2>1. CASE u = data.url
    <3>1. Len(<<>>) = 0
      OBVIOUS
    <3>2. QED
      BY <1>1, <1>2, <2>1, <3>1 DEF Holds, SocketOf
  <2>2. CASE u # data.url
    BY <1>1, <1>2, <2>2, OtherSockets
  <2>3. QED
    BY <2>1, <2>2
<1>6. QED
  BY <1>3, <1>4, <1>5 DEF InHand

LEMMA DrainInv == ProxyInv /\ Drain => ProxyInv'
<1> SUFFICES ASSUME ProxyInv, Drain
             PROVE  ProxyInv'
  OBVIOUS
<1> USE DEF ProxyInv
<1>1. /\ pc = "draining" /\ old' = Tail(old)
      /\ said' \in {said, [in_hand |-> data.number, of |-> Head(old)]}
      /\ pc' \in {"idle", "draining"} /\ (pc' = "idle" <=> Tail(old) = <<>>)
      /\ UNCHANGED <<in, queued, polled, data, socks, tries, sent>>
  BY DEF Drain
<1>2. data.number \in Nat /\ old \in Seq(Nat) /\ old # <<>>
  BY <1>1, DataType DEF TypeOK, Leftover
<1>3. /\ Tail(old) \in Seq(Nat) /\ Len(Tail(old)) = Len(old) - 1
      /\ Len(old) >= 1 /\ Len(old) \in Nat /\ Head(old) = old[1]
      /\ \A i \in 1 .. Len(Tail(old)) : Tail(old)[i] = old[i + 1]
  BY <1>2, Shortened
<1>4. \A i \in 1 .. Len(old) : old[i] = data.number
  BY DEF Leftover
<1>5. Head(old) = data.number /\ \A i \in 1 .. Len(Tail(old)) : Tail(old)[i] = data.number
  BY <1>3, <1>4
<1>6. said' \in [in_hand : Nat, of : Nat] /\ said'.in_hand = said'.of
  BY <1>1, <1>2, <1>5 DEF TypeOK, AnswersMatch
<1>7. TypeOK' /\ Counted' /\ Leftover' /\ AnswersMatch'
  BY <1>1, <1>3, <1>5, <1>6 DEF TypeOK, Counted, Leftover, AnswersMatch
<1>8. Ordered'
  BY <1>1, NothingArrives
<1>9. InHand'
  BY <1>1, IdleSockets DEF InHand, SocketOf
<1>10. QED
  BY <1>7, <1>8, <1>9

LEMMA ServerInv ==
  ASSUME ProxyInv, NEW u \in Hosts, Reply(u) \/ Close(u)
  PROVE  ProxyInv'
<1> USE DEF ProxyInv
<1> DEFINE k == socks[u].socket
<1>1. k.open /\ UNCHANGED <<in, queued, polled, pc, data, tries, old, sent, said>>
  BY DEF Reply, Close
<1>2. /\ u = data.url /\ pc \in {"writing", "flushing", "reading"} /\ k.host = data.host
      /\ k.got = (IF pc = "writing" THEN 0 ELSE data.number)
      /\ \A i \in 1 .. Len(k.reply) : pc \in {"flushing", "reading"} /\ k.reply[i] = data.number
  BY <1>1 DEF InHand, SocketOf
<1>3. k.got \in Nat /\ k.reply \in Seq(Nat)
  BY SocketType
<1>4. Kept(u) /\ SocketOf(u, socks[u].socket)'
  <2>1. CASE Reply(u)
    <3>1. /\ k.got # 0
          /\ socks' = [socks EXCEPT ![u].socket.reply = Append(k.reply, k.got)]
      BY <2>1 DEF Reply
    <3>2. /\ Append(k.reply, k.got) \in Seq(Nat) /\ Len(k.reply) \in Nat
          /\ Len(Append(k.reply, k.got)) = Len(k.reply) + 1
          /\ Append(k.reply, k.got)[Len(k.reply) + 1] = k.got
          /\ \A i \in 1 .. Len(k.reply) : Append(k.reply, k.got)[i] = k.reply[i]
      BY <1>3, Appended
    <3> DEFINE r == Append(k.reply, k.got)
    <3>3. Kept(u) /\ Holds(socks'[u].socket, k.host, k.open, k.got, r)
      BY <3>1, <3>2, ReplySocket
    <3>4. pc \in {"flushing", "reading"} /\ k.got = data.number
      BY <1>2, <3>1
    <3> HIDE DEF k
    <3>5. \A i \in 1 .. Len(r) : r[i] = data.number
      <4>1. TAKE i \in 1 .. Len(r)
      <4>2. i \in 1 .. Len(k.reply) \/ i = Len(k.reply) + 1
        BY <3>2
      <4>3. QED
        BY <1>2, <3>2, <3>4, <4>2
    <3> HIDE DEF r
    <3>6. SocketOf(u, socks[u].socket)'
      BY <1>1, <1>2, <3>3, <3>4, <3>5 DEF Holds, SocketOf
    <3>7. QED
      BY <3>3, <3>6
  <2>2. CASE Close(u)
    <3>1. Kept(u) /\ Holds(socks'[u].socket, k.host, FALSE, k.got, k.reply)
      BY <2>2, ClosedSocket DEF Close
    <3> HIDE DEF k
    <3>2. QED
      BY <1>1, <1>2, <3>1 DEF Holds, SocketOf
  <2>3. QED
    BY <2>1, <2>2
<1>5. \A v \in Hosts \ {u} : SocketOf(v, socks[v].socket)'
  BY <1>1, <1>2, <1>4, OtherSockets
<1>6. TypeOK' /\ Counted' /\ Leftover' /\ AnswersMatch'
  BY <1>1, <1>4 DEF TypeOK, Counted, Leftover, AnswersMatch, Kept, Entry
<1>7. Ordered'
  BY <1>1, NothingArrives
<1>8. QED
  BY <1>4, <1>5, <1>6, <1>7 DEF InHand

LEMMA StepInv == ProxyInv /\ [Next]_vars => ProxyInv'
<1> SUFFICES ASSUME ProxyInv, [Next]_vars
             PROVE  ProxyInv'
  OBVIOUS
<1>1. CASE Thread
  BY <1>1, PollInv, LookupInv, ConnectInv, WriteInv, WriteEndsInv,
     WriteRaisesInv, ReadInv, ReadEndInv, DrainInv DEF Thread
<1>2. ASSUME NEW u \in Hosts, Reply(u) \/ Close(u)
      PROVE  ProxyInv'
  BY <1>2, ServerInv
<1>3. CASE UNCHANGED vars
  <2>1. TypeOK' /\ Counted' /\ Leftover' /\ AnswersMatch' /\ Ordered'
    BY <1>3, NothingArrives
    DEF ProxyInv, vars, TypeOK, Counted, Leftover, AnswersMatch
  <2>2. InHand'
    BY <1>3 DEF ProxyInv, vars, InHand, SocketOf
  <2>3. QED
    BY <2>1, <2>2 DEF ProxyInv
<1>4. QED
  BY AddInv, <1>1, <1>2, <1>3 DEF Next

LEMMA Invariance == Spec => []ProxyInv
BY InitInv, StepInv, PTL DEF Spec
-----------------------------------------------------------------------------
(* What follows *)

\* ProxyServer.java:17-115: the queue, the cache and what the thread has in hand
\* are of the types they are declared with.
THEOREM ProxyTyping == Spec => []TypeOK
<1>1. ProxyInv => TypeOK
  BY DEF ProxyInv
<1>2. QED
  BY <1>1, Invariance, PTL

\* ProxyServer.java:75-115: what is shown to the player while a request is in hand
\* answers that request, on whichever cached socket it came.
THEOREM AnswersTheRequest == Spec => []AnswersMatch
<1>1. ProxyInv => AnswersMatch
  BY DEF ProxyInv
<1>2. QED
  BY <1>1, Invariance, PTL

\* ProxyServer.java:75-115: no request reaches a server after a later one, and one
\* that has reached a server is sent again only when a later byte of it raised.
THEOREM SendsInOrder == Spec => []SentInOrder
<1>1. ProxyInv => SentInOrder
  BY DEF ProxyInv, Ordered
<1>2. QED
  BY <1>1, Invariance, PTL

\* ProxyServer.java:75-115: the cache never holds an open socket when a request is
\* polled, so that it never spares a connection.
THEOREM CacheAlwaysStale == Spec => []CacheStale
<1>1. ProxyInv => CacheStale
  BY DEF ProxyInv, CacheStale, InHand, SocketOf
<1>2. QED
  BY <1>1, Invariance, PTL

LEMMA StepReaches ==
  ProxyInv /\ [Next]_vars => [sent' # sent => s.host = data.host]_vars
<1> SUFFICES ASSUME ProxyInv, Next, sent' # sent
             PROVE  s.host = data.host
  OBVIOUS
<1>1. Write
  BY DEF Next, Add, Thread, Poll, LookupCached, Connect, WriteEnds, WriteRaises,
         Read, ReadEnd, Drain, Reply, Close
<1>2. s.open
  BY <1>1 DEF Write
<1>3. QED
  BY <1>2, DataType DEF ProxyInv, InHand, SocketOf, s

\* ProxyServer.java:75-134: a request arrives only at the server its host header
\* names, though the cache is searched by the destination of the request line.
THEOREM ReachesTheHost == Spec => ReachesItsHost
<1>1. QED
  BY Invariance, StepReaches, PTL DEF Spec, ReachesItsHost
-----------------------------------------------------------------------------
(* The queue *)

LEMMA StepDelivers ==
  ProxyInv /\ [Next]_vars => [PollDelivery!Next]_<<queued, polled>>
<1> SUFFICES ASSUME ProxyInv, [Next]_vars
             PROVE  PollDelivery!Next \/ UNCHANGED <<queued, polled>>
  OBVIOUS
<1>1. CASE Add
  BY <1>1 DEF Add, PollDelivery!Next, PollDelivery!Send
<1>2. CASE Poll
  <2>1. /\ in # <<>> /\ polled' = Append(polled, Head(in).number)
        /\ UNCHANGED queued
    BY <1>2 DEF Poll
  <2>2. in \in Seq(Request) /\ polled \in Seq(Nat)
    BY DEF ProxyInv, TypeOK
  <2>3. Len(in) >= 1 /\ Head(in) = in[1] /\ Len(in) \in Nat /\ Len(polled) \in Nat
    BY <2>1, <2>2, Shortened
  <2>4. Head(in).number = Len(polled) + 1 /\ Len(polled) < queued
    BY <2>3 DEF ProxyInv, Counted
  <2>5. QED
    BY <2>1, <2>4 DEF PollDelivery!Next, PollDelivery!Deliver
<1>3. ASSUME ~Add, ~Poll
      PROVE  UNCHANGED <<queued, polled>>
  BY <1>3 DEF Next, Thread, LookupCached, Connect, Write, WriteEnds, WriteRaises, Read,
              ReadEnd, Drain, Reply, Close, vars
<1>4. QED
  BY <1>1, <1>2, <1>3

\* ProxyServer.java:29-44: the thread implements OrderedDelivery, from the /l of
\* a player to the poll: each request once and in order, however many there are.
THEOREM PollsInOrder == Spec => PolledInOrder
<1>1. Init => PollDelivery!Init
  BY DEF Init, PollDelivery!Init
<1>2. QED
  BY <1>1, Invariance, StepDelivers, PTL DEF Spec, PolledInOrder, PollDelivery!Spec
=============================================================================
