-------------------------- MODULE ConnectionProofs --------------------------
(***************************************************************************)
(* Theorems about Connection, for every set of connections and every bound:*)
(* the types, the holder of the write lock, and, of a process with one     *)
(* connection, that it reads every packet with the cipher, the framing and *)
(* the packet table the server wrote it for.                               *)
(*                                                                         *)
(* Then what the servers are sent.  No chat is heard twice: for any number *)
(* of connections, though they share the outgoing queue and a forced write *)
(* overtakes it.  In a process with one connection a server drops it for   *)
(* nothing but a chat written too early; its keep alives come back to it,  *)
(* and unforced chats reach it, in the order they were sent.               *)
(***************************************************************************)
EXTENDS ConnectionInvariants, SequenceLemmas

(* Typing *)

\* What write_packet puts on the queue keeps it a sequence of packets.
LEMMA EnqueueType ==
  ASSUME NEW c \in Conns, NEW k \in Serverbound, NEW a \in Nat,
         queue \in Seq(Packet), Enqueue(c, k, a)
  PROVE  queue' \in Seq(Packet)
BY DEF Enqueue, Packet

\* What leaves for the server is framed.
LEMMA TransmitType ==
  ASSUME TypeOK, NEW c \in Conns, NEW p \in Packet, Transmit(c, p)
  PROVE  c2s' \in [Conns -> Seq(FrameUp)]
<1> DEFINE f == [kind |-> p.kind, arg |-> p.arg, via |-> p.via,
                 enc |-> cipher[c], cmp |-> compressed]
<1>1. f \in FrameUp
  <2>1. cipher[c] \in BOOLEAN /\ compressed \in BOOLEAN
    BY DEF TypeOK, ObjectType, SharedType
  <2>2. p.kind \in Serverbound /\ p.arg \in Nat /\ p.via \in Conns
    BY DEF Packet
  <2>3. QED
    BY <2>1, <2>2 DEF FrameUp
<1>2. c2s \in [Conns -> Seq(FrameUp)]
  BY DEF TypeOK, WireType
<1>3. Append(c2s[c], f) \in Seq(FrameUp)
  BY <1>1, <1>2
<1>4. c2s' = c2s \/ c2s' = [c2s EXCEPT ![c] = Append(c2s[c], f)]
  BY DEF Transmit
<1> HIDE DEF f
<1>5. QED
  BY <1>2, <1>3, <1>4

\* What a server sends is framed.
LEMMA PushType ==
  ASSUME TypeOK, NEW c \in Conns, NEW k \in Clientbound, NEW a \in Nat, Push(c, k, a)
  PROVE  s2c' \in [Conns -> Seq(FrameDown)]
<1> DEFINE f == [kind |-> k, arg |-> a, enc |-> senc[c], cmp |-> scomp[c],
                 table |-> TableOf(stage[c])]
<1>1. f \in FrameDown
  <2>1. TableOf(stage[c]) \in Reactors
    BY DEF TableOf, Reactors
  <2>2. senc[c] \in BOOLEAN /\ scomp[c] \in BOOLEAN
    BY DEF TypeOK, ServerType
  <2>3. QED
    BY <2>1, <2>2 DEF FrameDown
<1>2. s2c \in [Conns -> Seq(FrameDown)]
  BY DEF TypeOK, WireType
<1>3. Append(s2c[c], f) \in Seq(FrameDown)
  BY <1>1, <1>2
<1>4. s2c' = [s2c EXCEPT ![c] = Append(s2c[c], f)]
  BY DEF Push
<1> HIDE DEF f
<1>5. QED
  BY <1>2, <1>3, <1>4

\* The first element of a sequence that is not empty has the type of its elements.
LEMMA HeadTailType ==
  ASSUME NEW S, NEW s \in Seq(S), s # <<>>
  PROVE  Head(s) \in S /\ Tail(s) \in Seq(S)
OBVIOUS

\* A group of variables that does not change keeps its types.
LEMMA TypeUnchanged ==
  /\ SharedType /\ UNCHANGED shared => SharedType'
  /\ ObjectType /\ UNCHANGED object => ObjectType'
  /\ CallerType /\ UNCHANGED caller => CallerType'
  /\ ThreadType /\ UNCHANGED thread => ThreadType'
  /\ WireType /\ UNCHANGED <<c2s, s2c>> => WireType'
  /\ ServerType /\ UNCHANGED server => ServerType'
<1>1. SharedType /\ UNCHANGED shared => SharedType'
  BY DEF SharedType, shared
<1>2. ObjectType /\ UNCHANGED object => ObjectType'
  BY DEF ObjectType, object
<1>3. CallerType /\ UNCHANGED caller => CallerType'
  BY DEF CallerType, caller
<1>4. ThreadType /\ UNCHANGED thread => ThreadType'
  BY DEF ThreadType, thread
<1>5. WireType /\ UNCHANGED <<c2s, s2c>> => WireType'
  BY DEF WireType
<1>6. ServerType /\ UNCHANGED server => ServerType'
  BY DEF ServerType, server
<1>7. QED
  BY <1>1, <1>2, <1>3, <1>4, <1>5, <1>6

LEMMA InitType == Init => TypeOK
<1> SUFFICES ASSUME Init PROVE TypeOK
  OBVIOUS
<1>1. SharedType
  <2>1. queue \in Seq(Packet)
    BY DEF Init
  <2>2. compressed \in BOOLEAN /\ address \in Conns
    BY Zenon DEF Init
  <2>3. lock \in Conns \cup {App, Free}
    BY DEF Init
  <2>4. QED
    BY <2>1, <2>2, <2>3 DEF SharedType
<1>2. ObjectType
  <2>1. peer \in [Conns -> Conns]
    BY Zenon DEF Init
  <2>2. reactor \in [Conns -> Reactors]
    BY DEF Init, Reactors
  <2>3. cipher \in [Conns -> BOOLEAN] /\ interrupt \in [Conns -> BOOLEAN]
        /\ spawned \in [Conns -> BOOLEAN]
    BY DEF Init
  <2>4. QED
    BY <2>1, <2>2, <2>3 DEF ObjectType
<1>3. CallerType
  <2>1. mode \in [Conns -> {"connect", "status"}]
    BY ConnectionAssumption DEF ConnectionAssumption, Init
  <2>2. call \in [Conns -> 0 .. 6] /\ hasty \in [Conns -> BOOLEAN]
    BY DEF Init
  <2>3. QED
    BY <2>1, <2>2 DEF Init, CallerType
<1>4. ThreadType
  BY DEF Init, ThreadType, Counters, Reactors, Nothing, Clientbound
<1>5. WireType
  BY DEF Init, WireType
<1>6. ServerType
  BY DEF Init, ServerType, Stages
<1>7. QED
  BY <1>1, <1>2, <1>3, <1>4, <1>5, <1>6 DEF TypeOK

\* One statement of connect() or status() more.
LEMMA DoesType ==
  ASSUME CallerType, NEW c \in Conns, NEW t, Does(c, t)
  PROVE  call' \in [Conns -> 0 .. 6] /\ call[c] < 6
<1>1. Len(Script(mode[c])) = 6
  BY DEF Script
<1>2. QED
  BY <1>1 DEF Does, CallerType

\* A step of an application thread keeps the types.
LEMMA ApplicationType ==
  ASSUME TypeOK, NEW c \in Conns, Application(c)
  PROVE  TypeOK'
<1> USE TypeUnchanged DEF TypeOK
<1>1. CASE New(c)
  <2>1. SharedType'
    BY <1>1 DEF New, SharedType
  <2>2. CallerType'
    BY <1>1, DoesType DEF New, CallerType
  <2>3. QED
    BY <1>1, <2>1, <2>2 DEF New
<1>2. CASE Open(c)
  <2>1. ObjectType'
    BY <1>2 DEF Open, ObjectType, shared, SharedType
  <2>2. CallerType'
    BY <1>2, DoesType DEF Open, CallerType
  <2>3. ServerType'
    BY <1>2 DEF Open, ServerType, Stages
  <2>4. QED
    BY <1>2, <2>1, <2>2, <2>3 DEF Open
<1>3. CASE Handshake(c)
  <2>1. SharedType'
    BY <1>3, EnqueueType DEF Handshake, SharedType, Serverbound
  <2>2. CallerType'
    BY <1>3, DoesType DEF Handshake, CallerType
  <2>3. QED
    BY <1>3, <2>1, <2>2 DEF Handshake
<1>4. CASE SetReactor(c)
  <2>1. ObjectType'
    BY <1>4 DEF SetReactor, ObjectType, Reactors
  <2>2. CallerType'
    BY <1>4, DoesType DEF SetReactor, CallerType
  <2>3. QED
    BY <1>4, <2>1, <2>2 DEF SetReactor
<1>5. CASE StartThread(c)
  <2>1. ThreadType'
    BY <1>5 DEF StartThread, ThreadType, Counters
  <2>2. CallerType'
    BY <1>5, DoesType DEF StartThread, CallerType
  <2>3. QED
    BY <1>5, <2>1, <2>2 DEF StartThread
<1>6. CASE FirstPacket(c)
  <2>1. SharedType'
    BY <1>6, EnqueueType DEF FirstPacket, SharedType, Serverbound
  <2>2. CallerType'
    BY <1>6, DoesType DEF FirstPacket, CallerType
  <2>3. QED
    BY <1>6, <2>1, <2>2 DEF FirstPacket
<1>7. CASE WriteChat(c)
  <2>1. CallerType'
    BY <1>7 DEF WriteChat, CallerType
  <2>2. written' \in Nat
    BY <2>1 DEF CallerType
  <2>3. [kind |-> "chat", arg |-> written', via |-> c] \in Packet
    BY <2>2 DEF Packet, Serverbound
  <2>4. SharedType'
    BY <1>7, <2>2, EnqueueType DEF WriteChat, SharedType, Serverbound
  <2>5. c2s' \in [Conns -> Seq(FrameUp)]
    BY <1>7, <2>3, TransmitType DEF WriteChat, SendRaises, WireType
  <2>6. WireType'
    BY <1>7, <2>5 DEF WriteChat, WireType
  <2>7. QED
    BY <1>7, <2>1, <2>4, <2>6 DEF WriteChat
<1>8. QED
  BY <1>1, <1>2, <1>3, <1>4, <1>5, <1>6, <1>7 DEF Application, Call

\* A step of the writing half of a round keeps the types.
LEMMA WritingType ==
  ASSUME TypeOK, NEW c \in Conns,
         NetTop(c) \/ NetLock(c) \/ NetDrained(c) \/ NetPop(c) \/ NetPopRaises(c)
  PROVE  TypeOK'
<1> USE TypeUnchanged DEF TypeOK
<1>1. CASE NetTop(c)
  <2>1. ThreadType'
    BY <1>1 DEF NetTop, ThreadType, Counters
  <2>2. QED
    BY <1>1, <2>1 DEF NetTop
<1>2. CASE NetLock(c)
  <2>1. ThreadType'
    BY <1>2 DEF NetLock, ThreadType, Counters
  <2>2. SharedType'
    BY <1>2 DEF NetLock, SharedType
  <2>3. QED
    BY <1>2, <2>1, <2>2 DEF NetLock
<1>3. CASE NetDrained(c)
  <2>1. ThreadType'
    BY <1>3 DEF NetDrained, StopWriting, ThreadType, Counters
  <2>2. SharedType'
    BY <1>3 DEF NetDrained, StopWriting, SharedType
  <2>3. QED
    BY <1>3, <2>1, <2>2 DEF NetDrained
<1>4. CASE NetPop(c)
  <2>1. Head(queue) \in Packet /\ Tail(queue) \in Seq(Packet)
    BY <1>4, HeadTailType DEF NetPop, SharedType
  <2>2. WireType'
    BY <1>4, <2>1, TransmitType DEF NetPop, WireType
  <2>3. ThreadType'
    <3>1. netpc' \in [Conns -> Counters]
      BY <1>4 DEF NetPop, StopWriting, ThreadType, Counters
    <3>2. n' \in [Conns -> Nat]
      <4>1. n' = [n EXCEPT ![c] = 0] \/ n' = [n EXCEPT ![c] = n[c] + 1]
        BY <1>4 DEF NetPop, StopWriting
      <4>2. QED
        BY <4>1 DEF ThreadType
    <3>3. UNCHANGED <<bound, pkt>>
      BY <1>4 DEF NetPop
    <3>4. QED
      BY <3>1, <3>2, <3>3 DEF ThreadType
  <2>4. SharedType'
    BY <1>4, <2>1 DEF NetPop, StopWriting, SharedType
  <2>5. QED
    BY <1>4, <2>2, <2>3, <2>4 DEF NetPop
<1>5. CASE NetPopRaises(c)
  <2>1. Tail(queue) \in Seq(Packet)
    BY <1>5, HeadTailType DEF NetPopRaises, SharedType
  <2>2. ThreadType'
    BY <1>5 DEF NetPopRaises, ThreadType, Counters
  <2>3. SharedType'
    BY <1>5, <2>1 DEF NetPopRaises, SharedType
  <2>4. QED
    BY <1>5, <2>2, <2>3 DEF NetPopRaises, SendRaises
<1>6. QED
  BY <1>1, <1>2, <1>3, <1>4, <1>5

\* A step of the reading half keeps the types.
LEMMA ReadingType ==
  ASSUME TypeOK, NEW c \in Conns,
         NetSelect(c) \/ NetTimeout(c) \/ NetEof(c) \/ NetSpin(c) \/ NetRead(c)
  PROVE  TypeOK'
<1> USE TypeUnchanged DEF TypeOK
<1>1. CASE NetSelect(c)
  <2>1. ThreadType'
    BY <1>1 DEF NetSelect, ThreadType, ObjectType, Counters
  <2>2. QED
    BY <1>1, <2>1 DEF NetSelect
<1>2. CASE NetTimeout(c)
  <2>1. ThreadType'
    BY <1>2 DEF NetTimeout, ThreadType, Counters
  <2>2. QED
    BY <1>2, <2>1 DEF NetTimeout
<1>3. CASE NetEof(c)
  <2>1. ThreadType'
    BY <1>3 DEF NetEof, ThreadType, Counters
  <2>2. QED
    BY <1>3, <2>1 DEF NetEof
<1>4. CASE NetSpin(c)
  <2>1. ThreadType'
    BY <1>4 DEF NetSpin, ThreadType, Counters
  <2>2. QED
    BY <1>4, <2>1 DEF NetSpin
<1>5. CASE NetRead(c)
  <2> DEFINE f == Head(s2c[c])
  <2>1. f \in FrameDown /\ Tail(s2c[c]) \in Seq(FrameDown)
    BY <1>5, HeadTailType DEF NetRead, WireType
  <2>2. WireType'
    BY <1>5, <2>1 DEF NetRead, WireType
  <2>3. f.kind \in Clientbound /\ f.arg \in Nat
    BY <2>1 DEF FrameDown
  <2>4. ThreadType'
    <3>1. pkt' = pkt \/ pkt' = [pkt EXCEPT ![c] = [kind |-> f.kind, arg |-> f.arg]]
      BY <1>5 DEF NetRead
    <3>2. \/ netpc' = [netpc EXCEPT ![c] = "reacting"]
          \/ netpc' = [netpc EXCEPT ![c] = "garbled"]
      BY <1>5 DEF NetRead
    <3>3. UNCHANGED <<n, bound>>
      BY <1>5 DEF NetRead
    <3> HIDE DEF f
    <3>4. pkt' \in [Conns -> [kind : Clientbound, arg : Nat]]
      BY <2>3, <3>1 DEF ThreadType
    <3>5. QED
      BY <3>2, <3>3, <3>4 DEF ThreadType, Counters
  <2>5. QED
    BY <1>5, <2>2, <2>4 DEF NetRead
<1>6. QED
  BY <1>1, <1>2, <1>3, <1>4, <1>5

\* The end of a reaction keeps the types of the thread.
LEMMA NextReadType ==
  ASSUME ThreadType, NEW c \in Conns, NextRead(c), UNCHANGED bound
  PROVE  ThreadType'
<1>1. Nothing \in [kind : Clientbound, arg : Nat]
  BY DEF Nothing, Clientbound
<1>2. pkt' \in [Conns -> [kind : Clientbound, arg : Nat]]
  BY <1>1 DEF NextRead, ThreadType
<1>3. netpc' \in [Conns -> Counters] /\ n' \in [Conns -> Nat]
  BY DEF NextRead, ThreadType, Counters
<1>4. QED
  BY <1>2, <1>3 DEF ThreadType

\* The reaction to a packet keeps the types.
LEMMA ReactType ==
  ASSUME TypeOK, NEW c \in Conns, React(c)
  PROVE  TypeOK'
<1> USE TypeUnchanged DEF TypeOK
<1>1. CASE ReactKey(c)
  <2>1. ThreadType'
    BY <1>1 DEF ReactKey, ThreadType, Counters
  <2>2. QED
    BY <1>1, <2>1 DEF ReactKey
<1>2. CASE NetForce(c)
  <2>1. [kind |-> "encryption_response", arg |-> 0, via |-> c] \in Packet
    BY DEF Packet, Serverbound
  <2>2. WireType'
    BY <1>2, <2>1, TransmitType DEF NetForce, SendRaises, WireType
  <2>3. SharedType'
    BY <1>2 DEF NetForce, SharedType
  <2>4. ThreadType'
    BY <1>2 DEF NetForce, ThreadType, Counters
  <2>5. QED
    BY <1>2, <2>2, <2>3, <2>4 DEF NetForce
<1>3. CASE NetSwap(c)
  <2>1. ObjectType'
    BY <1>3 DEF NetSwap, ObjectType
  <2>2. QED
    BY <1>3, <2>1, NextReadType DEF NetSwap
<1>4. CASE ReactSuccess(c)
  <2>1. ObjectType'
    BY <1>4 DEF ReactSuccess, ObjectType, Reactors
  <2>2. QED
    BY <1>4, <2>1, NextReadType DEF ReactSuccess
<1>5. CASE ReactCompression(c)
  <2>1. SharedType'
    BY <1>5 DEF ReactCompression, SharedType
  <2>2. QED
    BY <1>5, <2>1, NextReadType DEF ReactCompression
<1>6. CASE ReactKeepAlive(c)
  <2>1. pkt[c].arg \in Nat
    BY DEF ThreadType
  <2>2. SharedType'
    BY <1>6, <2>1, EnqueueType DEF ReactKeepAlive, SharedType, Serverbound
  <2>3. QED
    BY <1>6, <2>2, NextReadType DEF ReactKeepAlive
<1>7. CASE ReactPosition(c)
  <2>1. pkt[c].arg \in Nat
    BY DEF ThreadType
  <2>2. SharedType'
    BY <1>7, <2>1, EnqueueType DEF ReactPosition, SharedType, Serverbound
  <2>3. ObjectType'
    BY <1>7 DEF ReactPosition, ObjectType
  <2>4. QED
    BY <1>7, <2>2, <2>3, NextReadType DEF ReactPosition
<1>8. CASE ReactResponse(c)
  <2>1. SharedType'
    BY <1>8, EnqueueType DEF ReactResponse, SharedType, Serverbound
  <2>2. ObjectType'
    BY <1>8 DEF ReactResponse, ObjectType
  <2>3. QED
    BY <1>8, <2>1, <2>2, NextReadType DEF ReactResponse
<1>9. CASE ReactNothing(c)
  BY <1>9, NextReadType DEF ReactNothing
<1>10. QED
  BY <1>1, <1>2, <1>3, <1>4, <1>5, <1>6, <1>7, <1>8, <1>9 DEF React

\* A step of a server keeps the types.
LEMMA ServerStepType ==
  ASSUME TypeOK, NEW c \in Conns, Server(c)
  PROVE  TypeOK'
<1> USE TypeUnchanged DEF TypeOK
<1>1. CASE ServerReject(c)
  <2> DEFINE f == Head(c2s[c])
  <2>1. f \in FrameUp
    BY <1>1, HeadTailType DEF ServerReject, WireType
  <2>2. f.kind \in Serverbound
    BY <2>1 DEF FrameUp
  <2>3. verdict' = [verdict EXCEPT ![c] = f.kind]
        /\ stage' = [stage EXCEPT ![c] = "closed"]
        /\ UNCHANGED <<senc, scomp, pushes, alive, echoed, heard>>
    BY <1>1 DEF ServerReject
  <2>4. WireType'
    BY <1>1 DEF ServerReject, WireType
  <2> HIDE DEF f
  <2>5. ServerType'
    BY <2>2, <2>3 DEF ServerType, Stages
  <2>6. QED
    BY <1>1, <2>4, <2>5 DEF ServerReject
<1>2. CASE ServerTake(c)
  <2> DEFINE f == Head(c2s[c])
  <2>1. f \in FrameUp /\ Tail(c2s[c]) \in Seq(FrameUp)
    BY <1>2, HeadTailType DEF ServerTake, WireType
  <2>2. f.arg \in Nat
    BY <2>1 DEF FrameUp
  <2>3. stage' \in [Conns -> Stages]
    BY <1>2 DEF ServerTake, ServerType, Stages
  <2>4. senc' \in [Conns -> BOOLEAN]
    BY <1>2 DEF ServerTake, ServerType
  <2>5. \/ heard' = heard
        \/ heard' = [heard EXCEPT ![c] = Append(heard[c], f.arg)]
    BY <1>2 DEF ServerTake, ServerType
  <2>6. \/ echoed' = echoed
        \/ echoed' = [echoed EXCEPT ![c] = Append(echoed[c], f.arg)]
    BY <1>2 DEF ServerTake, ServerType
  <2>7. s2c' \in [Conns -> Seq(FrameDown)]
    BY <1>2, PushType DEF ServerTake, WireType, Clientbound
  <2>8. WireType'
    BY <1>2, <2>1, <2>7 DEF ServerTake, WireType
  <2>9. UNCHANGED <<shared, object, caller, thread, scomp, pushes, alive, verdict>>
    BY <1>2 DEF ServerTake
  <2> HIDE DEF f
  <2>10. echoed' \in [Conns -> Seq(Nat)] /\ heard' \in [Conns -> Seq(Nat)]
    <3>1. echoed \in [Conns -> Seq(Nat)] /\ heard \in [Conns -> Seq(Nat)]
      BY DEF ServerType
    <3>2. Append(heard[c], f.arg) \in Seq(Nat) /\ Append(echoed[c], f.arg) \in Seq(Nat)
      BY <2>2, <3>1
    <3>3. heard' \in [Conns -> Seq(Nat)]
      BY <2>5, <3>1, <3>2
    <3>4. echoed' \in [Conns -> Seq(Nat)]
      BY <2>6, <3>1, <3>2
    <3>5. QED
      BY <3>3, <3>4
  <2>11. ServerType'
    BY <2>3, <2>4, <2>9, <2>10 DEF ServerType
  <2>12. QED
    BY <2>8, <2>9, <2>11
<1>3. CASE ServerLogin(c)
  <2>1. WireType'
    BY <1>3, PushType DEF ServerLogin, WireType, Clientbound
  <2>2. ServerType'
    BY <1>3 DEF ServerLogin, ServerType, Stages
  <2>3. QED
    BY <1>3, <2>1, <2>2 DEF ServerLogin
<1>4. CASE ServerKeepAlive(c)
  <2>1. alive[c] + 1 \in Nat
    BY DEF ServerType
  <2>2. WireType'
    BY <1>4, <2>1, PushType DEF ServerKeepAlive, WireType, Clientbound
  <2>3. ServerType'
    <3>1. pushes' \in [Conns -> Nat] /\ alive' \in [Conns -> Nat]
      <4>1. /\ pushes' = [pushes EXCEPT ![c] = pushes[c] + 1]
            /\ alive' = [alive EXCEPT ![c] = alive[c] + 1]
        BY <1>4 DEF ServerKeepAlive
      <4>2. pushes \in [Conns -> Nat] /\ alive \in [Conns -> Nat]
        BY DEF ServerType
      <4>3. QED
        BY <4>1, <4>2
    <3>2. UNCHANGED <<stage, senc, scomp, echoed, heard, verdict>>
      BY <1>4 DEF ServerKeepAlive
    <3>3. QED
      BY <3>1, <3>2 DEF ServerType
  <2>4. QED
    BY <1>4, <2>2, <2>3 DEF ServerKeepAlive
<1>5. CASE ServerPosition(c)
  <2>1. WireType'
    <3>1. PICK id \in 0 .. 1 : Push(c, "player_position_and_look", id)
      BY <1>5 DEF ServerPosition
    <3>2. s2c' \in [Conns -> Seq(FrameDown)]
      <4>1. "player_position_and_look" \in Clientbound /\ id \in Nat
        BY DEF Clientbound
      <4>2. QED
        BY <3>1, <4>1, PushType
    <3>3. QED
      BY <1>5, <3>2 DEF ServerPosition, WireType
  <2>2. ServerType'
    <3>1. pushes' \in [Conns -> Nat]
      <4>1. pushes' = [pushes EXCEPT ![c] = pushes[c] + 1]
        BY <1>5 DEF ServerPosition
      <4>2. pushes \in [Conns -> Nat]
        BY DEF ServerType
      <4>3. QED
        BY <4>1, <4>2
    <3>2. UNCHANGED <<stage, senc, scomp, alive, echoed, heard, verdict>>
      BY <1>5 DEF ServerPosition
    <3>3. QED
      BY <3>1, <3>2 DEF ServerType
  <2>3. QED
    BY <1>5, <2>1, <2>2 DEF ServerPosition
<1>6. CASE ServerOther(c)
  <2>1. WireType'
    BY <1>6, PushType DEF ServerOther, WireType, Clientbound
  <2>2. QED
    BY <1>6, <2>1 DEF ServerOther
<1>7. CASE ServerClose(c)
  <2>1. s2c' \in [Conns -> Seq(FrameDown)]
    BY <1>7, PushType DEF ServerClose, WireType, Clientbound
  <2>2. WireType'
    <3>1. c2s' = [c2s EXCEPT ![c] = <<>>]
      BY <1>7 DEF ServerClose
    <3>2. c2s' \in [Conns -> Seq(FrameUp)]
      BY <3>1 DEF WireType
    <3>3. QED
      BY <2>1, <3>2 DEF WireType
  <2>3. ServerType'
    BY <1>7 DEF ServerClose, ServerType, Stages
  <2>4. QED
    BY <1>7, <2>2, <2>3 DEF ServerClose
<1>8. QED
  BY <1>1, <1>2, <1>3, <1>4, <1>5, <1>6, <1>7 DEF Server

LEMMA StepType == TypeOK /\ [Next]_vars => TypeOK'
<1> SUFFICES ASSUME TypeOK, [Next]_vars PROVE TypeOK'
  OBVIOUS
<1>1. ASSUME NEW c \in Conns, Network(c) PROVE TypeOK'
  BY <1>1, WritingType, ReadingType, ReactType DEF Network
<1>2. CASE UNCHANGED vars
  BY <1>2, TypeUnchanged DEF vars, TypeOK
<1>3. QED
  BY <1>1, <1>2, ApplicationType, ServerStepType DEF Next

\* Every variable keeps its type, for every number of connections and every
\* bound.
THEOREM Typing == Spec => []TypeOK
<1>1. QED
  BY InitType, StepType, PTL DEF Spec
-----------------------------------------------------------------------------
(* The calls of the application, and the write lock *)

\* The place of each statement in a script.
LEMMA Place ==
  ASSUME NEW s, NEW k \in 0 .. 6, NEW x, NEW y,
         (x = "reactor" /\ y = "thread") \/ (x = "thread" /\ y = "reactor"),
         s[1] = "new", s[2] = "open", s[3] = "handshake", s[4] = x, s[5] = y,
         s[6] = "first_packet", k < 6
  PROVE  /\ s[k + 1] = "new" => k = 0
         /\ s[k + 1] = "open" => k = 1
         /\ s[k + 1] = "handshake" => k = 2
         /\ s[k + 1] = x => k = 3
         /\ s[k + 1] = y => k = 4
         /\ s[k + 1] = "first_packet" => k = 5
<1>1. k \in {0, 1, 2, 3, 4, 5}
  OBVIOUS
<1>2. QED
  BY <1>1

\* Which statements a call has done when it does one of these.
LEMMA DoesWhere ==
  ASSUME TypeOK, NEW c \in Conns
  PROVE  /\ Does(c, "new") => call[c] = 0
         /\ Does(c, "open") => call[c] = 1
         /\ Does(c, "handshake") => call[c] = 2
         /\ Does(c, "reactor") => call[c] = IF mode[c] = "connect" THEN 3 ELSE 4
         /\ Does(c, "thread") => call[c] = IF mode[c] = "connect" THEN 4 ELSE 3
         /\ Does(c, "first_packet") => call[c] = 5
         /\ Len(Script(mode[c])) = 6
<1>1. call[c] \in 0 .. 6
  BY DEF TypeOK, CallerType
<1>2. Len(Script(mode[c])) = 6
  BY DEF Script
<1>3. /\ Does(c, "new") => call[c] < 6 /\ Script(mode[c])[call[c] + 1] = "new"
      /\ Does(c, "open") => call[c] < 6 /\ Script(mode[c])[call[c] + 1] = "open"
      /\ Does(c, "handshake") => call[c] < 6 /\ Script(mode[c])[call[c] + 1] = "handshake"
      /\ Does(c, "reactor") => call[c] < 6 /\ Script(mode[c])[call[c] + 1] = "reactor"
      /\ Does(c, "thread") => call[c] < 6 /\ Script(mode[c])[call[c] + 1] = "thread"
      /\ Does(c, "first_packet") =>
           call[c] < 6 /\ Script(mode[c])[call[c] + 1] = "first_packet"
  BY <1>2 DEF Does
<1>4. CASE mode[c] = "connect"
  <2>1. /\ Script(mode[c])[1] = "new" /\ Script(mode[c])[2] = "open"
        /\ Script(mode[c])[3] = "handshake" /\ Script(mode[c])[4] = "reactor"
        /\ Script(mode[c])[5] = "thread" /\ Script(mode[c])[6] = "first_packet"
    BY <1>4 DEF Script
  <2>2. QED
    <3>1. call[c] < 6 =>
            /\ Script(mode[c])[call[c] + 1] = "new" => call[c] = 0
            /\ Script(mode[c])[call[c] + 1] = "open" => call[c] = 1
            /\ Script(mode[c])[call[c] + 1] = "handshake" => call[c] = 2
            /\ Script(mode[c])[call[c] + 1] = "reactor" => call[c] = 3
            /\ Script(mode[c])[call[c] + 1] = "thread" => call[c] = 4
            /\ Script(mode[c])[call[c] + 1] = "first_packet" => call[c] = 5
      BY <1>1, <2>1, Place
    <3>2. QED
      BY <1>2, <1>3, <1>4, <3>1
<1>5. CASE mode[c] # "connect"
  <2>1. /\ Script(mode[c])[1] = "new" /\ Script(mode[c])[2] = "open"
        /\ Script(mode[c])[3] = "handshake" /\ Script(mode[c])[4] = "thread"
        /\ Script(mode[c])[5] = "reactor" /\ Script(mode[c])[6] = "first_packet"
    BY <1>5 DEF Script
  <2>2. QED
    <3>1. call[c] < 6 =>
            /\ Script(mode[c])[call[c] + 1] = "new" => call[c] = 0
            /\ Script(mode[c])[call[c] + 1] = "open" => call[c] = 1
            /\ Script(mode[c])[call[c] + 1] = "handshake" => call[c] = 2
            /\ Script(mode[c])[call[c] + 1] = "thread" => call[c] = 3
            /\ Script(mode[c])[call[c] + 1] = "reactor" => call[c] = 4
            /\ Script(mode[c])[call[c] + 1] = "first_packet" => call[c] = 5
      BY <1>1, <2>1, Place
    <3>2. QED
      BY <1>2, <1>3, <1>5, <3>1
<1>6. QED
  BY <1>4, <1>5

\* The thread and the server of a connection wait for its calls.
LEMMA StepScript == TypeOK /\ ScriptInv /\ [Next]_vars => ScriptInv'
<1> SUFFICES ASSUME TypeOK, ScriptInv, [Next]_vars, NEW c \in Conns
             PROVE  ScriptAt(c)'
  BY DEF ScriptInv
<1>1. \A d \in Conns : ScriptAt(d)
  BY DEF ScriptInv
<1>2. call \in [Conns -> 0 .. 6] /\ netpc \in [Conns -> Counters]
      /\ stage \in [Conns -> Stages] /\ c2s \in [Conns -> Seq(FrameUp)]
  BY DEF TypeOK, CallerType, ThreadType, ServerType, WireType
<1>3. ASSUME NEW d \in Conns, Call(d) PROVE ScriptAt(c)'
  <2>1. /\ call' = [call EXCEPT ![d] = call[d] + 1] /\ UNCHANGED <<mode, c2s>>
        /\ netpc' = netpc \/ (StartThread(d) /\ netpc' = [netpc EXCEPT ![d] = "top"])
        /\ stage' = stage \/ (Open(d) /\ stage' = [stage EXCEPT ![d] = "handshake"])
    BY <1>3 DEF Call, New, Open, Handshake, SetReactor, StartThread, FirstPacket,
                Does, shared, object, caller, thread, server
  <2>2. Open(d) => call[d] = 1
    BY DoesWhere DEF Open
  <2>3. StartThread(d) => call[d] = IF mode[d] = "connect" THEN 4 ELSE 3
    BY DoesWhere DEF StartThread
  <2>4. call[d] \in 0 .. 5
    BY <1>2, <1>3, DoesWhere DEF Call, New, Open, Handshake, SetReactor, StartThread,
                                 FirstPacket
  <2>5. CASE d = c
    <3>1. call'[c] = call[c] + 1 /\ mode'[c] = mode[c] /\ c2s'[c] = c2s[c]
      BY <1>2, <2>1, <2>5
    <3>2. call'[c] \in {0, 1} => stage'[c] = stage[c] /\ call[c] \in {0, 1}
      <4>1. call[c] \in 0 .. 6
        BY <1>2
      <4>2. call'[c] \in {0, 1} => call[c] = 0
        BY <3>1, <4>1
      <4>3. call[c] = 0 => UNCHANGED stage
        BY <2>1, <2>2, <2>5
      <4>4. QED
        BY <4>2, <4>3
    <3>3. ~Started(c)' => netpc'[c] = netpc[c] /\ ~Started(c)
      <4>1. call[c] \in 0 .. 5
        BY <2>5, <2>4
      <4>2. ~Started(c)' => ~Started(c) /\ call[c] # 4 /\ (call[c] = 3 => mode[c] = "connect")
        BY <3>1, <4>1 DEF Started
      <4>3. StartThread(d) => call[c] = 4 \/ (call[c] = 3 /\ mode[c] # "connect")
        BY <2>3, <2>5
      <4>4. QED
        BY <2>1, <4>2, <4>3
    <3>4. QED
      BY <1>1, <3>1, <3>2, <3>3 DEF ScriptAt
  <2>6. CASE d # c
    BY <1>1, <1>2, <2>1, <2>6 DEF ScriptAt, Started
  <2>7. QED
    BY <2>5, <2>6
<1>4. ASSUME NEW d \in Conns, WriteChat(d) PROVE ScriptAt(c)'
  <2>1. UNCHANGED <<call, mode, stage, netpc>>
    BY <1>4 DEF WriteChat, thread, server
  <2>2. call[d] = 6 /\ \A e \in Conns : e # d => c2s'[e] = c2s[e]
    BY <1>2, <1>4, DoesWhere DEF WriteChat, Returned, Transmit, SendRaises
  <2>3. QED
    BY <1>1, <2>1, <2>2 DEF ScriptAt, Started
<1>5. ASSUME NEW d \in Conns, Network(d) PROVE ScriptAt(c)'
  <2>1. UNCHANGED <<call, mode, stage>>
    BY <1>5 DEF Network, NetTop, NetLock, NetDrained, NetPop, NetPopRaises, NetSelect,
       NetTimeout, NetEof, NetSpin, NetRead, React, ReactKey, NetForce, NetSwap,
       ReactSuccess, ReactCompression, ReactKeepAlive, ReactPosition, ReactResponse,
       ReactNothing, caller, server
  <2>2. netpc[d] # "none"
    BY <1>5 DEF Network, NetTop, NetLock, NetDrained, NetPop, NetPopRaises, NetSelect,
       NetTimeout, NetEof, NetSpin, NetRead, React, ReactKey, NetForce, NetSwap,
       ReactSuccess, ReactCompression, ReactKeepAlive, ReactPosition, ReactResponse,
       ReactNothing, Reacting
  <2>3. \A e \in Conns : e # d => netpc'[e] = netpc[e] /\ c2s'[e] = c2s[e]
    BY <1>2, <1>5 DEF Network, NetTop, NetLock, NetDrained, NetPop, NetPopRaises,
       NetSelect, NetTimeout, NetEof, NetSpin, NetRead, React, ReactKey, NetForce,
       NetSwap, ReactSuccess, ReactCompression, ReactKeepAlive, ReactPosition,
       ReactResponse, ReactNothing, NextRead, StopWriting, Transmit, SendRaises, thread
  <2>4. CASE c = d
    BY <1>1, <2>1, <2>2, <2>4 DEF ScriptAt, Started
  <2>5. CASE c # d
    BY <1>1, <2>1, <2>3, <2>5 DEF ScriptAt, Started
  <2>6. QED
    BY <2>4, <2>5
<1>6. ASSUME NEW d \in Conns, Server(d) PROVE ScriptAt(c)'
  <2>1. UNCHANGED <<call, mode, netpc>>
    BY <1>6 DEF Server, ServerReject, ServerTake, ServerLogin, ServerKeepAlive,
       ServerPosition, ServerOther, ServerClose, caller, thread
  <2>2. \A e \in Conns : e # d => stage'[e] = stage[e] /\ c2s'[e] = c2s[e]
    BY <1>2, <1>6 DEF Server, ServerReject, ServerTake, ServerLogin, ServerKeepAlive,
       ServerPosition, ServerOther, ServerClose, server
  <2>3. stage[d] # "none" \/ c2s[d] # <<>>
    BY <1>6 DEF Server, ServerReject, ServerTake, ServerLogin, ServerKeepAlive,
       ServerPosition, ServerOther, ServerClose
  <2>4. QED
    BY <1>1, <1>2, <2>1, <2>2, <2>3 DEF ScriptAt, Started
<1>7. CASE UNCHANGED vars
  BY <1>1, <1>7 DEF vars, caller, thread, server, ScriptAt, Started
<1>8. QED
  BY <1>3, <1>4, <1>5, <1>6, <1>7 DEF Next, Application

LEMMA InitScript == Init => ScriptInv
BY DEF Init, ScriptInv, ScriptAt, Started

\* A closed server stays closed, whoever moves.
LEMMA ClosedStays ==
  ASSUME TypeOK, ScriptInv, [Next]_vars, NEW c \in Conns, stage[c] = "closed"
  PROVE  stage'[c] = "closed"
<1>1. stage \in [Conns -> Stages]
  BY DEF TypeOK, ServerType
<1>2. ASSUME NEW d \in Conns, Application(d) PROVE stage'[c] = "closed"
  <2>1. Open(d) => stage[d] = "none"
    BY DoesWhere DEF Open, ScriptInv, ScriptAt
  <2>2. stage' = stage \/ (Open(d) /\ stage' = [stage EXCEPT ![d] = "handshake"])
    BY <1>2 DEF Application, Call, New, Open, Handshake, SetReactor, StartThread,
                FirstPacket, WriteChat, server
  <2>3. QED
    BY <1>1, <2>1, <2>2
<1>3. ASSUME NEW d \in Conns, Network(d) PROVE stage'[c] = "closed"
  BY <1>3 DEF Network, NetTop, NetLock, NetDrained, NetPop, NetPopRaises, NetSelect,
     NetTimeout, NetEof, NetSpin, NetRead, React, ReactKey, NetForce, NetSwap,
     ReactSuccess, ReactCompression, ReactKeepAlive, ReactPosition, ReactResponse,
     ReactNothing, server
<1>4. ASSUME NEW d \in Conns, Server(d) PROVE stage'[c] = "closed"
  BY <1>1, <1>4 DEF Server, ServerReject, ServerTake, ServerLogin, ServerKeepAlive,
     ServerPosition, ServerOther, ServerClose, server
<1>5. QED
  BY <1>2, <1>3, <1>4 DEF Next, vars, server

LEMMA Grown ==
  ASSUME NEW S, NEW q \in Seq(S), NEW e \in S, NEW r, r = Append(q, e)
  PROVE  /\ r \in Seq(S) /\ Len(q) \in Nat /\ Len(r) = Len(q) + 1 /\ r[Len(r)] = e
         /\ r # <<>> /\ Len(r) \in 1 .. Len(r)
         /\ \A i \in 1 .. Len(q) : r[i] = q[i] /\ i \in 1 .. Len(r) /\ i # Len(r)
         /\ \A i \in 1 .. Len(r) : i = Len(r) \/ i \in 1 .. Len(q)
OBVIOUS

LEMMA Shorn ==
  ASSUME NEW S, NEW q \in Seq(S), q # <<>>, NEW r, r = Tail(q)
  PROVE  /\ r \in Seq(S) /\ Head(q) = q[1] /\ q[1] \in S /\ 1 \in 1 .. Len(q)
         /\ \A i \in 1 .. Len(r) : r[i] = q[i + 1] /\ i + 1 \in 1 .. Len(q) /\ i + 1 # 1
OBVIOUS

\* How a step changes the queue, and what is written.
LEMMA QueueMoves ==
  ASSUME TypeOK, [Next]_vars
  PROVE  \/ UNCHANGED queue /\ (written' = written \/ written' = written + 1)
         \/ queue # <<>> /\ queue' = Tail(queue) /\ UNCHANGED written
         \/ \E c \in Conns, k \in Serverbound, a \in Nat :
              /\ Enqueue(c, k, a)
              /\ \/ k # "chat" /\ UNCHANGED written
                 \/ written' = written + 1 /\ a = written + 1 /\ a \notin Urgent
<1>1. CASE UNCHANGED vars
  BY <1>1 DEF vars, shared, caller
<1>2. ASSUME NEW c \in Conns, Application(c) \/ Network(c) \/ Server(c)
      PROVE  \/ UNCHANGED queue /\ (written' = written \/ written' = written + 1)
             \/ queue # <<>> /\ queue' = Tail(queue) /\ UNCHANGED written
             \/ \E k \in Serverbound, a \in Nat :
                  /\ Enqueue(c, k, a)
                  /\ \/ k # "chat" /\ UNCHANGED written
                     \/ written' = written + 1 /\ a = written + 1 /\ a \notin Urgent
  <2>1. CASE Call(c)
    BY <2>1 DEF Call, New, Open, Handshake, SetReactor, StartThread, FirstPacket, Serverbound,
       shared, caller
  <2>2. CASE WriteChat(c)
    <3>1. "chat" \in Serverbound /\ written + 1 \in Nat
      BY DEF Serverbound, TypeOK, CallerType
    <3>2. QED
      BY <2>2, <3>1 DEF WriteChat
  <2>3. CASE Network(c) /\ ~React(c)
    BY <2>3 DEF Network, NetTop, NetLock, NetDrained, NetPop, NetPopRaises, NetSelect,
       NetTimeout, NetEof, NetSpin, NetRead, shared, caller
  <2>4. CASE React(c)
    <3>1. pkt[c].arg \in Nat
      BY DEF TypeOK, ThreadType
    <3>2. QED
      BY <2>4, <3>1 DEF React, ReactKey, NetForce, NetSwap, ReactSuccess, ReactCompression,
         ReactKeepAlive, ReactPosition, ReactResponse, ReactNothing, Serverbound, shared, caller
  <2>5. CASE Server(c)
    BY <2>5 DEF Server, ServerReject, ServerTake, ServerLogin, ServerKeepAlive, ServerPosition,
       ServerOther, ServerClose, shared, caller
  <2>6. QED
    BY <1>2, <2>1, <2>2, <2>3, <2>4, <2>5 DEF Application
<1>3. QED
  BY <1>1, <1>2 DEF Next

LEMMA StepQueued == TypeOK /\ QueuedInv /\ [Next]_vars => QueuedInv'
<1> SUFFICES ASSUME TypeOK, QueuedInv, [Next]_vars PROVE QueuedInv'
  OBVIOUS
<1>1. queue \in Seq(Packet) /\ written \in Nat
  BY DEF TypeOK, SharedType, CallerType
<1>2. CASE UNCHANGED queue /\ (written' = written \/ written' = written + 1)
  BY <1>1, <1>2 DEF QueuedInv
<1>3. CASE queue # <<>> /\ queue' = Tail(queue) /\ UNCHANGED written
  <2>1. \A i \in 1 .. Len(queue') : queue'[i] = queue[i + 1] /\ i + 1 \in 1 .. Len(queue)
    BY <1>1, <1>3, Shorn
  <2>2. QED
    BY <1>3, <2>1 DEF QueuedInv
<1>4. ASSUME NEW c \in Conns, NEW k \in Serverbound, NEW a \in Nat, Enqueue(c, k, a),
             \/ k # "chat" /\ UNCHANGED written
             \/ written' = written + 1 /\ a = written + 1 /\ a \notin Urgent
      PROVE  QueuedInv'
  <2> DEFINE p == [kind |-> k, arg |-> a, via |-> c]
  <2>1. p \in Packet /\ p.kind = k /\ p.arg = a /\ queue' = Append(queue, p)
    BY <1>4 DEF Packet, Enqueue
  <2> HIDE DEF p
  <2>2. /\ \A i \in 1 .. Len(queue) : queue'[i] = queue[i]
        /\ \A i \in 1 .. Len(queue') : queue'[i] = p \/ i \in 1 .. Len(queue)
    BY <1>1, <2>1, Grown
  <2>3. QED
    BY <1>1, <1>4, <2>1, <2>2 DEF QueuedInv
<1>5. QED
  BY <1>2, <1>3, <1>4, QueueMoves

LEMMA InitQueued == Init => QueuedInv
BY DEF Init, QueuedInv

\* A write that raises with an open peer is that of a chat.
LEMMA ChatsRaise ==
  ASSUME NEW c \in Conns, NEW p, SendRaises(c, p), stage[c] # "closed"
  PROVE  p.kind = "chat" /\ p.arg \in Unencodable /\ UNCHANGED c2s
BY DEF SendRaises, Encodes

\* ... and one taken from the queue has been written.
LEMMA RaisesFor ==
  ASSUME TypeOK, QueuedInv, NEW c \in Conns, queue # <<>>, SendRaises(c, Head(queue)),
         stage[c] # "closed"
  PROVE  Head(queue).kind = "chat" /\ Babbled(Nat \ Urgent)
<1>1. queue \in Seq(Packet) /\ written \in Nat
  BY DEF TypeOK, SharedType, CallerType
<1>2. Head(queue) = queue[1] /\ 1 \in 1 .. Len(queue)
  BY <1>1, Shorn
<1>3. queue[1].kind = "chat" /\ queue[1].arg \in Unencodable
  BY <1>2 DEF SendRaises, Encodes
<1>4. queue[1].arg \in 1 .. written /\ queue[1].arg \notin Urgent
  BY <1>2, <1>3 DEF QueuedInv
<1>5. queue[1].arg \in Nat \ Urgent
  BY <1>1, <1>4
<1>6. QED
  BY <1>2, <1>3, <1>4, <1>5 DEF Babbled

\* A step keeps the write lock with the writer.
LEMMA StepLock ==
  TypeOK /\ ScriptInv /\ QueuedInv /\ LockOfWriter /\ [Next]_vars => LockOfWriter'
<1> SUFFICES ASSUME TypeOK, ScriptInv, QueuedInv, LockOfWriter, [Next]_vars
             PROVE  LockOfWriter'
  OBVIOUS
<1> USE ConnectionAssumption DEF ConnectionAssumption
<1>1. /\ netpc \in [Conns -> Counters] /\ lock \in Conns \cup {App, Free}
      /\ stage \in [Conns -> Stages] /\ written \in Nat
  BY DEF TypeOK, ThreadType, SharedType, ServerType, CallerType
<1>2. \A c \in Conns : stage[c] = "closed" => stage'[c] = "closed"
  BY ClosedStays
<1> DEFINE queued == Babbled(Nat \ Urgent)
           forced == Babbled(Urgent)
<1>3. (queued => queued') /\ (forced => forced')
  <2>1. written' \in Nat /\ written' >= written
    BY <1>1, QueueMoves
  <2>2. QED
    BY <1>1, <2>1 DEF Babbled
<1>4. /\ \A c \in Conns : netpc[c] = "writing" => lock = c
      /\ \A c \in Conns : lock = c /\ netpc[c] # "writing" =>
           netpc[c] = "dead" /\ (stage[c] = "closed" \/ queued)
      /\ lock = App => (\E c \in Conns : stage[c] = "closed") \/ forced
  BY DEF LockOfWriter
<1>5. SUFFICES
      /\ \A c \in Conns : netpc'[c] = "writing" => lock' = c
      /\ \A c \in Conns : lock' = c /\ netpc'[c] # "writing" =>
           netpc'[c] = "dead" /\ (stage'[c] = "closed" \/ queued')
      /\ lock' = App => (\E c \in Conns : stage'[c] = "closed") \/ forced'
  BY DEF LockOfWriter
<1>6. ASSUME NEW d \in Conns, NetPopRaises(d), stage[d] # "closed" PROVE queued
  BY <1>6, RaisesFor DEF NetPopRaises
<1>7. ASSUME NEW d \in Conns, WriteChat(d), lock' # lock
      PROVE  /\ lock = Free /\ lock' = App
             /\ stage[d] = "closed" \/ forced'
  <2>1. /\ written' \in Urgent /\ lock = Free /\ lock' = App /\ written' = written + 1
        /\ SendRaises(d, [kind |-> "chat", arg |-> written', via |-> d])
    BY <1>7 DEF WriteChat
  <2>2. stage[d] = "closed" \/ written' \in Unencodable
    BY <2>1 DEF SendRaises, Encodes
  <2>3. QED
    BY <1>1, <2>1, <2>2 DEF Babbled
<1> HIDE DEF queued, forced
<1>8. ASSUME NEW d \in Conns, Application(d)
      PROVE  /\ \A c \in Conns : netpc'[c] = "writing" => lock' = c
             /\ \A c \in Conns : lock' = c /\ netpc'[c] # "writing" =>
                  netpc'[c] = "dead" /\ (stage'[c] = "closed" \/ queued')
             /\ lock' = App => (\E c \in Conns : stage'[c] = "closed") \/ forced'
  <2>1. StartThread(d) => netpc[d] = "none"
    BY DoesWhere DEF StartThread, ScriptInv, ScriptAt, Started
  <2>2. netpc' = netpc \/ (StartThread(d) /\ netpc' = [netpc EXCEPT ![d] = "top"])
    BY <1>8 DEF Application, Call, New, Open, Handshake, SetReactor, StartThread,
                FirstPacket, WriteChat, thread
  <2>3. WriteChat(d) \/ lock' = lock
    BY <1>8 DEF Application, Call, New, Open, Handshake, SetReactor, StartThread,
                FirstPacket, shared
  <2>4. \/ lock' = lock
        \/ lock = Free /\ lock' = App /\ (stage[d] = "closed" \/ forced')
    BY <1>7, <2>3
  <2>5. QED
    BY <1>1, <1>2, <1>3, <1>4, <2>1, <2>2, <2>4
<1>9. ASSUME NEW d \in Conns, Network(d)
      PROVE  /\ \A c \in Conns : netpc'[c] = "writing" => lock' = c
             /\ \A c \in Conns : lock' = c /\ netpc'[c] # "writing" =>
                  netpc'[c] = "dead" /\ (stage'[c] = "closed" \/ queued')
             /\ lock' = App => (\E c \in Conns : stage'[c] = "closed") \/ forced'
  <2>1. CASE NetLock(d)
    BY <1>1, <1>2, <1>3, <1>4, <2>1 DEF NetLock
  <2>2. CASE NetDrained(d) \/ NetPop(d)
    <3>1. netpc[d] = "writing" /\ lock = d
      BY <1>4, <2>2 DEF NetDrained, NetPop
    <3>2. \/ UNCHANGED <<lock, netpc>>
          \/ lock' = Free /\ netpc' = [netpc EXCEPT ![d] = "select"]
      BY <2>2 DEF NetDrained, NetPop, StopWriting
    <3>3. QED
      BY <1>1, <1>2, <1>3, <1>4, <3>1, <3>2
  <2>3. CASE NetPopRaises(d)
    <3>1. /\ netpc[d] = "writing" /\ lock = d /\ lock' = lock
          /\ netpc' = [netpc EXCEPT ![d] = "dead"]
      BY <1>4, <2>3 DEF NetPopRaises
    <3>2. stage[d] = "closed" \/ queued
      BY <1>6, <2>3
    <3>3. QED
      BY <1>1, <1>2, <1>3, <1>4, <3>1, <3>2
  <2>4. CASE NetForce(d)
    <3>1. netpc[d] = "forcing" /\ lock = Free
      BY <2>4 DEF NetForce
    <3>2. \/ UNCHANGED lock /\ netpc' = [netpc EXCEPT ![d] = "swapping"]
          \/ /\ lock' = d /\ netpc' = [netpc EXCEPT ![d] = "dead"]
             /\ stage[d] = "closed"
      BY <2>4 DEF NetForce, SendRaises, Encodes
    <3>3. QED
      BY <1>1, <1>2, <1>3, <1>4, <3>1, <3>2
  <2>5. CASE NetTop(d) \/ NetSelect(d) \/ NetTimeout(d) \/ NetEof(d) \/ NetSpin(d)
             \/ NetRead(d)
    <3>1. /\ netpc[d] \notin {"writing", "dead"} /\ UNCHANGED lock
          /\ \E pc \in Counters \ {"writing"} : netpc' = [netpc EXCEPT ![d] = pc]
      BY <2>5 DEF NetTop, NetSelect, NetTimeout, NetEof, NetSpin, NetRead, shared, Counters
    <3>2. QED
      BY <1>1, <1>2, <1>3, <1>4, <3>1
  <2>6. CASE ReactKey(d) \/ NetSwap(d) \/ ReactSuccess(d) \/ ReactCompression(d)
             \/ ReactKeepAlive(d) \/ ReactPosition(d) \/ ReactResponse(d)
             \/ ReactNothing(d)
    <3>1. /\ netpc[d] \notin {"writing", "dead"} /\ UNCHANGED lock
      BY <2>6 DEF ReactKey, NetSwap, ReactSuccess, ReactCompression, ReactKeepAlive,
         ReactPosition, ReactResponse, ReactNothing, Reacting, shared
    <3>2. \E pc \in Counters \ {"writing"} : netpc' = [netpc EXCEPT ![d] = pc]
      BY <2>6 DEF ReactKey, NetSwap, ReactSuccess, ReactCompression, ReactKeepAlive,
         ReactPosition, ReactResponse, ReactNothing, NextRead, Counters
    <3>3. QED
      BY <1>1, <1>2, <1>3, <1>4, <3>1, <3>2
  <2>7. QED
    BY <1>9, <2>1, <2>2, <2>3, <2>4, <2>5, <2>6 DEF Network, React
<1>10. ASSUME NEW d \in Conns, Server(d) PROVE UNCHANGED <<lock, netpc>>
  BY <1>10 DEF Server, ServerReject, ServerTake, ServerLogin, ServerKeepAlive,
     ServerPosition, ServerOther, ServerClose, shared, thread
<1>11. CASE UNCHANGED <<lock, netpc>>
  BY <1>2, <1>3, <1>4, <1>11
<1>12. UNCHANGED vars => UNCHANGED <<lock, netpc>>
  BY DEF vars, shared, thread
<1>13. QED
  BY <1>8, <1>9, <1>10, <1>11, <1>12 DEF Next

\* LockOfWriter, for every number of connections: one networking thread at a
\* time writes, and the lock is lost only behind a closed server or to a chat
\* that cannot be encoded.
THEOREM WriterHoldsLock == Spec => []LockOfWriter
<1>1. Init => LockOfWriter
  BY ConnectionAssumption DEF ConnectionAssumption, Init, LockOfWriter
<1>2. QED
  BY <1>1, InitType, StepType, InitScript, StepScript, InitQueued, StepQueued, StepLock, PTL
  DEF Spec
-----------------------------------------------------------------------------
(* The stream from the server *)

OneConnection == \A c, d \in Conns : c = d
-----------------------------------------------------------------------------
(* Chains of frames *)

\* A frame written with the settings at the end of a chain prolongs it.
LEMMA ChainAppend ==
  ASSUME NEW s \in Seq(FrameDown), NEW st, NEW f \in FrameDown,
         Chained(s, st), Stamp(f) = End(s, st)
  PROVE  /\ Chained(Append(s, f), st)
         /\ End(Append(s, f), st) = After(Stamp(f), f.kind)
<1> DEFINE t == Append(s, f)
<1>1. /\ Len(t) = Len(s) + 1 /\ Len(s) \in Nat /\ t[Len(s) + 1] = f
      /\ \A i \in 1 .. Len(s) : t[i] = s[i]
  OBVIOUS
<1>2. t # <<>>
  BY <1>1
<1>3. Stamp(t[1]) = st
  <2>1. CASE s = <<>>
    BY <1>1, <2>1 DEF End
  <2>2. CASE s # <<>>
    BY <1>1, <2>2 DEF Chained
  <2>3. QED
    BY <2>1, <2>2
<1>4. ASSUME NEW i \in 1 .. Len(t) - 1
      PROVE  Stamp(t[i + 1]) = After(Stamp(t[i]), t[i].kind)
  <2>1. CASE i = Len(s)
    BY <1>1, <1>4, <2>1 DEF End
  <2>2. CASE i # Len(s)
    <3>1. i \in 1 .. Len(s) - 1 /\ i + 1 \in 1 .. Len(s) /\ i \in 1 .. Len(s)
      BY <1>1, <1>4, <2>2
    <3>2. QED
      BY <1>1, <3>1 DEF Chained
  <2>3. QED
    BY <2>1, <2>2
<1> HIDE DEF t
<1>5. Chained(t, st)
  BY <1>3, <1>4 DEF Chained
<1>6. End(t, st) = After(Stamp(f), f.kind)
  BY <1>1, <1>2 DEF End
<1>7. QED
  BY <1>5, <1>6 DEF t

\* Reading the head of a chain leaves a chain.
LEMMA ChainTail ==
  ASSUME NEW s \in Seq(FrameDown), NEW st, s # <<>>, Chained(s, st)
  PROVE  /\ Stamp(Head(s)) = st
         /\ Chained(Tail(s), After(st, Head(s).kind))
         /\ End(Tail(s), After(st, Head(s).kind)) = End(s, st)
<1> DEFINE t == Tail(s)
<1>1. /\ Len(s) \in Nat /\ Len(s) >= 1 /\ Len(t) = Len(s) - 1
      /\ Head(s) = s[1] /\ \A i \in 1 .. Len(t) : t[i] = s[i + 1]
  OBVIOUS
<1>2. Stamp(s[1]) = st
  BY DEF Chained
<1>3. \A i \in 1 .. Len(s) - 1 : Stamp(s[i + 1]) = After(Stamp(s[i]), s[i].kind)
  BY DEF Chained
<1>4. t = <<>> <=> Len(s) = 1
  <2>1. t \in Seq(FrameDown)
    OBVIOUS
  <2>2. t = <<>> <=> Len(t) = 0
    BY <2>1, EmptySeq
  <2>3. QED
    BY <1>1, <2>2
<1>5. t # <<>> => Stamp(t[1]) = After(st, s[1].kind)
  BY <1>1, <1>2, <1>3, <1>4
<1>6. ASSUME NEW i \in 1 .. Len(t) - 1
      PROVE  Stamp(t[i + 1]) = After(Stamp(t[i]), t[i].kind)
  <2>1. i + 1 \in 1 .. Len(s) - 1 /\ i \in 1 .. Len(t) /\ i + 1 \in 1 .. Len(t)
    BY <1>1, <1>6
  <2>2. QED
    BY <1>1, <1>3, <2>1
<1>7. t # <<>> => t[Len(t)] = s[Len(s)]
  BY <1>1, <1>4
<1> HIDE DEF t
<1>8. Chained(t, After(st, s[1].kind))
  BY <1>5, <1>6 DEF Chained
<1>9. End(t, After(st, s[1].kind)) = End(s, st)
  BY <1>1, <1>2, <1>4, <1>7 DEF End
<1>10. QED
  BY <1>1, <1>2, <1>8, <1>9 DEF t
-----------------------------------------------------------------------------
(* Packets on their way to the server *)

\* Progress of the call does not make a packet unfit.
LEMMA FitsStays ==
  ASSUME NEW c \in Conns, NEW k, NEW a, Fits(c, k, a), mode'[c] = mode[c],
         Begun(c) => Begun(c)'
  PROVE  Fits(c, k, a)'
BY DEF Fits

LEMMA EnqueueLetters ==
  ASSUME TypeOK, NEW c \in Conns, NEW k, NEW a, Letters(c), Enqueue(c, k, a),
         Fits(c, k, a)', UNCHANGED <<mode, c2s>>, Begun(c) => Begun(c)'
  PROVE  Letters(c)'
<1>1. queue \in Seq(Packet)
  BY DEF TypeOK, SharedType
<1>2. /\ Len(queue') = Len(queue) + 1 /\ Len(queue) \in Nat
      /\ queue'[Len(queue) + 1] = [kind |-> k, arg |-> a, via |-> c]
      /\ \A i \in 1 .. Len(queue) : queue'[i] = queue[i]
  BY <1>1 DEF Enqueue
<1>3. ASSUME NEW i \in 1 .. Len(queue') PROVE Fits(c, queue[i].kind, queue[i].arg)'
  <2>1. CASE i = Len(queue) + 1
    BY <1>2, <2>1 DEF Fits
  <2>2. CASE i # Len(queue) + 1
    <3>1. i \in 1 .. Len(queue)
      BY <1>2, <1>3, <2>2
    <3>2. Fits(c, queue[i].kind, queue[i].arg) /\ queue'[i] = queue[i]
      BY <1>2, <3>1 DEF Letters
    <3>3. QED
      BY <3>2 DEF Fits
  <2>3. QED
    BY <2>1, <2>2
<1>4. ASSUME NEW i \in 1 .. Len(c2s'[c]) PROVE Fits(c, c2s[c][i].kind, c2s[c][i].arg)'
  BY <1>4 DEF Letters, Fits
<1>5. QED
  BY <1>3, <1>4 DEF Letters

\* What is sent moves from the queue, or from a caller, to the wire.
LEMMA TransmitLetters ==
  ASSUME TypeOK, NEW c \in Conns, NEW p \in Packet, Letters(c), Transmit(c, p),
         Fits(c, p.kind, p.arg), UNCHANGED <<mode, call>>,
         queue' = queue \/ (queue # <<>> /\ queue' = Tail(queue))
  PROVE  Letters(c)'
<1>1. queue \in Seq(Packet) /\ c2s \in [Conns -> Seq(FrameUp)]
  BY DEF TypeOK, SharedType, WireType
<1>2. ASSUME NEW i \in 1 .. Len(queue') PROVE Fits(c, queue[i].kind, queue[i].arg)'
  <2>1. \E j \in 1 .. Len(queue) : queue'[i] = queue[j]
    <3>1. CASE queue' = queue
      BY <1>2, <3>1
    <3>2. CASE queue # <<>> /\ queue' = Tail(queue)
      BY <1>1, <1>2, <3>2
    <3>3. QED
      BY <3>1, <3>2
  <2>2. QED
    BY <2>1 DEF Letters, Fits, Begun
<1>3. ASSUME NEW i \in 1 .. Len(c2s'[c]) PROVE Fits(c, c2s[c][i].kind, c2s[c][i].arg)'
  <2> DEFINE f == [kind |-> p.kind, arg |-> p.arg, via |-> p.via,
                   enc |-> cipher[c], cmp |-> compressed]
  <2>1. c2s'[c] = c2s[c] \/ c2s'[c] = Append(c2s[c], f)
    BY <1>1 DEF Transmit
  <2>2. f.kind = p.kind /\ f.arg = p.arg
    OBVIOUS
  <2>3. c2s[c] \in Seq(FrameUp)
    BY <1>1
  <2> HIDE DEF f
  <2>4. (\E j \in 1 .. Len(c2s[c]) : c2s'[c][i] = c2s[c][j]) \/ c2s'[c][i] = f
    <3>1. CASE c2s'[c] = c2s[c]
      BY <1>3, <3>1
    <3>2. CASE c2s'[c] = Append(c2s[c], f)
      BY <1>3, <2>3, <3>2
    <3>3. QED
      BY <2>1, <3>1, <3>2
  <2>5. QED
    BY <2>2, <2>4 DEF Letters, Fits, Begun
<1>4. QED
  BY <1>2, <1>3 DEF Letters
-----------------------------------------------------------------------------
(* Steps of the client *)

\* A step of the networking thread that leaves the stream and what is expected
\* of it alone.
LEMMA Calm ==
  ASSUME TypeOK, NEW c \in Conns, StreamAt(c),
         UNCHANGED <<call, mode, stage, senc, scomp, s2c>>,
         netpc'[c] # "garbled", Alive(c)' => Alive(c), Busy(c)' => Busy(c),
         Alive(c)' => Expected(c)' = Expected(c),
         Current(c)' = Current(c) \/ Busy(c),
         mode[c] = "status" => reactor'[c] = reactor[c],
         Letters(c)', Idle(c)', Held(c)'
  PROVE  StreamAt(c)'
<1>1. Quiet(c)'
  BY DEF StreamAt, Quiet, Begun, Early, Current
<1>2. Modal(c)'
  BY DEF StreamAt, Modal, Quiet, Early, Current
<1>3. Reading(c)'
  BY DEF StreamAt, Reading, Talks, Begun, Early, Promised, TableOf
<1>4. QED
  BY <1>1, <1>2, <1>3 DEF StreamAt

\* The writing half of a round.
LEMMA WritingStream ==
  ASSUME TypeOK, NEW c \in Conns, StreamAt(c),
         NetTop(c) \/ NetLock(c) \/ NetDrained(c) \/ NetPop(c) \/ NetPopRaises(c)
  PROVE  StreamAt(c)'
<1>1. /\ UNCHANGED <<call, mode, stage, senc, scomp, s2c, cipher, compressed, reactor>>
  BY DEF NetTop, NetLock, NetDrained, NetPop, NetPopRaises, caller, server, object, shared
<1>2. /\ netpc[c] \in {"top", "locking", "writing"}
      /\ netpc'[c] \in {"stopped", "locking", "writing", "select", "dead"}
  BY DEF NetTop, NetLock, NetDrained, NetPop, NetPopRaises, StopWriting, TypeOK, ThreadType
<1>3. /\ Alive(c) /\ ~Busy(c) /\ ~Busy(c)' /\ ~Stale(c)'
  BY <1>2 DEF Alive, Busy, Stale
<1>4. Expected(c)' = Expected(c) /\ Current(c)' = Current(c)
  BY <1>1, <1>3 DEF Expected, Current
<1>5. Letters(c)'
  <2>1. CASE NetTop(c) \/ NetLock(c) \/ NetDrained(c)
    <3>1. UNCHANGED <<queue, c2s>>
      BY <2>1 DEF NetTop, NetLock, NetDrained, shared
    <3>2. QED
      BY <1>1, <3>1 DEF StreamAt, Letters, Fits, Begun
  <2>2. CASE NetPop(c)
    <3>1. queue # <<>> /\ queue \in Seq(Packet) /\ queue' = Tail(queue)
          /\ Transmit(c, Head(queue))
      BY <2>2 DEF NetPop, TypeOK, SharedType
    <3>2. Head(queue) \in Packet /\ Head(queue) = queue[1] /\ 1 \in 1 .. Len(queue)
      BY <3>1
    <3>3. Fits(c, Head(queue).kind, Head(queue).arg)
      BY <3>2 DEF StreamAt, Letters
    <3>4. QED
      BY <1>1, <3>1, <3>2, <3>3, TransmitLetters DEF StreamAt
  <2>3. CASE NetPopRaises(c)
    <3>1. queue # <<>> /\ queue \in Seq(Packet) /\ queue' = Tail(queue) /\ UNCHANGED c2s
      BY <2>3 DEF NetPopRaises, SendRaises, TypeOK, SharedType
    <3>2. \A i \in 1 .. Len(queue') : \E j \in 1 .. Len(queue) : queue'[i] = queue[j]
      BY <3>1
    <3>3. QED
      BY <1>1, <3>1, <3>2 DEF StreamAt, Letters, Fits, Begun
  <2>4. QED
    BY <2>1, <2>2, <2>3
<1>6. QED
  BY <1>1, <1>2, <1>3, <1>4, <1>5, Calm DEF Idle, Held

\* The reading half, but for the frame read.
LEMMA WaitingStream ==
  ASSUME TypeOK, NEW c \in Conns, StreamAt(c),
         NetSelect(c) \/ NetTimeout(c) \/ NetEof(c) \/ NetSpin(c)
  PROVE  StreamAt(c)'
<1>1. /\ UNCHANGED <<call, mode, stage, senc, scomp, s2c, cipher, compressed, reactor,
                      queue, c2s>>
  BY DEF NetSelect, NetTimeout, NetEof, NetSpin, caller, server, object, shared
<1>2. /\ netpc[c] \in {"select", "polling"}
      /\ netpc'[c] \in {"polling", "top", "dead", "spinning"}
      /\ netpc'[c] = "polling" => bound'[c] = reactor'[c]
  BY <1>1 DEF NetSelect, NetTimeout, NetEof, NetSpin, TypeOK, ThreadType, ObjectType
<1>3. /\ Alive(c) /\ ~Busy(c) /\ ~Busy(c)' /\ ~Stale(c)'
  BY <1>2 DEF Alive, Busy, Stale
<1>4. Expected(c)' = Expected(c) /\ Current(c)' = Current(c)
  BY <1>1, <1>3 DEF Expected, Current
<1>5. Letters(c)'
  BY <1>1 DEF StreamAt, Letters, Fits, Begun
<1>6. QED
  BY <1>1, <1>2, <1>3, <1>4, <1>5, Calm DEF Idle, Held

\* The frame read is the one the reader is ready for.
LEMMA ReadStream ==
  ASSUME TypeOK, NEW c \in Conns, StreamAt(c), NetRead(c)
  PROVE  StreamAt(c)'
<1> DEFINE f == Head(s2c[c])
<1>1. /\ UNCHANGED <<call, mode, stage, senc, scomp, cipher, compressed, reactor,
                      queue, c2s>>
      /\ netpc[c] = "polling" /\ s2c[c] # <<>>
      /\ s2c' = [s2c EXCEPT ![c] = Tail(s2c[c])]
  BY DEF NetRead, caller, server, object, shared
<1>2. s2c[c] \in Seq(FrameDown) /\ s2c'[c] = Tail(s2c[c])
  BY <1>1 DEF TypeOK, WireType
<1>3. ~Stale(c) /\ Alive(c) /\ ~Busy(c)
  BY <1>1 DEF StreamAt, Idle, Stale, Alive, Busy
<1>4. bound[c] = reactor[c] /\ Expected(c) = Current(c)
  BY <1>1, <1>3 DEF Stale, Expected
<1>5. Chained(s2c[c], Current(c))
  BY <1>3, <1>4 DEF StreamAt, Reading
<1>6. Stamp(f) = Current(c)
  BY <1>1, <1>2, <1>5, ChainTail
<1>7. Decodes(c, f)
  BY <1>4, <1>6 DEF Stamp, Current, Decodes
<1>8. /\ netpc'[c] = "reacting" /\ pkt'[c].kind = f.kind
  BY <1>7 DEF NetRead, TypeOK, ThreadType
<1>9. Current(c)' = Current(c)
  BY <1>1 DEF Current
<1>10. Expected(c)' = After(Current(c), f.kind)
  BY <1>8, <1>9 DEF Expected, Busy
<1> HIDE DEF f
<1>11. Quiet(c)'
  BY <1>1 DEF StreamAt, Quiet, Early, Begun
<1>12. Modal(c)' /\ Letters(c)' /\ Idle(c)' /\ Held(c)'
  BY <1>1, <1>8 DEF Held, StreamAt, Modal, Letters, Fits, Idle, Stale, Early, Begun
<1>13. Reading(c)'
  <2>1. Chained(s2c'[c], After(Current(c), f.kind))
    BY <1>1, <1>2, <1>5, ChainTail DEF f
  <2>2. End(s2c'[c], After(Current(c), f.kind)) = End(s2c[c], Current(c))
    BY <1>1, <1>2, <1>5, ChainTail DEF f
  <2>3. Talks(c)' = Talks(c) /\ Promised(c)' = Promised(c)
    BY <1>1 DEF Talks, Early, Begun, Promised, TableOf
  <2>4. Talks(c) => Promised(c) = End(s2c[c], Current(c))
    BY <1>3, <1>4 DEF StreamAt, Reading
  <2>5. QED
    BY <1>8, <1>10, <2>1, <2>2, <2>3, <2>4 DEF Reading
<1>14. QED
  BY <1>11, <1>12, <1>13 DEF StreamAt

\* The reactions.
LEMMA ReactStream ==
  ASSUME TypeOK, NEW c \in Conns, StreamAt(c), React(c)
  PROVE  StreamAt(c)'
<1>1. /\ UNCHANGED <<call, mode, stage, senc, scomp, s2c>>
  BY DEF React, ReactKey, NetForce, NetSwap, ReactSuccess, ReactCompression,
     ReactKeepAlive, ReactPosition, ReactResponse, ReactNothing, caller, server
<1>2. Busy(c) /\ Alive(c) /\ Expected(c) = After(Current(c), pkt[c].kind)
  BY DEF React, ReactKey, NetForce, NetSwap, ReactSuccess, ReactCompression,
     ReactKeepAlive, ReactPosition, ReactResponse, ReactNothing, Reacting, Busy, Alive,
     Expected
<1>3. /\ netpc \in [Conns -> Counters] /\ pkt \in [Conns -> [kind : Clientbound, arg : Nat]]
      /\ reactor \in [Conns -> Reactors] /\ cipher \in [Conns -> BOOLEAN]
      /\ compressed \in BOOLEAN
  BY DEF TypeOK, ThreadType, ObjectType, SharedType
<1>4. ASSUME NextRead(c) PROVE netpc'[c] \in {"top", "select"}
  BY <1>3, <1>4 DEF NextRead
<1>5. Begun(c)
  BY <1>2 DEF StreamAt, Quiet
<1>6. CASE ReactKey(c)
  <2>1. /\ UNCHANGED <<cipher, compressed, reactor, queue, c2s, pkt>>
        /\ netpc'[c] \in {"forcing", "dead"}
    BY <1>3, <1>6 DEF ReactKey, object, shared
  <2>2. Letters(c)' /\ Idle(c)' /\ Held(c)'
    BY <1>1, <1>6, <2>1 DEF StreamAt, Letters, Fits, Begun, Idle, Stale, Held, ReactKey,
       Reacting
  <2>3. Current(c)' = Current(c) /\ (Alive(c)' => Busy(c)')
    BY <2>1 DEF Current, Alive, Busy
  <2>4. QED
    BY <1>1, <1>2, <2>1, <2>2, <2>3, Calm DEF Expected
<1>7. CASE NetForce(c)
  <2>1. /\ UNCHANGED <<cipher, compressed, reactor, queue, pkt>>
        /\ netpc'[c] \in {"swapping", "dead"}
    BY <1>3, <1>7 DEF NetForce, object
  <2>2. Idle(c)' /\ Held(c)'
    BY <1>7, <2>1 DEF Idle, Stale, StreamAt, Held, NetForce
  <2>3. [kind |-> "encryption_response", arg |-> 0, via |-> c] \in Packet
    BY DEF Packet, Serverbound
  <2>4. Letters(c)'
    <3>1. CASE UNCHANGED c2s
      BY <1>1, <2>1, <3>1 DEF StreamAt, Letters, Fits, Begun
    <3>2. CASE Transmit(c, [kind |-> "encryption_response", arg |-> 0, via |-> c])
      <4>1. Fits(c, "encryption_response", 0)
        BY DEF Fits
      <4>2. QED
        BY <1>1, <2>1, <2>3, <3>2, <4>1, TransmitLetters DEF StreamAt
    <3>3. QED
      BY <1>7, <3>1, <3>2 DEF NetForce, SendRaises
  <2>5. Current(c)' = Current(c) /\ (Alive(c)' => Busy(c)')
    BY <2>1 DEF Current, Alive, Busy
  <2>6. QED
    BY <1>1, <1>2, <2>1, <2>2, <2>4, <2>5, Calm DEF Expected
<1>8. CASE NetSwap(c) \/ ReactSuccess(c) \/ ReactCompression(c) \/ ReactKeepAlive(c)
           \/ ReactPosition(c) \/ ReactResponse(c) \/ ReactNothing(c)
  <2>1. NextRead(c)
    BY <1>8 DEF NetSwap, ReactSuccess, ReactCompression, ReactKeepAlive, ReactPosition,
       ReactResponse, ReactNothing
  <2>2. ~Busy(c)' /\ Alive(c)' /\ Expected(c)' = Current(c)' /\ ~Stale(c)'
    BY <1>4, <2>1 DEF Busy, Alive, Expected, Stale
  <2>3. mode[c] = "status" => reactor'[c] = reactor[c]
    BY <1>5, <1>8 DEF NetSwap, ReactSuccess, ReactCompression, ReactKeepAlive,
       ReactPosition, ReactResponse, ReactNothing, object, StreamAt, Modal, Begun
  <2>4. /\ Current(c)' = After(Current(c), pkt[c].kind)
        /\ Letters(c)'
    <3>1. CASE NetSwap(c)
      <4>1. /\ pkt[c].kind = "encryption_request" /\ cipher'[c] = TRUE
            /\ UNCHANGED <<reactor, compressed, queue, c2s>>
        BY <1>3, <3>1 DEF NetSwap, StreamAt, Held, shared
      <4>2. QED
        BY <1>1, <1>3, <4>1 DEF Current, After, StreamAt, Letters, Fits, Begun
    <3>2. CASE ReactSuccess(c)
      <4>1. /\ pkt[c].kind = "login_success" /\ reactor'[c] = "playing"
            /\ UNCHANGED <<cipher, compressed, queue, c2s>>
        BY <1>3, <3>2 DEF ReactSuccess, Reacting, shared
      <4>2. QED
        BY <1>1, <1>3, <4>1 DEF Current, After, StreamAt, Letters, Fits, Begun
    <3>3. CASE ReactCompression(c)
      <4>1. /\ pkt[c].kind = "set_compression" /\ compressed' = TRUE
            /\ UNCHANGED <<cipher, reactor, queue, c2s>>
        BY <1>3, <3>3 DEF ReactCompression, Reacting, object
      <4>2. QED
        BY <1>1, <1>3, <4>1 DEF Current, After, StreamAt, Letters, Fits, Begun
    <3>4. CASE ReactKeepAlive(c)
      <4>1. /\ pkt[c].kind = "keep_alive"
            /\ Enqueue(c, "keep_alive_serverbound", pkt[c].arg)
            /\ UNCHANGED <<cipher, reactor, compressed, c2s>>
        BY <1>3, <3>4 DEF ReactKeepAlive, Reacting, object
      <4>2. Current(c)' = After(Current(c), pkt[c].kind)
        BY <1>3, <4>1 DEF Current, After
      <4>3. Letters(c)'
        BY <1>1, <1>5, <4>1, EnqueueLetters DEF StreamAt, Begun, Fits
      <4>4. QED
        BY <4>2, <4>3
    <3>5. CASE ReactPosition(c)
      <4>1. /\ pkt[c].kind = "player_position_and_look"
            /\ \/ Enqueue(c, "teleport_confirm", pkt[c].arg)
               \/ Enqueue(c, "position_and_look", 0)
            /\ UNCHANGED <<cipher, reactor, compressed, c2s>>
        BY <1>3, <3>5 DEF ReactPosition, Reacting
      <4>2. Current(c)' = After(Current(c), pkt[c].kind)
        BY <1>3, <4>1 DEF Current, After
      <4>3. Letters(c)'
        BY <1>1, <1>5, <4>1, EnqueueLetters DEF StreamAt, Begun, Fits
      <4>4. QED
        BY <4>2, <4>3
    <3>6. CASE ReactResponse(c)
      <4>1. /\ pkt[c].kind = "response" /\ Enqueue(c, "ping", 0)
            /\ UNCHANGED <<cipher, reactor, compressed, c2s>>
        BY <1>3, <3>6 DEF ReactResponse, Reacting
      <4>2. Current(c)' = After(Current(c), pkt[c].kind)
        BY <1>3, <4>1 DEF Current, After
      <4>3. Fits(c, "ping", 0)'
        BY DEF Fits
      <4>4. Letters(c)'
        BY <1>1, <1>5, <4>1, <4>3, EnqueueLetters DEF StreamAt, Begun
      <4>5. QED
        BY <4>2, <4>4
    <3>7. CASE ReactNothing(c)
      <4>1. /\ pkt[c].kind \in {"disconnect", "other"}
            /\ UNCHANGED <<cipher, reactor, compressed, queue, c2s>>
        BY <1>3, <3>7 DEF ReactNothing, Reacting, object, shared
      <4>2. QED
        BY <1>1, <1>3, <4>1 DEF Current, After, StreamAt, Letters, Fits, Begun
    <3>8. QED
      BY <1>8, <3>1, <3>2, <3>3, <3>4, <3>5, <3>6, <3>7
  <2>6. QED
    BY <1>1, <1>2, <1>4, <2>1, <2>2, <2>3, <2>4, Calm DEF Idle, Held
<1>9. QED
  BY <1>6, <1>7, <1>8 DEF React
-----------------------------------------------------------------------------
(* Steps of the application *)

\* Before the call has queued all it queues, the stream is empty.
LEMMA BeforeFirst ==
  ASSUME TypeOK, NEW c \in Conns, StreamAt(c), ~Begun(c), ~Begun(c)',
         UNCHANGED <<mode, senc, scomp, s2c, cipher, compressed, pkt>>,
         netpc'[c] = netpc[c] \/ netpc'[c] = "top",
         stage'[c] = stage[c] \/ stage'[c] = "handshake",
         Modal(c)', Letters(c)', Idle(c)'
  PROVE  StreamAt(c)'
<1>1. Quiet(c)'
  BY DEF StreamAt, Quiet, Early, Busy
<1>2. Held(c)' /\ netpc'[c] # "garbled"
  BY DEF StreamAt, Held, Reading
<1>3. s2c'[c] = <<>> /\ ~Talks(c)'
  BY DEF StreamAt, Quiet, Talks
<1>4. Chained(s2c'[c], Expected(c)')
  BY <1>3 DEF Chained
<1>5. Reading(c)'
  BY <1>2, <1>3, <1>4 DEF Reading
<1>6. QED
  BY <1>1, <1>2, <1>5 DEF StreamAt

\* The statements before the last, but for the reactor.
LEMMA CallStream ==
  ASSUME TypeOK, NEW c \in Conns, StreamAt(c),
         New(c) \/ Open(c) \/ Handshake(c) \/ StartThread(c)
  PROVE  StreamAt(c)'
<1>1. /\ UNCHANGED <<mode, senc, scomp, s2c, c2s, cipher, compressed, reactor, pkt, bound>>
  BY DEF New, Open, Handshake, StartThread, server, object, shared, thread
<1>2. /\ call \in [Conns -> 0 .. 6] /\ call[c] < 5 /\ call'[c] = call[c] + 1
      /\ call'[c] = 4 => mode[c] # "connect"
      /\ call'[c] < 5 \/ mode[c] = "connect"
      /\ Open(c) => call[c] = 1
  BY DoesWhere DEF New, Open, Handshake, StartThread, Does, TypeOK, CallerType
<1>3. ~Begun(c) /\ ~Begun(c)'
  BY <1>2 DEF Begun
<1>4. /\ netpc'[c] = netpc[c] \/ netpc'[c] = "top"
      /\ stage'[c] = stage[c] \/ stage'[c] = "handshake"
  BY DEF New, Open, Handshake, StartThread, server, thread, TypeOK, ThreadType, ServerType
<1>5. Modal(c)'
  <2>1. Early(c)' => Early(c) \/ call'[c] < 4
    BY <1>2 DEF Open, New, Handshake, StartThread, Early, server
  <2>2. QED
    BY <1>1, <1>2, <1>4, <2>1 DEF StreamAt, Modal
<1>6. Letters(c)'
  <2>1. CASE Handshake(c)
    <3>1. Enqueue(c, "handshake", IF mode[c] = "connect" THEN 2 ELSE 1)
      BY <2>1 DEF Handshake
    <3>2. QED
      BY <1>1, <1>3, <3>1, EnqueueLetters DEF StreamAt, Fits
  <2>2. CASE New(c) \/ Open(c) \/ StartThread(c)
    <3>1. UNCHANGED <<queue, c2s>>
      BY <2>2 DEF New, Open, StartThread, shared
    <3>2. QED
      BY <1>1, <1>3, <3>1 DEF StreamAt, Letters, Fits
  <2>3. QED
    BY <2>1, <2>2
<1>7. Idle(c)'
  BY <1>1, <1>4 DEF StreamAt, Idle, Stale
<1>8. QED
  BY <1>1, <1>3, <1>4, <1>5, <1>6, <1>7, BeforeFirst

\* The reactor is installed before the server says anything.
LEMMA ReactorStream ==
  ASSUME TypeOK, ScriptInv, NEW c \in Conns, StreamAt(c), SetReactor(c)
  PROVE  StreamAt(c)'
<1>1. /\ UNCHANGED <<mode, senc, scomp, s2c, c2s, cipher, compressed, pkt, bound, queue,
                      netpc, stage>>
  BY DEF SetReactor, server, shared, thread
<1>2. /\ call \in [Conns -> 0 .. 6] /\ call'[c] = call[c] + 1
      /\ call[c] = IF mode[c] = "connect" THEN 3 ELSE 4
  BY DoesWhere DEF SetReactor, Does, TypeOK, CallerType
<1>3. ~Begun(c) /\ ~Begun(c)'
  BY <1>2 DEF Begun
<1>4. reactor'[c] = IF mode[c] = "connect" THEN "login" ELSE "status"
  BY DEF SetReactor, TypeOK, ObjectType
<1>5. Modal(c)' /\ Letters(c)'
  BY <1>1, <1>2, <1>3, <1>4 DEF StreamAt, Modal, Letters, Fits, Early
<1>6. Idle(c)'
  <2>1. mode[c] = "connect" => netpc[c] = "none"
    BY <1>2 DEF ScriptInv, ScriptAt, Started
  <2>2. s2c[c] = <<>> /\ \A i \in 1 .. Len(c2s[c]) : c2s[c][i].kind # "request"
    BY <1>3 DEF StreamAt, Quiet, Letters, Fits
  <2>3. mode[c] \in {"connect", "status"}
    BY DEF TypeOK, CallerType
  <2>4. QED
    BY <1>1, <2>1, <2>2, <2>3 DEF Idle, Stale
<1>7. QED
  BY <1>1, <1>3, <1>5, <1>6, BeforeFirst

\* With the last packet of the call queued the server may begin to talk.
LEMMA FirstStream ==
  ASSUME TypeOK, NEW c \in Conns, StreamAt(c), FirstPacket(c)
  PROVE  StreamAt(c)'
<1>1. /\ UNCHANGED <<mode, senc, scomp, s2c, c2s, cipher, compressed, pkt, bound, netpc,
                      stage, reactor>>
  BY DEF FirstPacket, server, thread, object
<1>2. call \in [Conns -> 0 .. 6] /\ call[c] = 5 /\ call'[c] = 6
  <2>1. Does(c, "first_packet")
    BY DEF FirstPacket
  <2>2. call[c] = 5 /\ call \in [Conns -> 0 .. 6]
    BY <2>1, DoesWhere DEF TypeOK, CallerType
  <2>3. QED
    BY <2>1, <2>2 DEF Does
<1>3. ~Begun(c) /\ Begun(c)'
  BY <1>2 DEF Begun
<1>4. /\ s2c[c] = <<>> /\ ~senc[c] /\ ~scomp[c] /\ ~cipher[c] /\ ~compressed /\ ~Busy(c)
  BY <1>3 DEF StreamAt, Quiet
<1>5. Quiet(c)' /\ Modal(c)' /\ Idle(c)' /\ Held(c)'
  BY <1>1, <1>2, <1>3, <1>4 DEF StreamAt, Quiet, Modal, Idle, Stale, Held, Early, Busy
<1>6. Letters(c)'
  <2>1. Enqueue(c, IF mode[c] = "connect" THEN "login_start" ELSE "request", 0)
    BY DEF FirstPacket
  <2>2. QED
    BY <1>1, <1>3, <2>1, EnqueueLetters DEF StreamAt, Fits
<1>7. Reading(c)'
  <2>1. netpc'[c] # "garbled"
    BY <1>1 DEF StreamAt, Reading
  <2>2. Chained(s2c'[c], Expected(c)')
    BY <1>1, <1>4 DEF Chained
  <2>3. ASSUME Talks(c)' PROVE Promised(c)' = End(s2c[c], Expected(c))'
    <3>1. stage[c] = "status"
      BY <1>1, <1>3, <2>3 DEF StreamAt, Quiet, Talks, Early
    <3>2. reactor[c] = "status"
      BY <1>2, <3>1 DEF StreamAt, Modal
    <3>3. /\ cipher \in [Conns -> BOOLEAN] /\ senc \in [Conns -> BOOLEAN]
          /\ scomp \in [Conns -> BOOLEAN] /\ compressed \in BOOLEAN
      BY DEF TypeOK, ObjectType, ServerType, SharedType
    <3>4. Promised(c)' = [enc |-> FALSE, cmp |-> FALSE, table |-> "status"]
      BY <1>1, <1>4, <3>1, <3>3 DEF Promised, TableOf
    <3>5. Expected(c)' = [enc |-> FALSE, cmp |-> FALSE, table |-> "status"]
      BY <1>1, <1>4, <3>2, <3>3 DEF Expected, Busy, Current
    <3>6. QED
      BY <1>1, <1>4, <3>4, <3>5 DEF End
  <2>4. QED
    BY <2>1, <2>2, <2>3 DEF Reading
<1>8. QED
  BY <1>5, <1>6, <1>7 DEF StreamAt

LEMMA ChatStream ==
  ASSUME TypeOK, NEW c \in Conns, StreamAt(c), WriteChat(c)
  PROVE  StreamAt(c)'
<1>1. UNCHANGED <<call, mode, stage, senc, scomp, s2c, netpc, pkt, bound, cipher, compressed,
                  reactor>>
  BY DEF WriteChat, object, thread, server
<1>2. Letters(c)'
  <2>1. CASE Enqueue(c, "chat", written') /\ UNCHANGED c2s
    BY <1>1, <2>1, EnqueueLetters DEF StreamAt, Fits, Begun
  <2>2. CASE /\ UNCHANGED queue
             /\ Transmit(c, [kind |-> "chat", arg |-> written', via |-> c])
    <3>1. [kind |-> "chat", arg |-> written', via |-> c] \in Packet
      BY DEF WriteChat, TypeOK, CallerType, Packet, Serverbound
    <3>2. QED
      BY <1>1, <2>2, <3>1, TransmitLetters DEF StreamAt, Fits
  <2>3. CASE UNCHANGED <<queue, c2s>>
    BY <1>1, <2>3 DEF StreamAt, Letters, Fits, Begun
  <2>4. QED
    BY <2>1, <2>2, <2>3 DEF WriteChat, SendRaises
<1>3. Idle(c)' /\ Held(c)'
  <2>1. CASE UNCHANGED c2s
    BY <1>1, <2>1 DEF StreamAt, Idle, Stale, Held
  <2>2. mode[c] = "connect"
    BY DEF WriteChat
  <2>3. QED
    BY <1>1, <2>2 DEF StreamAt, Idle, Stale, Held
<1>4. /\ netpc[c] # "garbled" /\ Alive(c)' = Alive(c) /\ Busy(c)' = Busy(c)
      /\ Expected(c)' = Expected(c) /\ Current(c)' = Current(c)
  BY <1>1 DEF StreamAt, Reading, Alive, Busy, Expected, Current
<1>5. QED
  BY <1>1, <1>2, <1>3, <1>4, Calm
-----------------------------------------------------------------------------
(* Steps of the server *)

\* What a server sends goes on where its stream ends.
LEMMA PushChain ==
  ASSUME TypeOK, NEW c \in Conns, StreamAt(c), NEW k \in Clientbound, NEW a \in Nat,
         Push(c, k, a), Talks(c), Alive(c), stage[c] # "key",
         Expected(c)' = Expected(c)
  PROVE  /\ Chained(s2c[c], Expected(c))'
         /\ End(s2c[c], Expected(c))' = After(Promised(c), k)
<1> DEFINE f == [kind |-> k, arg |-> a, enc |-> senc[c], cmp |-> scomp[c],
                 table |-> TableOf(stage[c])]
<1>1. /\ s2c \in [Conns -> Seq(FrameDown)] /\ senc \in [Conns -> BOOLEAN]
      /\ scomp \in [Conns -> BOOLEAN]
  BY DEF TypeOK, WireType, ServerType
<1>2. s2c'[c] = Append(s2c[c], f) /\ s2c[c] \in Seq(FrameDown)
  BY <1>1 DEF Push
<1>3. f \in FrameDown
  <2>1. TableOf(stage[c]) \in Reactors
    BY DEF TableOf, Reactors
  <2>2. senc[c] \in BOOLEAN /\ scomp[c] \in BOOLEAN
    BY <1>1
  <2>3. QED
    BY <2>1, <2>2 DEF FrameDown
<1>4. Stamp(f) = Promised(c) /\ f.kind = k
  BY <1>1 DEF Stamp, Promised
<1>5. Chained(s2c[c], Expected(c)) /\ Promised(c) = End(s2c[c], Expected(c))
  BY DEF StreamAt, Reading
<1> HIDE DEF f
<1>6. /\ Chained(Append(s2c[c], f), Expected(c))
      /\ End(Append(s2c[c], f), Expected(c)) = After(Stamp(f), f.kind)
  BY <1>2, <1>3, <1>4, <1>5, ChainAppend
<1>7. QED
  BY <1>2, <1>4, <1>6 DEF Chained, End

\* A step of the server leaves the client alone.
LEMMA ServerCalm ==
  ASSUME NEW c \in Conns, Server(c)
  PROVE  /\ UNCHANGED <<queue, call, mode, cipher, compressed, reactor, netpc, pkt, bound>>
         /\ Expected(c)' = Expected(c) /\ Current(c)' = Current(c)
         /\ Alive(c)' = Alive(c) /\ Busy(c)' = Busy(c) /\ Begun(c)' = Begun(c)
         /\ Stale(c)' = Stale(c) /\ Held(c)' = Held(c)
<1>1. UNCHANGED <<shared, object, caller, thread>>
  BY DEF Server, ServerReject, ServerTake, ServerLogin, ServerKeepAlive, ServerPosition,
     ServerOther, ServerClose
<1>2. QED
  BY <1>1 DEF shared, object, caller, thread, Expected, Current, Alive, Busy, Begun, Stale,
     Held

\* Closing.
LEMMA CloseStream ==
  ASSUME TypeOK, NEW c \in Conns, StreamAt(c), ServerReject(c) \/ ServerClose(c)
  PROVE  StreamAt(c)'
<1>1. Server(c)
  BY DEF Server
<1>2. /\ UNCHANGED <<senc, scomp>> /\ stage'[c] = "closed" /\ c2s'[c] = <<>>
  BY DEF ServerReject, ServerClose, TypeOK, WireType, ServerType
<1>3. \/ s2c'[c] = s2c[c]
      \/ /\ stage[c] \in {"greeted", "ready", "play"}
         /\ \E k \in {"disconnect", "cut"} : Push(c, k, 0)
  BY DEF ServerReject, ServerClose
<1>4. Quiet(c)' /\ Modal(c)' /\ Letters(c)' /\ Idle(c)' /\ Held(c)'
  BY <1>1, <1>2, <1>3, ServerCalm
  DEF StreamAt, Quiet, Modal, Letters, Fits, Idle, Early
<1>5. Reading(c)'
  <2>1. netpc'[c] # "garbled" /\ ~Talks(c)'
    BY <1>1, <1>2, ServerCalm DEF StreamAt, Reading, Talks
  <2>2. ASSUME Alive(c) PROVE Chained(s2c[c], Expected(c))'
    <3>1. CASE s2c'[c] = s2c[c]
      BY <1>1, <2>2, <3>1, ServerCalm DEF StreamAt, Reading, Chained
    <3>2. CASE /\ stage[c] \in {"greeted", "ready", "play"}
               /\ \E k \in {"disconnect", "cut"} : Push(c, k, 0)
      <4>1. PICK k \in {"disconnect", "cut"} : Push(c, k, 0)
        BY <3>2
      <4>2. Talks(c)
        BY <3>2 DEF StreamAt, Quiet, Talks, Early
      <4>3. k \in Clientbound
        BY DEF Clientbound
      <4>4. QED
        BY <1>1, <2>2, <3>2, <4>1, <4>2, <4>3, ServerCalm, PushChain
    <3>3. QED
      BY <1>3, <3>1, <3>2
  <2>3. QED
    BY <1>1, <2>1, <2>2, ServerCalm DEF Reading
<1>6. QED
  BY <1>4, <1>5 DEF StreamAt

\* Sending, in the course of the login or of the game.
LEMMA TalkStream ==
  ASSUME TypeOK, NEW c \in Conns, StreamAt(c),
         ServerLogin(c) \/ ServerKeepAlive(c) \/ ServerPosition(c) \/ ServerOther(c)
  PROVE  StreamAt(c)'
<1>1. Server(c)
  BY DEF Server
<1>2. /\ senc \in [Conns -> BOOLEAN] /\ scomp \in [Conns -> BOOLEAN]
      /\ stage \in [Conns -> Stages] /\ alive \in [Conns -> Nat]
  BY DEF TypeOK, ServerType
<1>3. /\ UNCHANGED <<c2s, senc>> /\ stage[c] \in {"greeted", "ready", "play"}
      /\ stage'[c] \in {"greeted", "key", "ready", "play"}
      /\ \E k \in Clientbound, a \in Nat :
           Push(c, k, a) /\ Promised(c)' = After(Promised(c), k)
  <2>1. CASE ServerLogin(c)
    <3>1. CASE /\ stage[c] = "greeted" /\ Push(c, "encryption_request", 0)
               /\ stage' = [stage EXCEPT ![c] = "key"] /\ UNCHANGED <<scomp, c2s, senc>>
      <4>1. stage'[c] = "key"
        BY <1>2, <3>1
      <4>2. Promised(c)' = After(Promised(c), "encryption_request")
        BY <1>2, <3>1, <4>1 DEF Promised, After, TableOf
      <4>3. "encryption_request" \in Clientbound
        BY DEF Clientbound
      <4>4. QED
        BY <3>1, <4>1, <4>2, <4>3
    <3>2. CASE /\ stage[c] \in {"greeted", "ready"} /\ Push(c, "set_compression", 0)
               /\ stage' = [stage EXCEPT ![c] = "ready"]
               /\ scomp' = [scomp EXCEPT ![c] = TRUE] /\ UNCHANGED <<c2s, senc>>
      <4>1. stage'[c] = "ready" /\ scomp'[c] = TRUE
        BY <1>2, <3>2
      <4>2. Promised(c)' = After(Promised(c), "set_compression")
        BY <1>2, <3>2, <4>1 DEF Promised, After, TableOf
      <4>3. "set_compression" \in Clientbound
        BY DEF Clientbound
      <4>4. QED
        BY <3>2, <4>1, <4>2, <4>3
    <3>3. CASE /\ stage[c] \in {"greeted", "ready"} /\ Push(c, "login_success", 0)
               /\ stage' = [stage EXCEPT ![c] = "play"] /\ UNCHANGED <<scomp, c2s, senc>>
      <4>1. stage'[c] = "play"
        BY <1>2, <3>3
      <4>2. Promised(c)' = After(Promised(c), "login_success")
        BY <1>2, <3>3, <4>1 DEF Promised, After, TableOf
      <4>3. "login_success" \in Clientbound
        BY DEF Clientbound
      <4>4. QED
        BY <3>3, <4>1, <4>2, <4>3
    <3>4. QED
      BY <2>1, <3>1, <3>2, <3>3 DEF ServerLogin
  <2>2. CASE ServerKeepAlive(c) \/ ServerPosition(c) \/ ServerOther(c)
    <3>1. /\ stage[c] = "play" /\ UNCHANGED <<c2s, senc, scomp, stage>>
      BY <2>2 DEF ServerKeepAlive, ServerPosition, ServerOther, server
    <3>2. \E k \in {"keep_alive", "player_position_and_look", "other"}, a \in Nat :
            Push(c, k, a)
      <4>1. alive[c] + 1 \in Nat /\ 0 .. 1 \subseteq Nat /\ 0 \in Nat
        BY <1>2
      <4>2. QED
        BY <2>2, <4>1 DEF ServerKeepAlive, ServerPosition, ServerOther
    <3>3. \A k \in {"keep_alive", "player_position_and_look", "other"} :
            k \in Clientbound /\ Promised(c)' = After(Promised(c), k)
      BY <1>2, <3>1 DEF Promised, After, TableOf, Clientbound
    <3>4. QED
      BY <3>1, <3>2, <3>3
  <2>3. QED
    BY <2>1, <2>2
<1>4. /\ Talks(c) /\ Begun(c) /\ mode[c] = "connect"
  BY <1>3 DEF StreamAt, Quiet, Modal, Talks, Early
<1>5. Quiet(c)' /\ Modal(c)' /\ Letters(c)' /\ Idle(c)' /\ Held(c)'
  BY <1>1, <1>3, <1>4, ServerCalm
  DEF StreamAt, Quiet, Modal, Letters, Fits, Idle, Early
<1>6. Reading(c)'
  <2>1. PICK k \in Clientbound, a \in Nat :
          Push(c, k, a) /\ Promised(c)' = After(Promised(c), k)
    BY <1>3
  <2>2. ASSUME Alive(c)
        PROVE  Chained(s2c[c], Expected(c))' /\ Promised(c)' = End(s2c[c], Expected(c))'
    BY <1>1, <1>3, <1>4, <2>1, <2>2, ServerCalm, PushChain
  <2>3. QED
    BY <1>1, <2>2, ServerCalm DEF StreamAt, Reading
<1>7. QED
  BY <1>5, <1>6 DEF StreamAt

\* Taking a packet, and answering a request.
LEMMA TakeStream ==
  ASSUME TypeOK, NEW c \in Conns, StreamAt(c), ServerTake(c)
  PROVE  StreamAt(c)'
<1> DEFINE f == Head(c2s[c])
<1>1. Server(c)
  BY DEF Server
<1>2. /\ senc \in [Conns -> BOOLEAN] /\ scomp \in [Conns -> BOOLEAN]
      /\ stage \in [Conns -> Stages] /\ c2s \in [Conns -> Seq(FrameUp)]
      /\ cipher \in [Conns -> BOOLEAN] /\ compressed \in BOOLEAN
  BY DEF TypeOK, ServerType, WireType, ObjectType, SharedType
<1>3. /\ c2s[c] # <<>> /\ c2s'[c] = Tail(c2s[c]) /\ c2s[c] \in Seq(FrameUp)
      /\ f.kind \in Takes(stage[c]) /\ UNCHANGED scomp
      /\ senc'[c] = (senc[c] \/ f.kind = "encryption_response")
      /\ IF f.kind = "request" THEN Push(c, "response", 0) ELSE UNCHANGED s2c
  BY <1>2 DEF ServerTake, Legal
<1>4. /\ f = c2s[c][1] /\ 1 \in 1 .. Len(c2s[c])
      /\ \A i \in 1 .. Len(c2s'[c]) : \E j \in 1 .. Len(c2s[c]) : c2s'[c][i] = c2s[c][j]
  BY <1>3
<1>5. Fits(c, f.kind, f.arg)
  BY <1>4 DEF StreamAt, Letters
<1>6. stage'[c] = CASE f.kind = "handshake" -> IF f.arg = 2 THEN "login" ELSE "status"
                    [] f.kind = "login_start" -> "greeted"
                    [] f.kind = "encryption_response" -> "ready"
                    [] OTHER -> stage[c]
  BY <1>2 DEF ServerTake
<1> HIDE DEF f
<1>7. Letters(c)' /\ Held(c)' /\ netpc'[c] # "garbled"
  BY <1>1, <1>4, ServerCalm DEF StreamAt, Letters, Fits, Reading
<1>8. Idle(c)'
  BY <1>1, <1>3, <1>4, ServerCalm DEF StreamAt, Idle
<1>9. CASE stage[c] = "handshake"
  <2>1. f.kind = "handshake"
    BY <1>3, <1>9 DEF Takes
  <2>2. /\ stage'[c] = IF mode[c] = "connect" THEN "login" ELSE "status"
        /\ UNCHANGED s2c /\ senc'[c] = senc[c]
    BY <1>2, <1>3, <1>5, <1>6, <2>1 DEF Fits
  <2>3. /\ s2c[c] = <<>> /\ ~senc[c] /\ ~scomp[c] /\ ~cipher[c] /\ ~compressed /\ ~Busy(c)
    BY <1>9 DEF StreamAt, Quiet, Early
  <2>4. Quiet(c)' /\ Modal(c)'
    BY <1>1, <1>3, <1>9, <2>2, <2>3, ServerCalm DEF StreamAt, Quiet, Modal, Early, TypeOK,
       CallerType
  <2>5. Chained(s2c[c], Expected(c))'
    BY <2>2, <2>3 DEF Chained
  <2>6. ASSUME Talks(c)' PROVE Promised(c)' = End(s2c[c], Expected(c))'
    <3>1. stage'[c] = "status" /\ mode[c] = "status" /\ Begun(c)
      BY <1>1, <2>2, <2>6, ServerCalm DEF Talks, Early, TypeOK, CallerType
    <3>2. reactor[c] = "status"
      BY <3>1 DEF StreamAt, Modal, Begun
    <3>3. Promised(c)' = [enc |-> FALSE, cmp |-> FALSE, table |-> "status"]
      BY <1>2, <1>3, <2>2, <2>3, <3>1 DEF Promised, TableOf
    <3>4. Expected(c) = [enc |-> FALSE, cmp |-> FALSE, table |-> "status"]
      BY <1>2, <2>3, <3>2 DEF Expected, Current
    <3>5. QED
      BY <1>1, <2>2, <2>3, <3>3, <3>4, ServerCalm DEF End
  <2>7. QED
    BY <1>7, <1>8, <2>4, <2>5, <2>6 DEF StreamAt, Reading
<1>10. CASE stage[c] = "login"
  <2>1. f.kind = "login_start" /\ stage'[c] = "greeted" /\ UNCHANGED s2c
        /\ senc'[c] = senc[c]
    BY <1>2, <1>3, <1>6, <1>10 DEF Takes
  <2>2. /\ s2c[c] = <<>> /\ ~senc[c] /\ ~scomp[c] /\ ~cipher[c] /\ ~compressed /\ ~Busy(c)
    BY <1>10 DEF StreamAt, Quiet, Early
  <2>3. Begun(c) /\ mode[c] = "connect" /\ reactor[c] = "login"
    BY <1>5, <1>10, <2>1 DEF StreamAt, Fits, Modal, Early, Begun
  <2>4. Quiet(c)' /\ Modal(c)'
    BY <1>1, <2>1, <2>3, ServerCalm DEF StreamAt, Quiet, Modal, Early
  <2>5. Chained(s2c[c], Expected(c))'
    BY <2>1, <2>2 DEF Chained
  <2>6. Promised(c)' = [enc |-> FALSE, cmp |-> FALSE, table |-> "login"]
    BY <1>2, <1>3, <2>1, <2>2 DEF Promised, TableOf
  <2>7. Expected(c) = [enc |-> FALSE, cmp |-> FALSE, table |-> "login"]
    BY <1>2, <2>2, <2>3 DEF Expected, Current
  <2>8. Promised(c)' = End(s2c[c], Expected(c))'
    BY <1>1, <2>1, <2>2, <2>6, <2>7, ServerCalm DEF End
  <2>9. QED
    BY <1>7, <1>8, <2>4, <2>5, <2>8 DEF StreamAt, Reading
<1>11. CASE stage[c] \in {"key", "play", "status"} /\ f.kind # "request"
  <2>1. /\ stage'[c] \in {stage[c], "ready"} /\ (stage'[c] # stage[c] => stage[c] = "key")
        /\ Promised(c)' = Promised(c) /\ UNCHANGED s2c /\ senc'[c] = (senc[c] \/ stage[c] = "key")
    <3>1. CASE stage[c] = "key"
      <4>1. f.kind = "encryption_response"
        BY <1>3, <3>1 DEF Takes
      <4>2. stage'[c] = "ready" /\ senc'[c] = TRUE /\ UNCHANGED s2c
        BY <1>3, <1>6, <4>1
      <4>3. QED
        BY <1>3, <3>1, <4>2 DEF Promised, TableOf
    <3>2. CASE stage[c] \in {"play", "status"}
      <4>1. f.kind \in {"chat", "keep_alive_serverbound", "teleport_confirm",
                        "position_and_look", "ping"}
        BY <1>3, <1>11, <3>2 DEF Takes
      <4>2. stage'[c] = stage[c] /\ senc'[c] = senc[c] /\ UNCHANGED s2c
        BY <1>2, <1>3, <1>6, <4>1
      <4>3. QED
        BY <1>2, <1>3, <3>2, <4>2 DEF Promised, TableOf
    <3>3. QED
      BY <1>11, <3>1, <3>2
  <2>2. Quiet(c)' /\ Modal(c)'
    BY <1>1, <1>3, <1>11, <2>1, ServerCalm DEF StreamAt, Quiet, Modal, Early
  <2>3. Reading(c)'
    BY <1>1, <1>7, <1>11, <2>1, ServerCalm DEF StreamAt, Reading, Talks, Early
  <2>4. QED
    BY <1>7, <1>8, <2>2, <2>3 DEF StreamAt
<1>12. CASE f.kind = "request"
  <2>1. stage[c] = "status" /\ stage'[c] = "status" /\ Push(c, "response", 0)
        /\ senc'[c] = senc[c]
    BY <1>2, <1>3, <1>6, <1>12 DEF Takes
  <2>2. Begun(c) /\ Talks(c)
    BY <1>5, <1>12, <2>1 DEF Fits, Talks, Early
  <2>3. Quiet(c)' /\ Modal(c)'
    BY <1>1, <2>1, <2>2, ServerCalm DEF StreamAt, Quiet, Modal, Early
  <2>4. Promised(c)' = Promised(c) /\ After(Promised(c), "response") = Promised(c)
    BY <1>2, <1>3, <2>1 DEF Promised, After, TableOf
  <2>5. "response" \in Clientbound
    BY DEF Clientbound
  <2>6. Alive(c) => Chained(s2c[c], Expected(c))' /\ Promised(c)' = End(s2c[c], Expected(c))'
    BY <1>1, <2>1, <2>2, <2>4, <2>5, ServerCalm, PushChain
  <2>7. QED
    BY <1>1, <1>7, <1>8, <2>3, <2>6, ServerCalm DEF StreamAt, Reading
<1>13. QED
  BY <1>3, <1>9, <1>10, <1>11, <1>12 DEF Takes
-----------------------------------------------------------------------------
(* The theorem *)

LEMMA InitStream == Init => StreamInv
<1> SUFFICES ASSUME Init, NEW c \in Conns PROVE StreamAt(c)
  BY DEF StreamInv
<1>1. Quiet(c) /\ Modal(c) /\ Letters(c) /\ Idle(c) /\ Held(c)
  BY DEF Init, Quiet, Modal, Letters, Idle, Held, Stale, Early, Busy
<1>2. Reading(c)
  BY DEF Init, Reading, Chained, Talks, Early
<1>3. QED
  BY <1>1, <1>2 DEF StreamAt

\* With a single connection, the step taken is that connection's.
LEMMA StepStream ==
  ASSUME OneConnection
  PROVE  TypeOK /\ ScriptInv /\ StreamInv /\ [Next]_vars => StreamInv'
<1> SUFFICES ASSUME TypeOK, ScriptInv, StreamInv, [Next]_vars, NEW c \in Conns
             PROVE  StreamAt(c)'
  BY DEF StreamInv
<1>1. StreamAt(c)
  BY DEF StreamInv
<1>2. CASE UNCHANGED vars
  <2>1. UNCHANGED <<queue, call, mode, cipher, compressed, reactor, netpc, pkt, bound,
                    c2s, s2c, stage, senc, scomp>>
    BY <1>2 DEF vars, shared, object, caller, thread, server
  <2>2. QED
    BY <1>1, <2>1 DEF StreamAt, Quiet, Modal, Letters, Fits, Idle, Stale, Held, Reading,
       Chained, End, Talks, Early, Begun, Busy, Alive, Expected, Promised, Current
<1>3. CASE Next
  <2>1. Application(c) \/ Network(c) \/ Server(c)
    BY <1>3 DEF Next, OneConnection
  <2>2. Application(c) => StreamAt(c)'
    BY <1>1, CallStream, ReactorStream, FirstStream, ChatStream DEF Application, Call
  <2>3. Network(c) => StreamAt(c)'
    BY <1>1, WritingStream, WaitingStream, ReadStream, ReactStream DEF Network
  <2>4. Server(c) => StreamAt(c)'
    BY <1>1, CloseStream, TalkStream, TakeStream DEF Server
  <2>5. QED
    BY <2>1, <2>2, <2>3, <2>4
<1>4. QED
  BY <1>2, <1>3

\* A process with one connection never reads a frame with another cipher,
\* framing or packet table than the server sent it with, whichever packets the
\* server sends, however the threads interleave and whatever the batch sizes.
THEOREM ReadsInStep == ASSUME OneConnection PROVE Spec => []StreamInStep
<1>1. StreamInv => StreamInStep
  BY DEF StreamInv, StreamAt, Reading, StreamInStep
<1>2. TypeOK /\ ScriptInv /\ StreamInv /\ [Next]_vars => StreamInv'
  BY StepStream
<1>3. QED
  BY <1>1, <1>2, InitType, StepType, InitScript, StepScript, InitStream, PTL DEF Spec
-----------------------------------------------------------------------------
(* What the servers are sent *)

\* The chat v is somewhere in a queue of packets; has been heard.
Has(q, v) == \E i \in 1 .. Len(q) : q[i].kind = "chat" /\ q[i].arg = v
Said(h, v) == \E i \in 1 .. Len(h) : h[i] = v

\* No chat is twice in a queue of packets; has been heard twice.
Distinct(q) == \A i, j \in 1 .. Len(q) :
  q[i].kind = "chat" /\ q[j].kind = "chat" /\ q[i].arg = q[j].arg => i = j
Once(h) == \A i, j \in 1 .. Len(h) : h[i] = h[j] => i = j

\* A chat is at one place at most: waiting, on its way to one server, or heard by
\* one; and only chats that have been written are.
Apart == \A v \in Nat :
  /\ Has(queue, v) => v <= written
  /\ \A c \in Conns : Has(c2s[c], v) \/ Said(heard[c], v) => v <= written /\ ~Has(queue, v)
  /\ \A c, d \in Conns : ~(Has(c2s[c], v) /\ Said(heard[d], v))
  /\ \A c, d \in Conns : Has(c2s[c], v) /\ Has(c2s[d], v) => c = d
  /\ \A c, d \in Conns : Said(heard[c], v) /\ Said(heard[d], v) => c = d

ChatInv ==
  /\ Apart
  /\ Distinct(queue) /\ \A c \in Conns : Distinct(c2s[c]) /\ Once(heard[c])
-----------------------------------------------------------------------------
(* Queues of packets *)

LEMMA AppendHas ==
  ASSUME NEW S, NEW q \in Seq(S), NEW e \in S
  PROVE  /\ \A v : Has(Append(q, e), v) <=> Has(q, v) \/ (e.kind = "chat" /\ e.arg = v)
         /\ Distinct(q) /\ (e.kind = "chat" => ~Has(q, e.arg)) => Distinct(Append(q, e))
<1> DEFINE r == Append(q, e)
<1>1. /\ Len(r) = Len(q) + 1 /\ Len(q) \in Nat /\ r[Len(q) + 1] = e
      /\ \A i \in 1 .. Len(q) : r[i] = q[i]
  OBVIOUS
<1>2. 1 .. Len(r) = (1 .. Len(q)) \cup {Len(q) + 1}
  BY <1>1
<1> HIDE DEF r
<1>3. \A v : Has(r, v) <=> Has(q, v) \/ (e.kind = "chat" /\ e.arg = v)
  BY <1>1, <1>2 DEF Has
<1>4. Distinct(q) /\ (e.kind = "chat" => ~Has(q, e.arg)) => Distinct(r)
  BY <1>1, <1>2 DEF Has, Distinct
<1>5. QED
  BY <1>3, <1>4 DEF r

LEMMA TailHas ==
  ASSUME NEW S, NEW q \in Seq(S), q # <<>>
  PROVE  /\ \A v : Has(Tail(q), v) => Has(q, v)
         /\ Head(q) \in S
         /\ Head(q).kind = "chat" => Has(q, Head(q).arg)
         /\ Distinct(q) => /\ Distinct(Tail(q))
                           /\ Head(q).kind = "chat" => ~Has(Tail(q), Head(q).arg)
<1> DEFINE r == Tail(q)
<1>1. /\ Len(r) = Len(q) - 1 /\ Len(q) \in Nat /\ Len(q) >= 1 /\ Head(q) = q[1]
      /\ q[1] \in S /\ \A i \in 1 .. Len(r) : r[i] = q[i + 1]
  OBVIOUS
<1>2. \A i \in 1 .. Len(r) : i + 1 \in 1 .. Len(q) /\ i + 1 # 1 /\ r[i] = q[i + 1]
  BY <1>1
<1>3. 1 \in 1 .. Len(q)
  BY <1>1
<1> HIDE DEF r
<1>4. \A v : Has(r, v) => Has(q, v)
  BY <1>2 DEF Has
<1>5. Head(q).kind = "chat" => Has(q, Head(q).arg)
  BY <1>1, <1>3 DEF Has
<1>6. Distinct(q) => Distinct(r)
  BY <1>1, <1>2 DEF Distinct
<1>7. Distinct(q) /\ Head(q).kind = "chat" => ~Has(r, Head(q).arg)
  BY <1>1, <1>2, <1>3 DEF Distinct, Has
<1>8. QED
  BY <1>1, <1>4, <1>5, <1>6, <1>7 DEF r

LEMMA EmptyHas == Distinct(<<>>) /\ Once(<<>>) /\ \A v : ~Has(<<>>, v) /\ ~Said(<<>>, v)
<1>1. 1 .. Len(<<>>) = {}
  OBVIOUS
<1>2. QED
  BY <1>1 DEF Distinct, Once, Has, Said

LEMMA AppendSaid ==
  ASSUME NEW h \in Seq(Nat), NEW n0 \in Nat
  PROVE  /\ \A v : Said(Append(h, n0), v) <=> Said(h, v) \/ n0 = v
         /\ Once(h) /\ ~Said(h, n0) => Once(Append(h, n0))
<1> DEFINE r == Append(h, n0)
<1>1. /\ Len(r) = Len(h) + 1 /\ Len(h) \in Nat /\ r[Len(h) + 1] = n0
      /\ \A i \in 1 .. Len(h) : r[i] = h[i]
  OBVIOUS
<1>2. 1 .. Len(r) = (1 .. Len(h)) \cup {Len(h) + 1}
  BY <1>1
<1> HIDE DEF r
<1>3. \A v : Said(r, v) <=> Said(h, v) \/ n0 = v
  BY <1>1, <1>2 DEF Said
<1>4. Once(h) /\ ~Said(h, n0) => Once(r)
  BY <1>1, <1>2 DEF Said, Once
<1>5. QED
  BY <1>3, <1>4 DEF r
-----------------------------------------------------------------------------
(* What a step does to the chats *)

\* A queue of packets has lost some, or gained some that are no chats.
Shrinks(q, r) == Distinct(r) /\ \A v \in Nat : Has(r, v) => Has(q, v)

LEMMA Fewer ==
  ASSUME ChatInv, written' = written, heard' = heard,
         Shrinks(queue, queue'), \A c \in Conns : Shrinks(c2s[c], c2s'[c])
  PROVE  ChatInv'
BY DEF ChatInv, Apart, Shrinks

LEMMA SameShrinks ==
  ASSUME ChatInv
  PROVE  Shrinks(queue, queue) /\ \A c \in Conns : Shrinks(c2s[c], c2s[c])
BY DEF ChatInv, Shrinks

\* A packet that is no chat is queued.
LEMMA EnqueueShrinks ==
  ASSUME TypeOK, ChatInv, NEW c \in Conns, NEW k \in Serverbound, NEW a \in Nat,
         Enqueue(c, k, a), k # "chat"
  PROVE  Shrinks(queue, queue')
<1> DEFINE p == [kind |-> k, arg |-> a, via |-> c]
<1>1. p \in Packet /\ p.kind # "chat" /\ queue' = Append(queue, p)
  BY DEF Packet, Enqueue
<1> HIDE DEF p
<1>2. queue \in Seq(Packet)
  BY DEF TypeOK, SharedType
<1>3. /\ \A v : Has(queue', v) => Has(queue, v)
      /\ Distinct(queue) => Distinct(queue')
  BY <1>1, <1>2, AppendHas
<1>4. QED
  BY <1>3 DEF ChatInv, Shrinks

LEMMA WireSeq ==
  ASSUME TypeOK, NEW c \in Conns
  PROVE  c2s[c] \in Seq(FrameUp)
BY DEF TypeOK, WireType

\* A packet leaves for the server of c, or is lost.
LEMMA TransmitHas ==
  ASSUME TypeOK, NEW c \in Conns, NEW p \in Packet, Transmit(c, p)
  PROVE  /\ \A d \in Conns \ {c} : c2s'[d] = c2s[d]
         /\ \A v : Has(c2s'[c], v) => Has(c2s[c], v) \/ (p.kind = "chat" /\ p.arg = v)
         /\ Distinct(c2s[c]) /\ (p.kind = "chat" => ~Has(c2s[c], p.arg))
              => Distinct(c2s'[c])
<1> DEFINE f == [kind |-> p.kind, arg |-> p.arg, via |-> p.via,
                 enc |-> cipher[c], cmp |-> compressed]
<1>1. f \in FrameUp /\ f.kind = p.kind /\ f.arg = p.arg
  BY DEF FrameUp, Packet, TypeOK, ObjectType, SharedType
<1>2. c2s' = c2s \/ c2s' = [c2s EXCEPT ![c] = Append(c2s[c], f)]
  BY DEF Transmit
<1> HIDE DEF f
<1>3. CASE c2s' = c2s
  BY <1>3
<1>4. CASE c2s' = [c2s EXCEPT ![c] = Append(c2s[c], f)]
  <2>1. c2s'[c] = Append(c2s[c], f) /\ \A d \in Conns \ {c} : c2s'[d] = c2s[d]
    BY <1>4 DEF TypeOK, WireType
  <2>2. /\ \A v : Has(c2s'[c], v) <=> Has(c2s[c], v) \/ (f.kind = "chat" /\ f.arg = v)
        /\ Distinct(c2s[c]) /\ (f.kind = "chat" => ~Has(c2s[c], f.arg))
             => Distinct(c2s'[c])
    BY <1>1, <2>1, WireSeq, AppendHas
  <2>3. QED
    BY <1>1, <2>1, <2>2
<1>5. QED
  BY <1>2, <1>3, <1>4

LEMMA TransmitShrinks ==
  ASSUME TypeOK, ChatInv, NEW c \in Conns, NEW p \in Packet, Transmit(c, p),
         p.kind # "chat"
  PROVE  \A d \in Conns : Shrinks(c2s[d], c2s'[d])
<1>1. \A d \in Conns \ {c} : c2s'[d] = c2s[d]
  BY TransmitHas
<1>2. /\ \A v : Has(c2s'[c], v) => Has(c2s[c], v)
      /\ Distinct(c2s[c]) => Distinct(c2s'[c])
  BY TransmitHas
<1>3. QED
  BY <1>1, <1>2 DEF ChatInv, Shrinks

LEMMA TailShrinks ==
  ASSUME TypeOK, ChatInv, queue # <<>>, queue' = Tail(queue)
  PROVE  Shrinks(queue, queue')
<1>1. queue \in Seq(Packet)
  BY DEF TypeOK, SharedType
<1>2. QED
  BY <1>1, TailHas DEF ChatInv, Shrinks

\* A server is gone, with all that was on its way to it.
LEMMA EmptyShrinks ==
  ASSUME TypeOK, ChatInv, NEW c \in Conns, c2s' = [c2s EXCEPT ![c] = <<>>]
  PROVE  \A d \in Conns : Shrinks(c2s[d], c2s'[d])
<1>1. c2s'[c] = <<>> /\ \A d \in Conns \ {c} : c2s'[d] = c2s[d]
  BY DEF TypeOK, WireType
<1>2. QED
  BY <1>1, EmptyHas DEF ChatInv, Shrinks
-----------------------------------------------------------------------------
(* The steps that move a chat *)

LEMMA WriteChatInv ==
  ASSUME TypeOK, ChatInv, NEW c \in Conns, WriteChat(c)
  PROVE  ChatInv'
<1>1. written \in Nat /\ written' = written + 1 /\ written' \in Nat /\ heard' = heard
  BY DEF WriteChat, TypeOK, CallerType, server
<1>2. /\ ~Has(queue, written')
      /\ \A d \in Conns : ~Has(c2s[d], written') /\ ~Said(heard[d], written')
  BY <1>1 DEF ChatInv, Apart
<1> DEFINE p == [kind |-> "chat", arg |-> written', via |-> c]
<1>3. p \in Packet /\ p.kind = "chat" /\ p.arg = written'
  BY <1>1 DEF Packet, Serverbound
<1>4. CASE written' \notin Urgent
  <2>1. queue' = Append(queue, p) /\ c2s' = c2s
    BY <1>4 DEF WriteChat, Enqueue
  <2> HIDE DEF p
  <2>2. queue \in Seq(Packet)
    BY DEF TypeOK, SharedType
  <2>3. /\ \A v : Has(queue', v) <=> Has(queue, v) \/ v = written'
        /\ Distinct(queue')
    BY <1>2, <1>3, <2>1, <2>2, AppendHas DEF ChatInv
  <2>4. QED
    BY <1>1, <1>2, <2>1, <2>3 DEF ChatInv, Apart
<1>5. CASE written' \in Urgent /\ c2s' = c2s
  <2>1. queue' = queue
    BY <1>5 DEF WriteChat
  <2>2. QED
    BY <1>1, <1>5, <2>1 DEF ChatInv, Apart
<1>6. CASE written' \in Urgent /\ c2s' # c2s
  <2>1. queue' = queue /\ Transmit(c, p)
    BY <1>6 DEF WriteChat, SendRaises
  <2> HIDE DEF p
  <2>2. /\ \A d \in Conns \ {c} : c2s'[d] = c2s[d]
        /\ \A v : Has(c2s'[c], v) => Has(c2s[c], v) \/ v = written'
        /\ Distinct(c2s'[c])
    BY <1>2, <1>3, <2>1, TransmitHas DEF ChatInv
  <2>3. QED
    BY <1>1, <1>2, <2>1, <2>2 DEF ChatInv, Apart
<1>7. QED
  BY <1>4, <1>5, <1>6

LEMMA PopInv ==
  ASSUME TypeOK, ChatInv, NEW c \in Conns, NetPop(c)
  PROVE  ChatInv'
<1>1. /\ queue # <<>> /\ queue' = Tail(queue) /\ Transmit(c, Head(queue))
      /\ written' = written /\ heard' = heard
  BY DEF NetPop, caller, server
<1>2. queue \in Seq(Packet)
  BY DEF TypeOK, SharedType
<1> DEFINE p == Head(queue)
<1>3. /\ \A v : Has(queue', v) => Has(queue, v)
      /\ p \in Packet /\ Distinct(queue')
      /\ p.kind = "chat" => Has(queue, p.arg) /\ ~Has(queue', p.arg)
  BY <1>1, <1>2, TailHas DEF ChatInv
<1> HIDE DEF p
<1>4. p.arg \in Nat
  BY <1>3 DEF Packet
<1>5. CASE p.kind # "chat"
  BY <1>1, <1>3, <1>5, Fewer, TransmitShrinks DEF Shrinks, p
<1>6. CASE p.kind = "chat"
  <2>1. /\ Has(queue, p.arg) /\ ~Has(queue', p.arg) /\ p.arg <= written
        /\ \A d \in Conns : ~Has(c2s[d], p.arg) /\ ~Said(heard[d], p.arg)
    BY <1>3, <1>4, <1>6 DEF ChatInv, Apart
  <2>2. /\ \A d \in Conns \ {c} : c2s'[d] = c2s[d]
        /\ \A v : Has(c2s'[c], v) => Has(c2s[c], v) \/ v = p.arg
        /\ Distinct(c2s'[c])
    BY <1>1, <1>3, <2>1, TransmitHas DEF ChatInv, p
  <2>3. QED
    BY <1>1, <1>3, <1>4, <2>1, <2>2 DEF ChatInv, Apart
<1>7. QED
  BY <1>5, <1>6

LEMMA TakeInv ==
  ASSUME TypeOK, ChatInv, NEW c \in Conns, ServerTake(c)
  PROVE  ChatInv'
<1> DEFINE f == Head(c2s[c])
<1>1. /\ c2s[c] # <<>> /\ c2s' = [c2s EXCEPT ![c] = Tail(c2s[c])]
      /\ heard' = [heard EXCEPT ![c] = IF f.kind = "chat" THEN Append(heard[c], f.arg)
                                                          ELSE heard[c]]
      /\ queue' = queue /\ written' = written
  BY DEF ServerTake, shared, caller
<1>2. c2s[c] \in Seq(FrameUp) /\ heard[c] \in Seq(Nat)
  BY DEF TypeOK, WireType, ServerType
<1>3. /\ c2s'[c] = Tail(c2s[c]) /\ \A d \in Conns \ {c} : c2s'[d] = c2s[d]
      /\ heard'[c] = (IF f.kind = "chat" THEN Append(heard[c], f.arg) ELSE heard[c])
      /\ \A d \in Conns \ {c} : heard'[d] = heard[d]
  BY <1>1 DEF TypeOK, WireType, ServerType
<1>4. /\ \A v : Has(c2s'[c], v) => Has(c2s[c], v)
      /\ f \in FrameUp /\ Distinct(c2s'[c])
      /\ f.kind = "chat" => Has(c2s[c], f.arg) /\ ~Has(c2s'[c], f.arg)
  BY <1>1, <1>2, <1>3, TailHas DEF ChatInv
<1> HIDE DEF f
<1>5. f.arg \in Nat
  BY <1>4 DEF FrameUp
<1>6. CASE f.kind # "chat"
  <2>1. \A d \in Conns : heard'[d] = heard[d]
    BY <1>3, <1>6
  <2>2. \A d \in Conns : Distinct(c2s'[d]) /\ \A v : Has(c2s'[d], v) => Has(c2s[d], v)
    BY <1>3, <1>4 DEF ChatInv
  <2>3. QED
    BY <1>1, <2>1, <2>2 DEF ChatInv, Apart
<1>7. CASE f.kind = "chat"
  <2>1. /\ Has(c2s[c], f.arg) /\ ~Has(c2s'[c], f.arg) /\ f.arg <= written
        /\ ~Has(queue, f.arg)
        /\ \A d \in Conns : ~Said(heard[d], f.arg)
        /\ \A d \in Conns \ {c} : ~Has(c2s[d], f.arg)
    BY <1>4, <1>5, <1>7 DEF ChatInv, Apart
  <2>2. /\ \A v : Said(heard'[c], v) <=> Said(heard[c], v) \/ f.arg = v
        /\ Once(heard'[c])
    BY <1>2, <1>3, <1>5, <1>7, <2>1, AppendSaid DEF ChatInv
  <2>3. QED
    BY <1>1, <1>3, <1>4, <1>5, <2>1, <2>2 DEF ChatInv, Apart
<1>8. QED
  BY <1>6, <1>7
-----------------------------------------------------------------------------
(* The theorem *)

\* A step that moves no packet, or queues one that is no chat.
LEMMA StillInv ==
  ASSUME ChatInv, UNCHANGED <<queue, c2s, heard, written>>
  PROVE  ChatInv'
BY DEF ChatInv, Apart

LEMMA EnqueueInv ==
  ASSUME TypeOK, ChatInv, UNCHANGED <<c2s, heard, written>>, NEW c \in Conns,
         NEW k \in Serverbound, NEW a \in Nat, Enqueue(c, k, a), k # "chat"
  PROVE  ChatInv'
BY EnqueueShrinks, SameShrinks, Fewer

LEMMA ApplicationInv ==
  ASSUME TypeOK, ChatInv, NEW c \in Conns, Application(c)
  PROVE  ChatInv'
<1>1. CASE New(c) \/ Open(c) \/ SetReactor(c) \/ StartThread(c)
  BY <1>1, StillInv DEF New, Open, SetReactor, StartThread, shared, server
<1>2. CASE Handshake(c)
  <2>1. Enqueue(c, "handshake", IF mode[c] = "connect" THEN 2 ELSE 1)
        /\ UNCHANGED <<c2s, heard, written>>
    BY <1>2 DEF Handshake, server
  <2>2. QED
    BY <2>1, EnqueueInv DEF Serverbound
<1>3. CASE FirstPacket(c)
  <2>1. Enqueue(c, "login_start", 0) \/ Enqueue(c, "request", 0)
    BY <1>3 DEF FirstPacket
  <2>2. UNCHANGED <<c2s, heard, written>>
    BY <1>3 DEF FirstPacket, server
  <2>3. QED
    BY <2>1, <2>2, EnqueueInv DEF Serverbound
<1>4. CASE WriteChat(c)
  BY <1>4, WriteChatInv
<1>5. QED
  BY <1>1, <1>2, <1>3, <1>4 DEF Application, Call

LEMMA ReactInv ==
  ASSUME TypeOK, ChatInv, NEW c \in Conns, React(c)
  PROVE  ChatInv'
<1>1. CASE ReactKey(c) \/ NetSwap(c) \/ ReactSuccess(c) \/ ReactCompression(c)
           \/ ReactNothing(c)
  BY <1>1, StillInv DEF ReactKey, NetSwap, ReactSuccess, ReactCompression,
     ReactNothing, shared, caller, server
<1>2. CASE NetForce(c)
  <2> DEFINE p == [kind |-> "encryption_response", arg |-> 0, via |-> c]
  <2>1. p \in Packet /\ p.kind # "chat"
    BY DEF Packet, Serverbound
  <2>2. queue' = queue /\ written' = written /\ heard' = heard
        /\ (Transmit(c, p) \/ c2s' = c2s)
    BY <1>2 DEF NetForce, SendRaises, caller, server
  <2> HIDE DEF p
  <2>3. CASE Transmit(c, p)
    BY <2>1, <2>2, <2>3, TransmitShrinks, SameShrinks, Fewer
  <2>4. CASE c2s' = c2s
    BY <2>2, <2>4, StillInv
  <2>5. QED
    BY <2>2, <2>3, <2>4
<1>3. CASE ReactKeepAlive(c)
  <2>1. Enqueue(c, "keep_alive_serverbound", pkt[c].arg) /\ pkt[c].arg \in Nat
        /\ UNCHANGED <<c2s, heard, written>>
    BY <1>3 DEF ReactKeepAlive, caller, server, TypeOK, ThreadType
  <2>2. QED
    BY <2>1, EnqueueInv DEF Serverbound
<1>4. CASE ReactPosition(c)
  <2>1. /\ Enqueue(c, "teleport_confirm", pkt[c].arg) \/ Enqueue(c, "position_and_look", 0)
        /\ pkt[c].arg \in Nat /\ UNCHANGED <<c2s, heard, written>>
    BY <1>4 DEF ReactPosition, caller, server, TypeOK, ThreadType
  <2>2. QED
    BY <2>1, EnqueueInv DEF Serverbound
<1>5. CASE ReactResponse(c)
  <2>1. Enqueue(c, "ping", 0) /\ UNCHANGED <<c2s, heard, written>>
    BY <1>5 DEF ReactResponse, caller, server
  <2>2. QED
    BY <2>1, EnqueueInv DEF Serverbound
<1>6. QED
  BY <1>1, <1>2, <1>3, <1>4, <1>5 DEF React

LEMMA NetworkInv ==
  ASSUME TypeOK, ChatInv, NEW c \in Conns, Network(c)
  PROVE  ChatInv'
<1>1. CASE NetTop(c) \/ NetLock(c) \/ NetDrained(c) \/ NetSelect(c) \/ NetTimeout(c)
           \/ NetEof(c) \/ NetSpin(c) \/ NetRead(c)
  BY <1>1, StillInv DEF NetTop, NetLock, NetDrained, NetSelect, NetTimeout, NetEof,
     NetSpin, NetRead, shared, caller, server
<1>2. CASE NetPop(c)
  BY <1>2, PopInv
<1>3. CASE NetPopRaises(c)
  <2>1. /\ queue # <<>> /\ queue' = Tail(queue)
        /\ UNCHANGED <<c2s, heard, written>>
    BY <1>3 DEF NetPopRaises, SendRaises, caller, server
  <2>2. QED
    BY <2>1, TailShrinks, SameShrinks, Fewer
<1>4. CASE React(c)
  BY <1>4, ReactInv
<1>5. QED
  BY <1>1, <1>2, <1>3, <1>4 DEF Network

LEMMA ServerChatInv ==
  ASSUME TypeOK, ChatInv, NEW c \in Conns, Server(c)
  PROVE  ChatInv'
<1>1. CASE ServerLogin(c) \/ ServerKeepAlive(c) \/ ServerPosition(c) \/ ServerOther(c)
  BY <1>1, StillInv DEF ServerLogin, ServerKeepAlive, ServerPosition, ServerOther,
     shared, caller, server
<1>2. CASE ServerReject(c) \/ ServerClose(c)
  <2>1. c2s' = [c2s EXCEPT ![c] = <<>>] /\ UNCHANGED <<queue, heard, written>>
    BY <1>2 DEF ServerReject, ServerClose, shared, caller
  <2>2. QED
    BY <2>1, EmptyShrinks, SameShrinks, Fewer
<1>3. CASE ServerTake(c)
  BY <1>3, TakeInv
<1>4. QED
  BY <1>1, <1>2, <1>3 DEF Server

LEMMA StepChat == TypeOK /\ ChatInv /\ [Next]_vars => ChatInv'
<1> SUFFICES ASSUME TypeOK, ChatInv, [Next]_vars
             PROVE  ChatInv'
  OBVIOUS
<1>1. CASE UNCHANGED vars
  BY <1>1, StillInv DEF vars, shared, caller, server
<1>2. QED
  BY <1>1, ApplicationInv, NetworkInv, ServerChatInv DEF Next

LEMMA InitChat == Init => ChatInv
<1> SUFFICES ASSUME Init
             PROVE  ChatInv
  OBVIOUS
<1>1. queue = <<>> /\ \A c \in Conns : c2s[c] = <<>> /\ heard[c] = <<>>
  BY DEF Init
<1>2. QED
  BY <1>1, EmptyHas DEF ChatInv, Apart

\* connection.py:60-109, 164-176: a chat written reaches no server twice and no two
\* servers, for any number of connections on the shared queue, any order in which
\* their threads run and whichever chats are forced out.
THEOREM ChatsHeardOnce == Spec => []ChatOnce
<1>1. TypeOK /\ ChatInv => ChatOnce
  <2> SUFFICES ASSUME TypeOK, ChatInv, NEW c \in Conns, NEW d \in Conns,
                      NEW i \in DOMAIN heard[c], NEW j \in DOMAIN heard[d],
                      heard[c][i] = heard[d][j]
               PROVE  c = d /\ i = j
    BY DEF ChatOnce
  <2>1. heard[c] \in Seq(Nat) /\ heard[d] \in Seq(Nat)
    BY DEF TypeOK, ServerType
  <2>2. /\ i \in 1 .. Len(heard[c]) /\ j \in 1 .. Len(heard[d]) /\ heard[c][i] \in Nat
    BY <2>1
  <2>3. Said(heard[c], heard[c][i]) /\ Said(heard[d], heard[c][i])
    BY <2>2 DEF Said
  <2>4. c = d
    BY <2>2, <2>3 DEF ChatInv, Apart
  <2>5. i = j
    BY <2>2, <2>4 DEF ChatInv, Once
  <2>6. QED
    BY <2>4, <2>5
<1>2. TypeOK /\ ChatInv /\ [Next]_vars => (TypeOK /\ ChatInv)'
  BY StepType, StepChat
<1>3. QED
  BY <1>1, <1>2, InitType, InitChat, PTL DEF Spec
-----------------------------------------------------------------------------
(* What a server refuses.  First, sequences and stages *)

LEMMA Bare == \A i \in 1 .. Len(<<>>) : FALSE
OBVIOUS

\* The stages of a connection, and what is due in each.
LEMMA Stage ==
  ASSUME TypeOK, NEW c \in Conns
  PROVE  /\ stage[c] \in Stages
         /\ stage[c] = "handshake" => Due(c) = {"handshake", First(c)}
         /\ stage[c] = "login" => Due(c) = {"login_start"}
         /\ stage[c] = "key" => Due(c) = {"encryption_response"}
         /\ stage[c] = "play" => Due(c) = InPlay
         /\ stage[c] = "status" => Due(c) = {"request", "ping"}
         /\ stage[c] \in {"none", "greeted", "ready", "closed"} => Due(c) = {}
BY DEF TypeOK, ServerType, Stages, Due
-----------------------------------------------------------------------------
(* Queue and wire *)

\* Neither changes.
LEMMA SameMail ==
  ASSUME NEW c \in Conns, Wanted(c), Ordered(c),
         UNCHANGED <<mode, stage, queue, c2s, call>>
  PROVE  Wanted(c)' /\ Ordered(c)'
BY DEF Wanted, Ordered, Due, First, Waits, Travels, Single

\* A packet is queued that may be there more than once.
LEMMA EnqueueMail ==
  ASSUME TypeOK, NEW c \in Conns, Wanted(c), Ordered(c),
         NEW k \in Serverbound, NEW a \in Nat, Enqueue(c, k, a),
         UNCHANGED <<mode, stage, c2s, call>>, call[c] \notin {0, 1, 2},
         k \in Due(c) \cup {"chat"}, k \notin {"handshake", First(c), "encryption_response"}
  PROVE  Wanted(c)' /\ Ordered(c)'
<1> DEFINE p == [kind |-> k, arg |-> a, via |-> c]
<1>1. p \in Packet /\ p.kind = k /\ queue' = Append(queue, p) /\ queue \in Seq(Packet)
  BY DEF Packet, Enqueue, TypeOK, SharedType
<1> HIDE DEF p
<1>2. /\ \A i \in 1 .. Len(queue) : queue'[i] = queue[i] /\ i \in 1 .. Len(queue')
      /\ \A i \in 1 .. Len(queue') : queue'[i].kind = k \/ i \in 1 .. Len(queue)
  BY <1>1, Grown
<1>3. Due(c)' = Due(c) /\ First(c)' = First(c)
  BY DEF Due, First
<1>4. \A x \in {"handshake", First(c), "encryption_response"} :
        /\ Waits(x)' <=> Waits(x)
        /\ Travels(c, x)' <=> Travels(c, x)
        /\ Single(queue, x) => Single(queue', x)
  <2> SUFFICES ASSUME NEW x \in {"handshake", First(c), "encryption_response"}
               PROVE  /\ Waits(x)' <=> Waits(x)
                      /\ Travels(c, x)' <=> Travels(c, x)
                      /\ Single(queue, x) => Single(queue', x)
    OBVIOUS
  <2>1. k # x
    OBVIOUS
  <2>2. Waits(x)' <=> Waits(x)
    BY <1>2, <2>1 DEF Waits
  <2>3. Travels(c, x)' <=> Travels(c, x)
    BY DEF Travels
  <2>4. Single(queue, x) => Single(queue', x)
    BY <1>2, <2>1 DEF Single
  <2>5. QED
    BY <2>2, <2>3, <2>4
<1>5. Wanted(c)'
  <2>1. \A i \in 1 .. Len(queue') : queue'[i].kind = "chat" \/
          (queue'[i].kind \in Due(c) /\ queue'[i].kind # "encryption_response")
    BY <1>2 DEF Wanted
  <2>2. \A i \in 1 .. Len(c2s'[c]) : c2s'[c][i].kind \in Due(c) \cup {"chat"}
    BY DEF Wanted
  <2>3. \A x \in {"handshake", First(c), "encryption_response"} :
          Single(queue', x) /\ Single(c2s'[c], x) /\ ~(Waits(x)' /\ Travels(c, x)')
    BY <1>4 DEF Wanted
  <2>4. QED
    BY <1>3, <2>1, <2>2, <2>3 DEF Wanted
<1>6. Ordered(c)'
  BY <1>2, <1>3, <1>4 DEF Ordered
<1>7. QED
  BY <1>5, <1>6

\* The handshake is queued.
LEMMA HandshakeMail ==
  ASSUME TypeOK, NEW c \in Conns, Wanted(c), Ordered(c), call[c] = 2, call'[c] = 3,
         NEW a \in Nat, Enqueue(c, "handshake", a), UNCHANGED <<mode, stage, c2s>>
  PROVE  Wanted(c)' /\ Ordered(c)'
<1> DEFINE p == [kind |-> "handshake", arg |-> a, via |-> c]
<1>1. queue = <<>> /\ c2s[c] = <<>> /\ stage[c] = "handshake"
  BY DEF Ordered
<1>2. queue' = <<p>> /\ p.kind = "handshake"
  BY <1>1 DEF Enqueue
<1>3. Len(queue') = 1 /\ queue'[1].kind = "handshake" /\ c2s'[c] = <<>> /\ Len(c2s'[c]) = 0
  BY <1>1, <1>2
<1> HIDE DEF p
<1>4. Due(c)' = {"handshake", First(c)'} /\ First(c)' \in {"login_start", "request"}
  BY <1>1 DEF Due, First
<1>5. Waits("handshake")' /\ \A x : ~Travels(c, x)' /\ Single(c2s'[c], x) /\ Single(queue', x)
  BY <1>3 DEF Waits, Travels, Single
<1>6. Wanted(c)'
  <2>1. \A i \in 1 .. Len(queue') : queue'[i].kind = "handshake"
    BY <1>3
  <2>2. QED
    BY <1>3, <1>4, <1>5, <2>1 DEF Wanted
<1>7. Ordered(c)'
  BY <1>1, <1>3, <1>5 DEF Ordered
<1>8. QED
  BY <1>6, <1>7

\* The login start, or the request, is queued.
LEMMA FirstMail ==
  ASSUME TypeOK, NEW c \in Conns, Wanted(c), Ordered(c), Letters(c), Quiet(c), Modal(c),
         call[c] = 5, call'[c] = 6, stage[c] # "closed",
         Enqueue(c, First(c), 0), UNCHANGED <<mode, stage, c2s>>
  PROVE  Wanted(c)' /\ Ordered(c)'
<1> DEFINE p == [kind |-> First(c), arg |-> 0, via |-> c]
<1>1. p \in Packet /\ p.kind = First(c) /\ queue' = Append(queue, p) /\ queue \in Seq(Packet)
  BY DEF Packet, Enqueue, TypeOK, SharedType, First, Serverbound
<1> HIDE DEF p
<1>2. /\ \A i \in 1 .. Len(queue) : queue'[i] = queue[i] /\ i \in 1 .. Len(queue')
      /\ \A i \in 1 .. Len(queue') : \/ i = Len(queue') /\ queue'[i].kind = First(c)
                                     \/ i \in 1 .. Len(queue)
  BY <1>1, Grown
<1>3. Due(c)' = Due(c) /\ First(c)' = First(c) /\ First(c) \in {"login_start", "request"}
  BY DEF Due, First
<1>4. /\ \A i \in 1 .. Len(queue) : queue[i].kind # First(c)
      /\ \A i \in 1 .. Len(c2s[c]) : c2s[c][i].kind # First(c)
  BY <1>3 DEF Letters, Fits, Begun
<1>5. First(c) \in Due(c)
  <2>1. stage[c] \in {"handshake", "login", "status"}
    BY DEF Quiet, Begun, Early, Ordered
  <2>2. QED
    BY <2>1, Stage DEF Modal, First
<1>6. \A x \in {"handshake", "encryption_response"} :
        /\ Waits(x)' <=> Waits(x)
        /\ Travels(c, x)' <=> Travels(c, x)
        /\ Single(queue, x) => Single(queue', x)
  <2> SUFFICES ASSUME NEW x \in {"handshake", "encryption_response"}
               PROVE  /\ Waits(x)' <=> Waits(x)
                      /\ Travels(c, x)' <=> Travels(c, x)
                      /\ Single(queue, x) => Single(queue', x)
    OBVIOUS
  <2>1. First(c) # x
    BY <1>3
  <2>2. Waits(x)' <=> Waits(x)
    BY <1>2, <2>1 DEF Waits
  <2>3. Travels(c, x)' <=> Travels(c, x)
    BY DEF Travels
  <2>4. Single(queue, x) => Single(queue', x)
    BY <1>2, <2>1 DEF Single
  <2>5. QED
    BY <2>2, <2>3, <2>4
<1>7. \A x : x = First(c) => Single(queue', x) /\ ~Travels(c, x)' /\ ~Travels(c, x)
  <2> SUFFICES ASSUME NEW x, x = First(c)
               PROVE  Single(queue', x) /\ ~Travels(c, x)' /\ ~Travels(c, x)
    OBVIOUS
  <2>1. Single(queue', x)
    BY <1>2, <1>4 DEF Single
  <2>2. ~Travels(c, x)' /\ ~Travels(c, x)
    BY <1>4 DEF Travels
  <2>3. QED
    BY <2>1, <2>2
<1>8. Wanted(c)'
  <2>1. \A i \in 1 .. Len(queue') : queue'[i].kind = "chat" \/
          (queue'[i].kind \in Due(c) /\ queue'[i].kind # "encryption_response")
    BY <1>2, <1>3, <1>5 DEF Wanted
  <2>2. \A i \in 1 .. Len(c2s'[c]) : c2s'[c][i].kind \in Due(c) \cup {"chat"}
    BY DEF Wanted
  <2>3. \A x \in {"handshake", First(c), "encryption_response"} :
          Single(queue', x) /\ Single(c2s'[c], x) /\ ~(Waits(x)' /\ Travels(c, x)')
    BY <1>6, <1>7 DEF Wanted
  <2>4. QED
    BY <1>3, <2>1, <2>2, <2>3 DEF Wanted
<1>9. Ordered(c)'
  <2>1. \A i \in 1 .. Len(queue') : queue'[i].kind = "handshake" => i = 1
    BY <1>2, <1>3 DEF Ordered
  <2>2. Waits("handshake")' => ~Travels(c, First(c))'
    BY <1>4 DEF Travels, First
  <2>3. \A i \in 1 .. Len(c2s'[c]) : c2s'[c][i].kind # First(c)
    BY <1>4
  <2>4. QED
    BY <1>3, <1>6, <2>1, <2>2, <2>3 DEF Ordered
<1>10. QED
  BY <1>8, <1>9

\* A packet leaves for a server that is there.
LEMMA Leaves ==
  ASSUME TypeOK, NEW c \in Conns, stage[c] # "closed", NEW p \in Packet, Transmit(c, p)
  PROVE  /\ \A i \in 1 .. Len(c2s[c]) :
              /\ c2s'[c][i] = c2s[c][i] /\ i \in 1 .. Len(c2s'[c])
              /\ i \in 1 .. Len(c2s'[c]) - 1
         /\ \A i \in 1 .. Len(c2s'[c]) :
              \/ i \in 1 .. Len(c2s[c])
              \/ /\ i = Len(c2s'[c]) /\ c2s'[c][i].kind = p.kind
                 /\ c2s'[c][i].enc = cipher[c] /\ c2s'[c][i].cmp = compressed
         /\ \E i \in 1 .. Len(c2s'[c]) : c2s'[c][i].kind = p.kind
<1> DEFINE f == [kind |-> p.kind, arg |-> p.arg, via |-> p.via,
                 enc |-> cipher[c], cmp |-> compressed]
<1>1. /\ f \in FrameUp /\ f.kind = p.kind /\ f.enc = cipher[c] /\ f.cmp = compressed
  BY DEF FrameUp, Packet, TypeOK, ObjectType, SharedType
<1>2. c2s' = [c2s EXCEPT ![c] = Append(c2s[c], f)] /\ c2s \in [Conns -> Seq(FrameUp)]
  BY DEF Transmit, TypeOK, WireType
<1> HIDE DEF f
<1>3. c2s'[c] = Append(c2s[c], f) /\ c2s[c] \in Seq(FrameUp)
  BY <1>2
<1> DEFINE q == c2s[c]
           r == c2s'[c]
<1>4. q \in Seq(FrameUp) /\ r = Append(q, f)
  BY <1>3
<1> HIDE DEF q, r
<1>5. /\ Len(q) \in Nat /\ Len(r) = Len(q) + 1 /\ r[Len(r)] = f /\ Len(r) \in 1 .. Len(r)
      /\ \A i \in 1 .. Len(q) : r[i] = q[i] /\ i \in 1 .. Len(r)
      /\ \A i \in 1 .. Len(r) : i = Len(r) \/ i \in 1 .. Len(q)
  BY <1>1, <1>4, Grown
<1>6. \A i \in 1 .. Len(q) : i \in 1 .. Len(r) - 1
  BY <1>5
<1>7. QED
  BY <1>1, <1>5, <1>6 DEF q, r

\* The oldest packet of the queue leaves.
LEMMA PopMail ==
  ASSUME TypeOK, NEW c \in Conns, Wanted(c), Ordered(c), stage[c] # "closed",
         queue # <<>>, queue' = Tail(queue), Transmit(c, Head(queue)),
         UNCHANGED <<mode, stage, call>>
  PROVE  Wanted(c)' /\ Ordered(c)'
<1> DEFINE p == Head(queue)
<1>1. queue \in Seq(Packet)
  BY DEF TypeOK, SharedType
<1>2. /\ p = queue[1] /\ p \in Packet /\ 1 \in 1 .. Len(queue)
      /\ \A i \in 1 .. Len(queue') :
           queue'[i] = queue[i + 1] /\ i + 1 \in 1 .. Len(queue) /\ i + 1 # 1
  BY <1>1, Shorn
<1>3. Transmit(c, p)
  OBVIOUS
<1> HIDE DEF p
<1>4. /\ \A i \in 1 .. Len(c2s[c]) :
              /\ c2s'[c][i] = c2s[c][i] /\ i \in 1 .. Len(c2s'[c])
              /\ i \in 1 .. Len(c2s'[c]) - 1
      /\ \A i \in 1 .. Len(c2s'[c]) :
              \/ i \in 1 .. Len(c2s[c])
              \/ i = Len(c2s'[c]) /\ c2s'[c][i].kind = p.kind
      /\ \E i \in 1 .. Len(c2s'[c]) : c2s'[c][i].kind = p.kind
  BY <1>2, <1>3, Leaves
<1>5. Due(c)' = Due(c) /\ First(c)' = First(c) /\ First(c) \in {"login_start", "request"}
  BY DEF Due, First
<1>6. ASSUME NEW x
      PROVE  /\ Waits(x)' => Waits(x)
             /\ Travels(c, x)' <=> Travels(c, x) \/ p.kind = x
             /\ p.kind = x => Waits(x)
             /\ p.kind = x /\ Single(queue, x) => ~Waits(x)'
             /\ Single(queue, x) => Single(queue', x)
             /\ Single(c2s[c], x) /\ (p.kind = x => ~Travels(c, x)) => Single(c2s'[c], x)
  <2>1. (Waits(x)' => Waits(x)) /\ (p.kind = x => Waits(x))
    BY <1>2 DEF Waits
  <2>2. Travels(c, x)' <=> Travels(c, x) \/ p.kind = x
    BY <1>4 DEF Travels
  <2>3. p.kind = x /\ Single(queue, x) => ~Waits(x)'
    BY <1>2 DEF Waits, Single
  <2>4. Single(queue, x) => Single(queue', x)
    <3> SUFFICES ASSUME Single(queue, x), NEW i \in 1 .. Len(queue'), NEW j \in 1 .. Len(queue'),
                        queue'[i].kind = x, queue'[j].kind = x
                 PROVE  i = j
      BY DEF Single
    <3>1. i + 1 = j + 1
      BY <1>2 DEF Single
    <3>2. QED
      BY <3>1
  <2>5. Single(c2s[c], x) /\ (p.kind = x => ~Travels(c, x)) => Single(c2s'[c], x)
    BY <1>4 DEF Single, Travels
  <2>6. QED
    BY <2>1, <2>2, <2>3, <2>4, <2>5
<1>7. Wanted(c)'
  <2>1. \A i \in 1 .. Len(queue') : queue'[i].kind = "chat" \/
          (queue'[i].kind \in Due(c) /\ queue'[i].kind # "encryption_response")
    BY <1>2 DEF Wanted
  <2>2. \A i \in 1 .. Len(c2s'[c]) : c2s'[c][i].kind \in Due(c) \cup {"chat"}
    <3>1. p.kind \in Due(c) \cup {"chat"}
      BY <1>2 DEF Wanted
    <3>2. QED
      BY <1>4, <3>1 DEF Wanted
  <2>3. \A x \in {"handshake", First(c), "encryption_response"} :
          Single(queue', x) /\ Single(c2s'[c], x) /\ ~(Waits(x)' /\ Travels(c, x)')
    BY <1>6 DEF Wanted
  <2>4. QED
    BY <1>5, <2>1, <2>2, <2>3 DEF Wanted
<1>8. Ordered(c)'
  <2>1. call[c] \notin {0, 1, 2}
    BY DEF Ordered
  <2>2. \A i \in 1 .. Len(queue') : queue'[i].kind # "handshake"
    BY <1>2 DEF Ordered
  <2>3. ~Waits("handshake")'
    BY <2>2 DEF Waits
  <2>4. ASSUME stage[c] = "handshake"
        PROVE  Travels(c, "handshake")'
    <3>1. Waits("handshake") \/ Travels(c, "handshake")
      BY <2>1, <2>4 DEF Ordered
    <3>2. Waits("handshake") => p.kind = "handshake"
      BY <1>2 DEF Ordered, Waits
    <3>3. QED
      BY <1>6, <3>1, <3>2
  <2>5. ASSUME stage[c] = "handshake", NEW i \in 1 .. Len(c2s'[c]), c2s'[c][i].kind = First(c)
        PROVE  \E j \in 1 .. i - 1 : c2s'[c][j].kind = "handshake"
    <3>1. CASE i \in 1 .. Len(c2s[c])
      <4>1. c2s[c][i].kind = First(c)
        BY <1>4, <2>5, <3>1
      <4>2. PICK j \in 1 .. i - 1 : c2s[c][j].kind = "handshake"
        BY <2>5, <3>1, <4>1 DEF Ordered
      <4>3. j \in 1 .. Len(c2s[c])
        <5>1. c2s[c] \in Seq(FrameUp)
          BY DEF TypeOK, WireType
        <5>2. Len(c2s[c]) \in Nat
          BY <5>1
        <5>3. QED
          BY <3>1, <4>2, <5>2
      <4>4. QED
        BY <1>4, <4>2, <4>3
    <3>2. CASE i \notin 1 .. Len(c2s[c])
      <4>1. i = Len(c2s'[c]) /\ p.kind = First(c)
        BY <1>4, <2>5, <3>2
      <4>2. ~Waits("handshake")
        BY <1>2, <1>5, <4>1 DEF Ordered, Waits
      <4>3. Travels(c, "handshake")
        BY <2>1, <2>5, <4>2 DEF Ordered
      <4>4. QED
        BY <1>4, <4>1, <4>3 DEF Travels
    <3>3. QED
      BY <3>1, <3>2
  <2>6. stage'[c] = "none" => call'[c] \in {0, 1}
    BY DEF Ordered
  <2>7. QED
    BY <1>5, <2>1, <2>2, <2>3, <2>4, <2>5, <2>6 DEF Ordered
<1>9. QED
  BY <1>7, <1>8

\* A forced chat, or the answer to an encryption request, leaves.
LEMMA ForceMail ==
  ASSUME TypeOK, NEW c \in Conns, Wanted(c), Ordered(c), stage[c] # "closed",
         NEW p \in Packet, Transmit(c, p), UNCHANGED <<mode, stage, call, queue>>,
         call[c] \notin {0, 1, 2},
         \/ p.kind = "chat"
         \/ /\ p.kind = "encryption_response" /\ stage[c] = "key"
            /\ ~Travels(c, "encryption_response")
  PROVE  Wanted(c)' /\ Ordered(c)'
<1>1. /\ \A i \in 1 .. Len(c2s[c]) :
              /\ c2s'[c][i] = c2s[c][i] /\ i \in 1 .. Len(c2s'[c])
              /\ i \in 1 .. Len(c2s'[c]) - 1
      /\ \A i \in 1 .. Len(c2s'[c]) :
              \/ i \in 1 .. Len(c2s[c])
              \/ i = Len(c2s'[c]) /\ c2s'[c][i].kind = p.kind
      /\ \E i \in 1 .. Len(c2s'[c]) : c2s'[c][i].kind = p.kind
  BY Leaves
<1>2. Due(c)' = Due(c) /\ First(c)' = First(c) /\ First(c) \in {"login_start", "request"}
  BY DEF Due, First
<1>3. ASSUME NEW x \in {"handshake", First(c), "encryption_response"}
      PROVE  /\ Waits(x)' <=> Waits(x)
             /\ Travels(c, x)' <=> Travels(c, x) \/ p.kind = x
             /\ Single(c2s[c], x) => Single(c2s'[c], x)
             /\ ~(p.kind = x /\ Waits(x))
  <2>1. Waits(x)' <=> Waits(x)
    BY DEF Waits
  <2>2. Travels(c, x)' <=> Travels(c, x) \/ p.kind = x
    BY <1>1 DEF Travels
  <2>3. x # "chat" /\ (p.kind = x => ~Travels(c, x))
    BY <1>2
  <2>4. Single(c2s[c], x) => Single(c2s'[c], x)
    BY <1>1, <2>3 DEF Single, Travels
  <2>5. ~(p.kind = x /\ Waits(x))
    BY <2>3 DEF Wanted, Waits
  <2>6. QED
    BY <2>1, <2>2, <2>4, <2>5
<1>4. Wanted(c)'
  <2>1. \A i \in 1 .. Len(queue') : queue'[i].kind = "chat" \/
          (queue'[i].kind \in Due(c) /\ queue'[i].kind # "encryption_response")
    BY DEF Wanted
  <2>2. \A i \in 1 .. Len(c2s'[c]) : c2s'[c][i].kind \in Due(c) \cup {"chat"}
    <3>1. p.kind \in Due(c) \cup {"chat"}
      BY DEF Due
    <3>2. QED
      BY <1>1, <3>1 DEF Wanted
  <2>3. \A x \in {"handshake", First(c), "encryption_response"} :
          Single(queue', x) /\ Single(c2s'[c], x) /\ ~(Waits(x)' /\ Travels(c, x)')
    BY <1>3 DEF Wanted
  <2>4. QED
    BY <1>2, <2>1, <2>2, <2>3 DEF Wanted
<1>5. Ordered(c)'
  <2>1. ASSUME Waits("handshake")' PROVE ~Travels(c, First(c))'
    <3>1. Waits("handshake")
      BY <2>1 DEF Waits
    <3>2. \A i \in 1 .. Len(c2s[c]) : c2s[c][i].kind # First(c)
      BY <3>1 DEF Ordered, Travels
    <3>3. \A i \in 1 .. Len(c2s'[c]) : c2s'[c][i].kind # First(c)
      BY <1>1, <1>2, <3>2
    <3>4. QED
      BY <1>2, <3>3 DEF Travels
  <2>2. ASSUME stage[c] = "handshake"
        PROVE  Waits("handshake")' \/ Travels(c, "handshake")'
    BY <1>3, <2>2 DEF Ordered
  <2>3. ASSUME stage[c] = "handshake", NEW i \in 1 .. Len(c2s'[c]), c2s'[c][i].kind = First(c)
        PROVE  \E j \in 1 .. i - 1 : c2s'[c][j].kind = "handshake"
    <3>1. i \in 1 .. Len(c2s[c]) /\ c2s[c][i].kind = First(c)
      BY <1>1, <1>2, <2>3
    <3>2. PICK j \in 1 .. i - 1 : c2s[c][j].kind = "handshake"
      BY <2>3, <3>1 DEF Ordered
    <3>3. c2s[c] \in Seq(FrameUp)
      BY DEF TypeOK, WireType
    <3>4. Len(c2s[c]) \in Nat
      BY <3>3
    <3>5. j \in 1 .. Len(c2s[c])
      BY <3>1, <3>2, <3>4
    <3>6. QED
      BY <1>1, <3>2, <3>5
  <2>4. QED
    BY <1>2, <2>1, <2>2, <2>3 DEF Ordered
<1>6. QED
  BY <1>4, <1>5

\* The server takes the packet that has arrived.
LEMMA Taking ==
  ASSUME TypeOK, NEW c \in Conns, ServerTake(c), Letters(c), Modal(c)
  PROVE  LET f == c2s[c][1] IN
         /\ 1 \in 1 .. Len(c2s[c]) /\ Legal(c, f) /\ c2s[c] # <<>>
         /\ \A i \in 1 .. Len(c2s'[c]) :
              c2s'[c][i] = c2s[c][i + 1] /\ i + 1 \in 1 .. Len(c2s[c]) /\ i + 1 # 1
         /\ \/ /\ stage[c] = "handshake" /\ f.kind = "handshake"
               /\ stage'[c] = IF mode[c] = "connect" THEN "login" ELSE "status"
            \/ stage[c] = "login" /\ f.kind = "login_start" /\ stage'[c] = "greeted"
            \/ stage[c] = "key" /\ f.kind = "encryption_response" /\ stage'[c] = "ready"
            \/ /\ stage[c] \in {"play", "status"} /\ stage'[c] = stage[c]
               /\ f.kind \in InPlay \cup {"chat", "request", "ping"}
               /\ stage[c] = "play" => f.kind # "request"
         /\ senc'[c] = (senc[c] \/ stage[c] = "key")
         /\ f.kind # "request" => s2c' = s2c
         /\ f.kind = "request" => Push(c, "response", 0)
<1> DEFINE f == Head(c2s[c])
<1>1. c2s[c] \in Seq(FrameUp) /\ c2s[c] # <<>> /\ c2s'[c] = Tail(c2s[c])
  BY DEF ServerTake, TypeOK, WireType
<1>2. /\ f = c2s[c][1] /\ 1 \in 1 .. Len(c2s[c])
      /\ \A i \in 1 .. Len(c2s'[c]) :
           c2s'[c][i] = c2s[c][i + 1] /\ i + 1 \in 1 .. Len(c2s[c]) /\ i + 1 # 1
  BY <1>1, Shorn
<1>3. /\ Legal(c, f)
      /\ stage'[c] = CASE f.kind = "handshake" -> IF f.arg = 2 THEN "login" ELSE "status"
              [] f.kind = "login_start" -> "greeted"
              [] f.kind = "encryption_response" -> "ready"
              [] OTHER -> stage[c]
      /\ senc'[c] = (senc[c] \/ f.kind = "encryption_response")
      /\ f.kind # "request" => s2c' = s2c
      /\ f.kind = "request" => Push(c, "response", 0)
  BY DEF ServerTake, TypeOK, ServerType
<1>4. f.kind = "handshake" => f.arg = IF mode[c] = "connect" THEN 2 ELSE 1
  BY <1>2 DEF Letters, Fits
<1> HIDE DEF f
<1>5. stage[c] \in Stages
  BY Stage
<1>6. /\ stage[c] = "handshake" => Takes(stage[c]) = {"handshake"}
      /\ stage[c] = "login" => Takes(stage[c]) = {"login_start"}
      /\ stage[c] = "key" => Takes(stage[c]) = {"encryption_response"}
      /\ stage[c] = "play" => Takes(stage[c]) = {"chat", "keep_alive_serverbound",
                                               "teleport_confirm", "position_and_look"}
      /\ stage[c] = "status" => Takes(stage[c]) = {"request", "ping"}
      /\ stage[c] \in {"none", "greeted", "ready", "closed"} => Takes(stage[c]) = {}
  BY DEF Takes
<1>7. f.kind \in Takes(stage[c])
  BY <1>3 DEF Legal
<1>8. \/ /\ stage[c] = "handshake" /\ f.kind = "handshake"
         /\ stage'[c] = IF mode[c] = "connect" THEN "login" ELSE "status"
      \/ stage[c] = "login" /\ f.kind = "login_start" /\ stage'[c] = "greeted"
      \/ stage[c] = "key" /\ f.kind = "encryption_response" /\ stage'[c] = "ready"
      \/ /\ stage[c] \in {"play", "status"} /\ stage'[c] = stage[c]
         /\ f.kind \in InPlay \cup {"chat", "request", "ping"}
         /\ stage[c] = "play" => f.kind # "request"
  BY <1>3, <1>4, <1>5, <1>6, <1>7 DEF Stages, InPlay
<1>9. senc'[c] = (senc[c] \/ stage[c] = "key")
  BY <1>3, <1>8 DEF InPlay
<1>10. QED
  BY <1>1, <1>2, <1>3, <1>8, <1>9

LEMMA TakeMail ==
  ASSUME TypeOK, NEW c \in Conns, Wanted(c), Ordered(c), Letters(c), Modal(c),
         ServerTake(c)
  PROVE  Wanted(c)' /\ Ordered(c)'
<1> DEFINE f == c2s[c][1]
<1>1. /\ 1 \in 1 .. Len(c2s[c]) /\ c2s[c] # <<>>
      /\ \A i \in 1 .. Len(c2s'[c]) :
           c2s'[c][i] = c2s[c][i + 1] /\ i + 1 \in 1 .. Len(c2s[c]) /\ i + 1 # 1
      /\ \/ /\ stage[c] = "handshake" /\ f.kind = "handshake"
            /\ stage'[c] = IF mode[c] = "connect" THEN "login" ELSE "status"
         \/ stage[c] = "login" /\ f.kind = "login_start" /\ stage'[c] = "greeted"
         \/ stage[c] = "key" /\ f.kind = "encryption_response" /\ stage'[c] = "ready"
         \/ /\ stage[c] \in {"play", "status"} /\ stage'[c] = stage[c]
            /\ f.kind \in InPlay \cup {"chat", "request", "ping"}
  BY Taking
<1> HIDE DEF f
<1>2. UNCHANGED <<queue, mode, call>>
  BY DEF ServerTake, shared, caller
<1>3. First(c)' = First(c) /\ First(c) = IF mode[c] = "connect" THEN "login_start" ELSE "request"
  BY <1>2 DEF First
<1>4. call[c] \notin {0, 1, 2}
  BY <1>1 DEF Ordered
<1>5. ASSUME NEW x
      PROVE  /\ Waits(x)' <=> Waits(x)
             /\ Travels(c, x)' => Travels(c, x)
             /\ Single(c2s[c], x) => Single(c2s'[c], x)
             /\ Single(c2s[c], x) /\ f.kind = x => ~Travels(c, x)' /\ Travels(c, x)
  <2>1. Waits(x)' <=> Waits(x)
    BY <1>2 DEF Waits
  <2>2. Travels(c, x)' => Travels(c, x)
    BY <1>1 DEF Travels
  <2>3. Single(c2s[c], x) => Single(c2s'[c], x)
    <3> SUFFICES ASSUME Single(c2s[c], x), NEW i \in 1 .. Len(c2s'[c]),
                        NEW j \in 1 .. Len(c2s'[c]), c2s'[c][i].kind = x, c2s'[c][j].kind = x
                 PROVE  i = j
      BY DEF Single
    <3>1. i + 1 = j + 1
      BY <1>1 DEF Single
    <3>2. QED
      BY <3>1
  <2>4. Single(c2s[c], x) /\ f.kind = x => ~Travels(c, x)' /\ Travels(c, x)
    BY <1>1 DEF Single, Travels, f
  <2>5. QED
    BY <2>1, <2>2, <2>3, <2>4
<1>6. /\ \A i \in 1 .. Len(queue') : queue'[i].kind = "chat" \/
            (queue'[i].kind \in Due(c)' /\ queue'[i].kind # "encryption_response")
      /\ \A i \in 1 .. Len(c2s'[c]) : c2s'[c][i].kind \in Due(c)' \cup {"chat"}
  <2>1. /\ \A i \in 1 .. Len(queue') : queue'[i].kind = "chat" \/
              (queue'[i].kind \in Due(c) /\ queue'[i].kind # "encryption_response")
        /\ \A i \in 1 .. Len(c2s'[c]) : c2s'[c][i].kind \in Due(c) \cup {"chat"}
    BY <1>1, <1>2 DEF Wanted
  <2>2. f.kind \in {"handshake", First(c), "encryption_response"} =>
          /\ \A i \in 1 .. Len(queue') : queue'[i].kind # f.kind
          /\ \A i \in 1 .. Len(c2s'[c]) : c2s'[c][i].kind # f.kind
    <3> SUFFICES ASSUME f.kind \in {"handshake", First(c), "encryption_response"}
                 PROVE  ~Waits(f.kind) /\ \A i \in 1 .. Len(c2s'[c]) : c2s'[c][i].kind # f.kind
      BY <1>2 DEF Waits
    <3>1. Single(c2s[c], f.kind) /\ ~(Waits(f.kind) /\ Travels(c, f.kind))
      BY DEF Wanted
    <3>2. QED
      BY <1>1, <3>1 DEF Single, Travels, f
  <2>3. CASE stage[c] = "handshake" /\ f.kind = "handshake"
    <3>1. Due(c) = {"handshake", First(c)} /\ First(c) \in Due(c)'
      BY <1>1, <1>3, <2>3 DEF Due
    <3>2. QED
      BY <2>1, <2>2, <2>3, <3>1
  <2>4. CASE stage[c] = "login" /\ f.kind = "login_start" /\ stage'[c] = "greeted"
    <3>1. Due(c) = {"login_start"} /\ First(c) = "login_start"
      BY <1>3, <2>4 DEF Due, Modal
    <3>2. QED
      BY <2>1, <2>2, <2>4, <3>1
  <2>5. CASE stage[c] = "key" /\ f.kind = "encryption_response"
    <3>1. Due(c) = {"encryption_response"}
      BY <2>5 DEF Due
    <3>2. QED
      BY <2>1, <2>2, <2>5, <3>1
  <2>6. CASE stage[c] \in {"play", "status"} /\ stage'[c] = stage[c]
    <3>1. Due(c)' = Due(c)
      BY <1>3, <2>6 DEF Due
    <3>2. QED
      BY <2>1, <3>1
  <2>7. QED
    BY <1>1, <2>3, <2>4, <2>5, <2>6
<1>7. Wanted(c)'
  <2>1. \A x \in {"handshake", First(c), "encryption_response"} :
          Single(queue', x) /\ Single(c2s'[c], x) /\ ~(Waits(x)' /\ Travels(c, x)')
    BY <1>2, <1>5 DEF Wanted
  <2>2. QED
    BY <1>3, <1>6, <2>1 DEF Wanted
<1>8. Ordered(c)'
  <2>1. stage'[c] \notin {"none", "handshake"}
    BY <1>1
  <2>2. ASSUME Waits("handshake")' PROVE ~Travels(c, First(c))'
    <3>1. \A i \in 1 .. Len(c2s[c]) : c2s[c][i].kind # First(c)
      BY <1>5, <2>2 DEF Ordered, Travels
    <3>2. \A i \in 1 .. Len(c2s'[c]) : c2s'[c][i].kind # First(c)
      BY <1>1, <3>1
    <3>3. QED
      BY <1>3, <3>2 DEF Travels
  <2>3. QED
    BY <1>2, <1>4, <2>1, <2>2 DEF Ordered
<1>9. QED
  BY <1>7, <1>8

\* The call makes progress, or the server goes on with the login.
LEMMA ProgressMail ==
  ASSUME TypeOK, NEW c \in Conns, Wanted(c), Ordered(c),
         UNCHANGED <<mode, stage, queue, c2s>>, call[c] \notin {0, 1, 2},
         call'[c] \notin {0, 1, 2}
  PROVE  Wanted(c)' /\ Ordered(c)'
BY DEF Wanted, Ordered, Due, First, Waits, Travels, Single

LEMMA LoginMail ==
  ASSUME TypeOK, NEW c \in Conns, Wanted(c), Ordered(c),
         UNCHANGED <<mode, call, queue, c2s>>,
         stage[c] \in {"greeted", "ready"}, stage'[c] \in {"key", "ready", "play"}
  PROVE  Wanted(c)' /\ Ordered(c)'
<1>1. Due(c) = {} /\ First(c)' = First(c)
  BY DEF Due, First
<1>2. /\ \A i \in 1 .. Len(queue) : queue[i].kind = "chat"
      /\ \A i \in 1 .. Len(c2s[c]) : c2s[c][i].kind = "chat"
  BY <1>1 DEF Wanted
<1>3. Wanted(c)'
  <2>1. \A x \in {"handshake", First(c), "encryption_response"} :
          Single(queue', x) /\ Single(c2s'[c], x) /\ ~(Waits(x)' /\ Travels(c, x)')
    <3>1. \A x : (Waits(x)' <=> Waits(x)) /\ (Travels(c, x)' <=> Travels(c, x))
      BY DEF Waits, Travels
    <3>2. QED
      BY <3>1 DEF Wanted
  <2>2. QED
    BY <1>1, <1>2, <2>1 DEF Wanted
<1>4. Ordered(c)'
  BY DEF Ordered, Waits, Travels, First
<1>5. QED
  BY <1>3, <1>4
-----------------------------------------------------------------------------
(* Steps of the client *)

\* What waits can be read where it is going, unless it is a hasty chat.
LEMMA InTune ==
  ASSUME TypeOK, NEW c \in Conns, Wanted(c), Playing(c), Asked(c), stage[c] # "closed",
         NEW i \in 1 .. Len(queue), queue[i].kind # "chat" \/ ~hasty[c]
  PROVE  Tuned(c) /\ (queue[i].kind = "chat" => stage[c] = "play")
<1>1. CASE queue[i].kind = "chat"
  BY <1>1 DEF Playing
<1>2. CASE queue[i].kind # "chat"
  <2>1. queue[i].kind \in Due(c) /\ queue[i].kind # "encryption_response"
    BY <1>2 DEF Wanted
  <2>2. stage[c] \in {"handshake", "login", "status", "play"}
    BY <2>1, Stage DEF Stages
  <2>3. stage[c] = "play" => queue[i].kind \in InPlay
    BY <2>1, Stage
  <2>4. QED
    BY <1>2, <2>2, <2>3 DEF Playing, Asked, Clean, Tuned, TypeOK, ObjectType, SharedType,
       ServerType
<1>3. QED
  BY <1>1, <1>2

\* A step after which the thread has no packet in hand, and which leaves what it can
\* read alone.
LEMMA Settled ==
  ASSUME TypeOK, NEW c \in Conns, Wanted(c)', Ordered(c)', Legible(c)', Playing(c),
         Asked(c), Answered(c), stage[c] # "closed",
         UNCHANGED <<stage, senc, scomp, s2c, cipher, compressed, reactor>>,
         netpc'[c] \notin {"reacting", "forcing", "swapping"},
         spawned'[c] => spawned[c] \/ reactor[c] = "playing",
         Travels(c, "encryption_response")' => Travels(c, "encryption_response"),
         \A i \in 1 .. Len(queue') :
           queue'[i].kind \in InPlay \/ (queue'[i].kind = "chat" /\ ~hasty'[c])
             => reactor[c] = "playing"
  PROVE  ServedAt(c)'
<1>1. Playing(c)'
  BY DEF Playing, Tuned
<1>2. Asked(c)'
  BY DEF Asked, Clean, Busy
<1>3. Answered(c)'
  BY DEF Answered
<1>4. QED
  BY <1>1, <1>2, <1>3 DEF ServedAt

LEMMA SameLegible ==
  ASSUME NEW c \in Conns, Legible(c), UNCHANGED <<c2s, stage, senc, scomp>>,
         hasty[c] => hasty'[c]
  PROVE  Legible(c)' /\ (Travels(c, "encryption_response")' => Travels(c, "encryption_response"))
BY DEF Legible, Travels

LEMMA WaitingServed ==
  ASSUME TypeOK, NEW c \in Conns, ServedAt(c), stage[c] # "closed",
         \/ NetTop(c) \/ NetLock(c) \/ NetDrained(c)
         \/ NetSelect(c) \/ NetTimeout(c) \/ NetEof(c) \/ NetSpin(c)
  PROVE  ServedAt(c)'
<1>1. UNCHANGED <<queue, c2s, s2c, mode, stage, call, senc, scomp, hasty, cipher, compressed,
                  reactor, spawned>>
  BY DEF NetTop, NetLock, NetDrained, NetSelect, NetTimeout, NetEof, NetSpin, shared, object,
     caller, server
<1>2. netpc'[c] \notin {"reacting", "forcing", "swapping"}
  BY DEF NetTop, NetLock, NetDrained, NetSelect, NetTimeout, NetEof, NetSpin, StopWriting,
     TypeOK, ThreadType
<1>3. Wanted(c) /\ Ordered(c) /\ Legible(c) /\ Playing(c) /\ Asked(c) /\ Answered(c)
  BY DEF ServedAt
<1>4. \A i \in 1 .. Len(queue') :
        queue'[i].kind \in InPlay \/ (queue'[i].kind = "chat" /\ ~hasty'[c])
          => reactor[c] = "playing"
  BY <1>1, <1>3 DEF Playing
<1>5. QED
  BY <1>1, <1>2, <1>3, <1>4, SameMail, SameLegible, Settled

LEMMA PopServed ==
  ASSUME TypeOK, NEW c \in Conns, ServedAt(c), stage[c] # "closed", NetPop(c)
  PROVE  ServedAt(c)'
<1>1. UNCHANGED <<s2c, mode, stage, call, senc, scomp, hasty, cipher, compressed, reactor,
                  spawned>>
  BY DEF NetPop, object, caller, server
<1>2. netpc'[c] \notin {"reacting", "forcing", "swapping"}
  BY DEF NetPop, StopWriting, TypeOK, ThreadType
<1>3. Wanted(c) /\ Ordered(c) /\ Legible(c) /\ Playing(c) /\ Asked(c) /\ Answered(c)
  BY DEF ServedAt
<1>4. queue # <<>> /\ queue' = Tail(queue) /\ Transmit(c, Head(queue)) /\ queue \in Seq(Packet)
  BY DEF NetPop, TypeOK, SharedType
<1> DEFINE p == Head(queue)
<1>5. /\ p = queue[1] /\ p \in Packet /\ 1 \in 1 .. Len(queue)
      /\ \A i \in 1 .. Len(queue') : queue'[i] = queue[i + 1] /\ i + 1 \in 1 .. Len(queue)
  BY <1>4, Shorn
<1>6. Transmit(c, p)
  BY <1>4
<1> HIDE DEF p
<1>7. /\ \A i \in 1 .. Len(c2s[c]) : c2s'[c][i] = c2s[c][i]
      /\ \A i \in 1 .. Len(c2s'[c]) :
              \/ i \in 1 .. Len(c2s[c])
              \/ /\ i = Len(c2s'[c]) /\ c2s'[c][i].kind = p.kind
                 /\ c2s'[c][i].enc = cipher[c] /\ c2s'[c][i].cmp = compressed
  BY <1>5, <1>6, Leaves
<1>8. Legible(c)'
  <2>1. p.kind # "chat" \/ ~hasty[c] => Tuned(c)
    BY <1>3, <1>5, InTune
  <2>2. p.kind = "chat" /\ ~hasty[c] => stage[c] = "play"
    BY <1>3, <1>5, InTune
  <2>3. QED
    BY <1>1, <1>3, <1>7, <2>1, <2>2 DEF Legible, Tuned
<1>9. Wanted(c)' /\ Ordered(c)'
  BY <1>1, <1>3, <1>4, PopMail
<1>10. p.kind # "encryption_response"
  BY <1>3, <1>5 DEF Wanted
<1>11. Travels(c, "encryption_response")' => Travels(c, "encryption_response")
  BY <1>7, <1>10 DEF Travels
<1>12. \A i \in 1 .. Len(queue') :
        queue'[i].kind \in InPlay \/ (queue'[i].kind = "chat" /\ ~hasty'[c])
          => reactor[c] = "playing"
  BY <1>1, <1>3, <1>5 DEF Playing
<1>13. QED
  BY <1>1, <1>2, <1>3, <1>8, <1>9, <1>11, <1>12, Settled

\* The thread ends with the chat it could not write.
LEMMA PopRaisesServed ==
  ASSUME TypeOK, NEW c \in Conns, ServedAt(c), stage[c] # "closed", NetPopRaises(c)
  PROVE  ServedAt(c)'
<1>1. UNCHANGED <<c2s, s2c, mode, stage, call, senc, scomp, hasty, cipher, compressed, reactor,
                  spawned>>
  BY DEF NetPopRaises, SendRaises, object, caller, server
<1>2. netpc'[c] \notin {"reacting", "forcing", "swapping"}
  BY DEF NetPopRaises, TypeOK, ThreadType
<1>3. Wanted(c) /\ Ordered(c) /\ Legible(c) /\ Playing(c) /\ Asked(c) /\ Answered(c)
  BY DEF ServedAt
<1>4. queue # <<>> /\ queue' = Tail(queue) /\ queue \in Seq(Packet)
  BY DEF NetPopRaises, TypeOK, SharedType
<1>5. /\ Head(queue) = queue[1] /\ 1 \in 1 .. Len(queue) /\ queue' \in Seq(Packet)
      /\ \A i \in 1 .. Len(queue') :
           queue'[i] = queue[i + 1] /\ i + 1 \in 1 .. Len(queue) /\ i + 1 # 1
  BY <1>4, Shorn
<1>6. queue[1].kind = "chat"
  BY <1>5, ChatsRaise DEF NetPopRaises
<1>7. \A i \in 1 .. Len(queue') : queue'[i].kind # "handshake"
  BY <1>3, <1>5 DEF Ordered
<1>8. ~Waits("handshake")
  BY <1>3, <1>5, <1>6 DEF Ordered, Waits
<1>9. \A k : Waits(k)' => Waits(k)
  BY <1>5 DEF Waits
<1>10. \A k : Travels(c, k)' <=> Travels(c, k)
  BY <1>1 DEF Travels
<1>11. Wanted(c)'
  <2>1. Due(c)' = Due(c) /\ First(c)' = First(c)
    BY <1>1 DEF Due, First
  <2>2. \A i \in 1 .. Len(queue') : queue'[i].kind = "chat" \/
          (queue'[i].kind \in Due(c) /\ queue'[i].kind # "encryption_response")
    BY <1>3, <1>5 DEF Wanted
  <2>3. ASSUME NEW k, Single(queue, k) PROVE Single(queue', k)
    <3> SUFFICES ASSUME NEW i \in 1 .. Len(queue'), NEW j \in 1 .. Len(queue'),
                        queue'[i].kind = k, queue'[j].kind = k
                 PROVE  i = j
      BY DEF Single
    <3>1. i + 1 = j + 1
      BY <1>5, <2>3 DEF Single
    <3>2. QED
      BY <3>1
  <2>4. QED
    BY <1>1, <1>3, <1>9, <1>10, <2>1, <2>2, <2>3 DEF Wanted
<1>12. Ordered(c)'
  <2>1. First(c)' = First(c)
    BY <1>1 DEF First
  <2>2. ~Waits("handshake")'
    BY <1>8, <1>9
  <2>3. call[c] \notin {0, 1, 2}
    BY <1>3, <1>4 DEF Ordered
  <2>4. QED
    BY <1>1, <1>3, <1>7, <1>8, <1>10, <2>1, <2>2, <2>3 DEF Ordered
<1>13. /\ Legible(c)'
       /\ Travels(c, "encryption_response")' => Travels(c, "encryption_response")
  BY <1>1, <1>3, SameLegible
<1>14. \A i \in 1 .. Len(queue') :
        queue'[i].kind \in InPlay \/ (queue'[i].kind = "chat" /\ ~hasty'[c])
          => reactor[c] = "playing"
  BY <1>1, <1>3, <1>5 DEF Playing
<1>15. QED
  BY <1>1, <1>2, <1>3, <1>11, <1>12, <1>13, <1>14, Settled

\* The frame read is one of those due, read with the settings it has.
LEMMA ReadServed ==
  ASSUME TypeOK, NEW c \in Conns, ServedAt(c), StreamAt(c), stage[c] # "closed",
         NetRead(c), netpc'[c] # "garbled"
  PROVE  ServedAt(c)'
<1> DEFINE f == Head(s2c[c])
<1>1. UNCHANGED <<queue, c2s, mode, stage, call, senc, scomp, hasty, cipher, compressed,
                  reactor, spawned>>
  BY DEF NetRead, shared, object, caller, server
<1>2. Wanted(c) /\ Ordered(c) /\ Legible(c) /\ Playing(c) /\ Asked(c) /\ Answered(c)
  BY DEF ServedAt
<1>3. /\ netpc[c] = "polling" /\ s2c[c] # <<>> /\ s2c[c] \in Seq(FrameDown)
      /\ s2c'[c] = Tail(s2c[c])
  BY DEF NetRead, TypeOK, WireType
<1>4. /\ f = s2c[c][1] /\ 1 \in 1 .. Len(s2c[c])
      /\ \A i \in 1 .. Len(s2c'[c]) : s2c'[c][i] = s2c[c][i + 1] /\ i + 1 \in 1 .. Len(s2c[c])
  BY <1>3, Shorn
<1>5. Decodes(c, f) /\ netpc'[c] = "reacting" /\ pkt'[c].kind = f.kind
  BY DEF NetRead, TypeOK, ThreadType
<1> HIDE DEF f
<1>6. bound[c] = reactor[c]
  BY <1>3 DEF StreamAt, Idle, Stale
<1>7. Wanted(c)' /\ Ordered(c)' /\ Legible(c)'
  BY <1>1, <1>2, SameMail, SameLegible
<1>8. Playing(c)'
  BY <1>1, <1>2, <1>5 DEF Playing, Tuned
<1>9. Asked(c)'
  <2>1. stage[c] \notin {"none", "handshake", "login", "greeted"}
    BY <1>2, <1>3 DEF Asked
  <2>2. CASE stage[c] = "status"
    BY <1>1, <1>2, <1>4, <1>5, <2>2 DEF Asked, Clean
  <2>3. CASE stage[c] = "key"
    <3>1. s2c'[c] = <<>>
      BY <1>2, <1>3, <2>3 DEF Asked
    <3>2. pkt'[c].kind = "encryption_request" /\ ~cipher[c] /\ ~Travels(c, "encryption_response")
      BY <1>2, <1>3, <1>4, <1>5, <2>3 DEF Asked
    <3>3. ~Travels(c, "encryption_response")'
      BY <1>1, <3>2 DEF Travels
    <3>4. Len(s2c'[c]) = 0
      BY <3>1
    <3>5. QED
      BY <1>1, <1>2, <2>3, <3>1, <3>2, <3>3, <3>4 DEF Asked
  <2>4. CASE stage[c] \notin {"status", "key"}
    BY <1>1, <2>1, <2>4 DEF Asked
  <2>5. QED
    BY <2>2, <2>3, <2>4
<1>10. Answered(c)'
  <2>1. CASE stage[c] \in {"ready", "play"}
    <3>1. f.enc = cipher[c] /\ f.cmp = compressed /\ f.table = reactor[c]
      BY <1>5, <1>6 DEF Decodes
    <3>2. \/ f.kind = "set_compression" /\ f.table = "login"
          \/ /\ stage[c] = "play" /\ f.enc = senc[c] /\ f.cmp = scomp[c]
             /\ f.kind \in {"login_success", "keep_alive", "player_position_and_look", "other"}
      BY <1>2, <1>4, <2>1 DEF Answered
    <3>3. QED
      BY <1>1, <1>2, <1>4, <1>5, <2>1, <3>1, <3>2 DEF Answered, Tuned
  <2>2. CASE stage[c] \notin {"ready", "play"}
    BY <1>1, <2>2 DEF Answered
  <2>3. QED
    BY <2>1, <2>2
<1>11. QED
  BY <1>7, <1>8, <1>9, <1>10 DEF ServedAt

\* What the packets in hand say of the stage, while the server is there.
LEMMA InHand ==
  ASSUME TypeOK, NEW c \in Conns, Asked(c), Answered(c), stage[c] # "closed",
         netpc[c] = "reacting"
  PROVE  \/ stage[c] = "status" /\ pkt[c].kind = "response"
         \/ stage[c] = "key" /\ pkt[c].kind = "encryption_request"
         \/ /\ stage[c] \in {"ready", "play"}
            /\ pkt[c].kind = "set_compression" /\ reactor[c] = "login"
         \/ /\ stage[c] = "play" /\ Tuned(c)
            /\ pkt[c].kind \in {"login_success", "keep_alive",
                                 "player_position_and_look", "other"}
<1>1. Busy(c)
  BY DEF Busy
<1>2. stage[c] \in {"status", "key", "ready", "play"}
  BY <1>1, Stage DEF Asked, Stages
<1>3. QED
  BY <1>1, <1>2 DEF Asked, Answered

LEMMA Continues ==
  ASSUME TypeOK, NEW c \in Conns, NextRead(c)
  PROVE  netpc'[c] \in {"top", "select"}
BY DEF NextRead, TypeOK, ThreadType

\* The reactor queues an answer, or nothing.
LEMMA AnswerServed ==
  ASSUME TypeOK, NEW c \in Conns, ServedAt(c), StreamAt(c), stage[c] # "closed",
         ReactKeepAlive(c) \/ ReactPosition(c) \/ ReactResponse(c) \/ ReactNothing(c)
  PROVE  ServedAt(c)'
<1>1. UNCHANGED <<c2s, s2c, mode, stage, call, senc, scomp, hasty, cipher, compressed,
                  reactor>>
  BY DEF ReactKeepAlive, ReactPosition, ReactResponse, ReactNothing, object, shared, caller,
     server
<1>2. Wanted(c) /\ Ordered(c) /\ Legible(c) /\ Playing(c) /\ Asked(c) /\ Answered(c)
  BY DEF ServedAt
<1>3. netpc[c] = "reacting" /\ netpc'[c] \in {"top", "select"}
  BY Continues DEF ReactKeepAlive, ReactPosition, ReactResponse, ReactNothing, Reacting
<1>4. Legible(c)' /\ (Travels(c, "encryption_response")' => Travels(c, "encryption_response"))
  BY <1>1, <1>2, SameLegible
<1>5. call[c] \notin {0, 1, 2}
  <2>1. Begun(c)
    BY <1>3 DEF StreamAt, Quiet, Busy
  <2>2. QED
    BY <2>1 DEF Begun
<1>6. CASE ReactNothing(c)
  <2>1. UNCHANGED <<queue, spawned>>
    BY <1>6 DEF ReactNothing, shared, object
  <2>2. \A i \in 1 .. Len(queue') :
          queue'[i].kind \in InPlay \/ (queue'[i].kind = "chat" /\ ~hasty'[c])
            => reactor[c] = "playing"
    BY <1>1, <1>2, <2>1 DEF Playing
  <2>3. QED
    BY <1>1, <1>2, <1>3, <1>4, <2>1, <2>2, SameMail, Settled
<1>7. CASE ReactKeepAlive(c) \/ ReactPosition(c) \/ ReactResponse(c)
  <2> DEFINE Fitting(k) == /\ k \in InPlay => reactor[c] = "playing"
                           /\ k = "ping" => stage[c] = "status"
  <2>1. \E k \in InPlay \cup {"ping"}, a \in Nat : Enqueue(c, k, a) /\ Fitting(k)
    <3>1. CASE ReactKeepAlive(c) \/ ReactPosition(c)
      <4>1. reactor[c] = "playing" /\ pkt[c].arg \in Nat
        BY <3>1 DEF ReactKeepAlive, ReactPosition, TypeOK, ThreadType
      <4>2. \E k \in InPlay, a \in Nat : Enqueue(c, k, a)
        BY <3>1, <4>1 DEF ReactKeepAlive, ReactPosition, InPlay
      <4>3. "ping" \notin InPlay
        BY DEF InPlay
      <4>4. QED
        BY <4>1, <4>2, <4>3
    <3>2. CASE ReactResponse(c)
      <4>1. stage[c] = "status" /\ Enqueue(c, "ping", 0)
        BY <1>2, <1>3, <3>2, InHand DEF ReactResponse, Reacting
      <4>2. "ping" \notin InPlay
        BY DEF InPlay
      <4>3. QED
        BY <4>1, <4>2
    <3>3. QED
      BY <1>7, <3>1, <3>2
  <2>2. PICK k \in InPlay \cup {"ping"}, a \in Nat : Enqueue(c, k, a) /\ Fitting(k)
    BY <2>1
  <2>3. k \in Serverbound /\ k \notin {"chat", "handshake", First(c), "encryption_response"}
    BY DEF InPlay, Serverbound, First
  <2>4. spawned'[c] => spawned[c] \/ reactor[c] = "playing"
    BY <1>7 DEF ReactKeepAlive, ReactPosition, ReactResponse, object
  <2>5. k \in Due(c) \cup {"chat"}
    <3>1. k \in InPlay => stage[c] = "play"
      BY <1>2, <2>2 DEF Playing
    <3>2. QED
      BY <2>2, <3>1, Stage
  <2>6. Wanted(c)' /\ Ordered(c)'
    BY <1>1, <1>2, <1>5, <2>3, <2>5, <2>2, EnqueueMail
  <2>7. \A i \in 1 .. Len(queue') :
          queue'[i].kind \in InPlay \/ (queue'[i].kind = "chat" /\ ~hasty'[c])
            => reactor[c] = "playing"
    <3> DEFINE p == [kind |-> k, arg |-> a, via |-> c]
    <3>1. p \in Packet /\ p.kind = k /\ queue' = Append(queue, p) /\ queue \in Seq(Packet)
      BY <2>3, <2>2 DEF Packet, Enqueue, TypeOK, SharedType
    <3> HIDE DEF p
    <3>2. /\ \A i \in 1 .. Len(queue) : queue'[i] = queue[i]
          /\ \A i \in 1 .. Len(queue') : queue'[i].kind = k \/ i \in 1 .. Len(queue)
      BY <3>1, Grown
    <3>3. QED
      BY <1>1, <1>2, <2>3, <2>2, <3>2 DEF Playing
  <2>8. QED
    BY <1>1, <1>2, <1>3, <1>4, <2>4, <2>6, <2>7, Settled
<1>8. QED
  BY <1>6, <1>7

\* The answer to an encryption request is forced out while the server waits for it.
LEMMA Forcing ==
  ASSUME TypeOK, NEW c \in Conns, Asked(c), Answered(c), stage[c] # "closed",
         netpc[c] \in {"forcing", "swapping"}
  PROVE  /\ stage[c] \in {"key", "ready", "play"}
         /\ netpc[c] = "forcing" => stage[c] = "key"
         /\ stage[c] = "key" => s2c[c] = <<>>
<1>1. Busy(c)
  BY DEF Busy
<1>2. stage[c] \in {"key", "ready", "play"}
  BY <1>1, Stage DEF Asked, Stages
<1>3. QED
  BY <1>1, <1>2 DEF Asked, Answered

\* The login goes on with the key exchange.
LEMMA KeyServed ==
  ASSUME TypeOK, NEW c \in Conns, ServedAt(c), StreamAt(c), stage[c] # "closed",
         ReactKey(c) \/ NetForce(c) \/ NetSwap(c)
  PROVE  ServedAt(c)'
<1>1. Wanted(c) /\ Ordered(c) /\ Legible(c) /\ Playing(c) /\ Asked(c) /\ Answered(c)
  BY DEF ServedAt
<1>2. CASE ReactKey(c)
  <2>1. UNCHANGED <<c2s, cipher>> /\ netpc'[c] \in {"forcing", "dead"} /\ netpc[c] = "reacting"
    BY <1>2 DEF ReactKey, Reacting, object, TypeOK, ThreadType
  <2>2. UNCHANGED <<queue, s2c, mode, stage, call, senc, scomp, hasty, compressed, reactor,
                  spawned, pkt>>
    BY <1>2 DEF ReactKey, object, shared, caller, server
  <2>3. stage[c] = "key" /\ s2c[c] = <<>>
    <3>1. stage[c] = "key"
      BY <1>1, <1>2, <2>1, InHand DEF ReactKey, Reacting
    <3>2. Busy(c)
      BY <2>1 DEF Busy
    <3>3. QED
      BY <1>1, <3>1, <3>2 DEF Asked
  <2>4. Wanted(c)' /\ Ordered(c)' /\ Legible(c)'
    BY <1>1, <2>1, <2>2, SameMail, SameLegible
  <2>5. Playing(c)'
    BY <1>1, <2>1, <2>2, <2>3 DEF Playing
  <2>6. Asked(c)'
    <3>1. Travels(c, "encryption_response")' <=> Travels(c, "encryption_response")
      BY <2>1 DEF Travels
    <3>2. QED
      BY <1>1, <2>1, <2>2, <2>3, <3>1 DEF Asked
  <2>7. Answered(c)'
    BY <2>2, <2>3 DEF Answered
  <2>8. QED
    BY <2>4, <2>5, <2>6, <2>7 DEF ServedAt
<1>3. CASE NetForce(c)
  <2> DEFINE p == [kind |-> "encryption_response", arg |-> 0, via |-> c]
  <2>1. /\ Transmit(c, p) /\ netpc'[c] = "swapping" /\ netpc[c] = "forcing"
        /\ UNCHANGED <<queue, s2c, mode, stage, call, senc, scomp, hasty, compressed, reactor,
                  spawned, pkt, cipher>>
    BY <1>3 DEF NetForce, SendRaises, Encodes, object, caller, server, TypeOK, ThreadType
  <2>2. p \in Packet /\ p.kind = "encryption_response"
    BY DEF Packet, Serverbound
  <2> HIDE DEF p
  <2>3. /\ stage[c] = "key" /\ s2c[c] = <<>> /\ ~cipher[c] /\ ~compressed /\ ~senc[c]
        /\ ~scomp[c] /\ ~Travels(c, "encryption_response")
    <3>1. stage[c] = "key" /\ s2c[c] = <<>>
      BY <1>1, <2>1, Forcing
    <3>2. QED
      BY <1>1, <2>1, <3>1 DEF Asked
  <2>4. call[c] \notin {0, 1, 2}
    BY <2>1 DEF StreamAt, Quiet, Busy, Begun
  <2>5. Wanted(c)' /\ Ordered(c)'
    BY <1>1, <2>1, <2>2, <2>3, <2>4, ForceMail
  <2>6. /\ \A i \in 1 .. Len(c2s[c]) : c2s'[c][i] = c2s[c][i]
        /\ \A i \in 1 .. Len(c2s'[c]) :
              \/ i \in 1 .. Len(c2s[c])
              \/ /\ i = Len(c2s'[c]) /\ c2s'[c][i].kind = p.kind
                 /\ c2s'[c][i].enc = cipher[c] /\ c2s'[c][i].cmp = compressed
    BY <2>1, <2>2, Leaves
  <2>7. cipher[c] = senc[c] /\ compressed = scomp[c]
    BY <2>3 DEF TypeOK, ObjectType, SharedType, ServerType
  <2>8. Legible(c)'
    BY <1>1, <2>1, <2>2, <2>6, <2>7 DEF Legible
  <2>9. Playing(c)'
    BY <1>1, <2>1, <2>3 DEF Playing
  <2>10. Asked(c)'
    BY <1>1, <2>1, <2>3 DEF Asked
  <2>11. Answered(c)'
    BY <2>1, <2>3 DEF Answered
  <2>12. QED
    BY <2>5, <2>8, <2>9, <2>10, <2>11 DEF ServedAt
<1>4. CASE NetSwap(c)
  <2>1. /\ UNCHANGED <<queue, c2s, s2c, mode, stage, call, senc, scomp, hasty, compressed,
                       reactor, spawned>>
        /\ netpc[c] = "swapping" /\ netpc'[c] \in {"top", "select"}
    BY <1>4, Continues DEF NetSwap, shared, caller, server
  <2>2. stage[c] \in {"key", "ready", "play"} /\ (stage[c] = "key" => s2c[c] = <<>>)
    BY <1>1, <2>1, Forcing
  <2>3. Wanted(c)' /\ Ordered(c)' /\ Legible(c)'
    BY <1>1, <2>1, SameMail, SameLegible
  <2>4. Playing(c)'
    BY <1>1, <2>1 DEF Playing
  <2>5. Asked(c)'
    BY <1>1, <2>1, <2>2 DEF Asked
  <2>6. Answered(c)'
    BY <1>1, <2>1 DEF Answered
  <2>7. QED
    BY <2>3, <2>4, <2>5, <2>6 DEF ServedAt
<1>5. QED
  BY <1>2, <1>3, <1>4

\* The reactor or the framing changes.
LEMMA LoginServed ==
  ASSUME TypeOK, NEW c \in Conns, ServedAt(c), stage[c] # "closed",
         ReactSuccess(c) \/ ReactCompression(c)
  PROVE  ServedAt(c)'
<1>1. /\ UNCHANGED <<queue, c2s, s2c, mode, stage, call, senc, scomp, hasty, cipher, spawned>>
      /\ netpc[c] = "reacting" /\ netpc'[c] \in {"top", "select"}
  BY Continues DEF ReactSuccess, ReactCompression, Reacting, shared, object, caller, server
<1>2. Wanted(c) /\ Ordered(c) /\ Legible(c) /\ Playing(c) /\ Asked(c) /\ Answered(c)
  BY DEF ServedAt
<1>3. Wanted(c)' /\ Ordered(c)' /\ Legible(c)'
  BY <1>1, <1>2, SameMail, SameLegible
<1>4. stage[c] \in {"ready", "play"} /\ Playing(c)'
  <2>1. CASE ReactSuccess(c)
    <3>1. stage[c] = "play" /\ Tuned(c) /\ reactor'[c] = "playing" /\ UNCHANGED compressed
      BY <1>1, <1>2, <2>1, InHand DEF ReactSuccess, Reacting, shared, TypeOK, ObjectType
    <3>2. QED
      BY <1>1, <1>2, <3>1 DEF Playing, Tuned
  <2>2. CASE ReactCompression(c)
    <3>1. stage[c] \in {"ready", "play"} /\ reactor[c] = "login" /\ UNCHANGED reactor
      BY <1>1, <1>2, <2>2, InHand DEF ReactCompression, Reacting, object
    <3>2. QED
      BY <1>1, <1>2, <3>1 DEF Playing
  <2>3. QED
    BY <2>1, <2>2
<1>5. Asked(c)'
  BY <1>1, <1>4 DEF Asked
<1>6. Answered(c)'
  BY <1>1, <1>2 DEF Answered
<1>7. QED
  BY <1>3, <1>4, <1>5, <1>6 DEF ServedAt

\* A step of the thread.
LEMMA NetworkServed ==
  ASSUME TypeOK, NEW c \in Conns, ServedAt(c), StreamAt(c), stage[c] # "closed",
         Network(c), netpc'[c] # "garbled"
  PROVE  ServedAt(c)'
BY WaitingServed, PopServed, PopRaisesServed, ReadServed, AnswerServed, KeyServed, LoginServed
   DEF Network, React
-----------------------------------------------------------------------------
(* Steps of the application *)

\* A step of the application that leaves the wire, the server and the settings alone.
LEMMA Written ==
  ASSUME TypeOK, NEW c \in Conns, Wanted(c)', Ordered(c)', Legible(c), Playing(c),
         Asked(c), Answered(c), stage[c] # "closed",
         UNCHANGED <<c2s, s2c, senc, scomp, cipher, compressed, spawned, pkt, stage>>,
         hasty[c] => hasty'[c],
         netpc'[c] = netpc[c] \/ (~Busy(c) /\ netpc'[c] = "top"),
         reactor'[c] # reactor[c] => reactor[c] # "playing" /\ reactor'[c] # "playing" /\ ~Busy(c),
         \A i \in 1 .. Len(queue') :
           queue'[i].kind \in InPlay \/ (queue'[i].kind = "chat" /\ ~hasty'[c])
             => reactor'[c] = "playing"
  PROVE  ServedAt(c)'
<1>1. Legible(c)'
  BY DEF Legible
<1>2. Playing(c)'
  BY DEF Playing, Tuned
<1>3. Asked(c)'
  <2>1. /\ Travels(c, "encryption_response")' <=> Travels(c, "encryption_response")
        /\ netpc'[c] = netpc[c] \/ netpc'[c] = "top"
        /\ Busy(c)' => Busy(c)
    BY DEF Travels, Busy
  <2>2. QED
    BY <2>1 DEF Asked, Clean
<1>4. Answered(c)'
  BY DEF Answered, Tuned, Busy
<1>5. QED
  BY <1>1, <1>2, <1>3, <1>4 DEF ServedAt

\* The call constructs the connection, or goes on without a packet.
LEMMA CallServed ==
  ASSUME TypeOK, NEW c \in Conns, ServedAt(c), StreamAt(c), stage[c] # "closed",
         New(c) \/ SetReactor(c) \/ StartThread(c)
  PROVE  ServedAt(c)'
<1>1. /\ UNCHANGED <<queue, c2s, s2c, senc, scomp, cipher, compressed, spawned, pkt, stage,
                     mode, hasty>>
      /\ call' = [call EXCEPT ![c] = @ + 1]
  BY DEF New, SetReactor, StartThread, shared, object, thread, server, Does
<1>2. Wanted(c) /\ Ordered(c) /\ Legible(c) /\ Playing(c) /\ Asked(c) /\ Answered(c)
  BY DEF ServedAt
<1>3. call \in [Conns -> 0 .. 6] /\ call'[c] = call[c] + 1
  BY <1>1 DEF TypeOK, CallerType
<1>4. \/ call[c] = 0 /\ call'[c] = 1 /\ UNCHANGED <<reactor, netpc>>
      \/ /\ call[c] \in {3, 4} /\ call'[c] \in {4, 5}
         /\ \/ netpc'[c] = "top" /\ UNCHANGED reactor
            \/ reactor'[c] \in {"login", "status"} /\ UNCHANGED netpc
  BY <1>3, DoesWhere DEF New, SetReactor, StartThread, object, thread, TypeOK, ObjectType,
     ThreadType
<1>5. ~Busy(c) /\ stage[c] # "play"
  BY <1>4 DEF StreamAt, Quiet, Begun, Early
<1>6. Wanted(c)' /\ Ordered(c)'
  <2>1. CASE call[c] = 0
    BY <1>1, <1>2, <1>4, <2>1 DEF Wanted, Ordered, Due, First, Waits, Travels, Single
  <2>2. CASE call[c] # 0
    BY <1>1, <1>2, <1>4, <2>2, ProgressMail
  <2>3. QED
    BY <2>1, <2>2
<1>7. reactor[c] # "playing" /\ (reactor'[c] = reactor[c] \/ reactor'[c] # "playing")
  BY <1>2, <1>4, <1>5 DEF Playing
<1>8. \A i \in 1 .. Len(queue') :
        queue'[i].kind \in InPlay \/ (queue'[i].kind = "chat" /\ ~hasty'[c])
          => reactor'[c] = "playing"
  BY <1>1, <1>2, <1>7 DEF Playing
<1>9. QED
  BY <1>1, <1>2, <1>4, <1>5, <1>6, <1>7, <1>8, Written

LEMMA OpenServed ==
  ASSUME TypeOK, ScriptInv, NEW c \in Conns, ServedAt(c), StreamAt(c), Open(c)
  PROVE  ServedAt(c)'
<1>1. /\ UNCHANGED <<queue, c2s, s2c, senc, scomp, cipher, compressed, spawned, pkt, netpc,
                     reactor, mode, hasty>>
      /\ Does(c, "open") /\ stage' = [stage EXCEPT ![c] = "handshake"]
  BY DEF Open, Does, shared, thread
<1>2. call[c] = 1 /\ call'[c] = 2 /\ stage[c] = "none" /\ stage'[c] = "handshake"
  <2>1. call[c] = 1 /\ call' = [call EXCEPT ![c] = @ + 1]
    BY <1>1, DoesWhere DEF Does
  <2>2. stage[c] = "none"
    BY <2>1 DEF ScriptInv, ScriptAt
  <2>3. QED
    BY <1>1, <2>1, <2>2 DEF TypeOK, CallerType, ServerType
<1>3. Wanted(c) /\ Ordered(c) /\ Legible(c) /\ Playing(c) /\ Asked(c) /\ Answered(c)
  BY <1>2 DEF ServedAt
<1>4. queue = <<>> /\ c2s[c] = <<>> /\ queue' = <<>> /\ c2s'[c] = <<>>
  BY <1>1, <1>2, <1>3 DEF Ordered
<1>5. Wanted(c)'
  BY <1>4, Bare DEF Wanted, Single, Waits, Travels
<1>6. Ordered(c)'
  BY <1>2, <1>4, Bare DEF Ordered, Waits, Travels
<1>7. Legible(c)'
  BY <1>4, Bare DEF Legible
<1>8. Playing(c)'
  BY <1>1, <1>2, <1>3, <1>4, Bare DEF Playing
<1>9. Asked(c)' /\ Answered(c)'
  BY <1>1, <1>2, <1>3 DEF Asked, Answered, Clean, Busy
<1>10. QED
  BY <1>5, <1>6, <1>7, <1>8, <1>9 DEF ServedAt

\* The call queues one of its two packets.
LEMMA PacketServed ==
  ASSUME TypeOK, NEW c \in Conns, ServedAt(c), StreamAt(c), stage[c] # "closed",
         Handshake(c) \/ FirstPacket(c)
  PROVE  ServedAt(c)'
<1>1. UNCHANGED <<c2s, s2c, senc, scomp, cipher, compressed, spawned, pkt, stage,
                  mode, hasty, netpc, reactor>>
  BY DEF Handshake, FirstPacket, object, thread, server
<1>2. Wanted(c) /\ Ordered(c) /\ Legible(c) /\ Playing(c) /\ Asked(c) /\ Answered(c)
  BY DEF ServedAt
<1>3. /\ Handshake(c) => call[c] = 2 /\ call'[c] = 3
      /\ FirstPacket(c) => call[c] = 5 /\ call'[c] = 6
  BY DoesWhere DEF Handshake, FirstPacket, Does, TypeOK, CallerType
<1>4. /\ Handshake(c) => \E a \in Nat : Enqueue(c, "handshake", a)
      /\ FirstPacket(c) => Enqueue(c, First(c), 0)
  BY DEF Handshake, FirstPacket, First
<1>5. Wanted(c)' /\ Ordered(c)'
  <2>1. CASE Handshake(c)
    BY <1>1, <1>2, <1>3, <1>4, <2>1, HandshakeMail
  <2>2. CASE FirstPacket(c)
    BY <1>1, <1>2, <1>3, <1>4, <2>2, FirstMail DEF StreamAt
  <2>3. QED
    BY <2>1, <2>2
<1>6. \E k \in {"handshake", First(c)}, a \in Nat : Enqueue(c, k, a)
  BY <1>4
<1>7. PICK k \in {"handshake", First(c)}, a \in Nat : Enqueue(c, k, a)
  BY <1>6
<1>8. \A i \in 1 .. Len(queue') :
        queue'[i].kind \in InPlay \/ (queue'[i].kind = "chat" /\ ~hasty'[c])
          => reactor'[c] = "playing"
  <2> DEFINE p == [kind |-> k, arg |-> a, via |-> c]
  <2>1. /\ p \in Packet /\ p.kind = k /\ queue' = Append(queue, p) /\ queue \in Seq(Packet)
        /\ k \notin InPlay \cup {"chat"}
    BY <1>7 DEF Packet, Enqueue, TypeOK, SharedType, First, Serverbound, InPlay
  <2> HIDE DEF p
  <2>2. \A i \in 1 .. Len(queue') :
          queue'[i].kind = k \/ (i \in 1 .. Len(queue) /\ queue'[i] = queue[i])
    BY <2>1, Grown
  <2>3. QED
    BY <1>1, <1>2, <2>1, <2>2 DEF Playing
<1>9. QED
  BY <1>1, <1>2, <1>5, <1>8, Written

\* The application writes a chat, hasty unless the player has spawned.
LEMMA ChatServed ==
  ASSUME TypeOK, NEW c \in Conns, ServedAt(c), stage[c] # "closed", WriteChat(c)
  PROVE  ServedAt(c)'
<1> DEFINE p == [kind |-> "chat", arg |-> written', via |-> c]
<1>1. /\ UNCHANGED <<s2c, senc, scomp, cipher, compressed, spawned, pkt, stage, mode, call,
                     netpc, reactor>>
      /\ hasty'[c] = (hasty[c] \/ ~spawned[c]) /\ written' \in Nat
  BY DEF WriteChat, object, thread, server, TypeOK, CallerType
<1>2. Wanted(c) /\ Ordered(c) /\ Legible(c) /\ Playing(c) /\ Asked(c) /\ Answered(c)
  BY DEF ServedAt
<1>3. call[c] = 6
  BY DoesWhere DEF WriteChat, Returned
<1>4. p \in Packet /\ p.kind = "chat" /\ queue \in Seq(Packet)
  BY <1>1 DEF Packet, Serverbound, TypeOK, SharedType
<1>5. ~hasty'[c] => stage[c] = "play" /\ Tuned(c) /\ reactor[c] = "playing"
  BY <1>1, <1>2 DEF Playing
<1>6. CASE Enqueue(c, "chat", written') /\ UNCHANGED c2s
  <2>1. Wanted(c)' /\ Ordered(c)'
    BY <1>1, <1>2, <1>3, <1>6, EnqueueMail DEF Serverbound, First
  <2>2. queue' = Append(queue, p)
    BY <1>6 DEF Enqueue
  <2> HIDE DEF p
  <2>3. \A i \in 1 .. Len(queue') :
          queue'[i].kind = "chat" \/ (i \in 1 .. Len(queue) /\ queue'[i] = queue[i])
    BY <1>4, <2>2, Grown
  <2>4. \A i \in 1 .. Len(queue') :
          queue'[i].kind \in InPlay \/ (queue'[i].kind = "chat" /\ ~hasty'[c])
            => reactor'[c] = "playing"
    <3>1. "chat" \notin InPlay
      BY DEF InPlay
    <3>2. QED
      BY <1>1, <1>2, <1>5, <2>3, <3>1 DEF Playing
  <2>5. QED
    BY <1>1, <1>2, <1>6, <2>1, <2>4, Written
<1>7. CASE Transmit(c, p) /\ UNCHANGED queue
  <2> HIDE DEF p
  <2>1. Wanted(c)' /\ Ordered(c)'
    BY <1>1, <1>2, <1>3, <1>4, <1>7, ForceMail
  <2>2. /\ \A i \in 1 .. Len(c2s[c]) : c2s'[c][i] = c2s[c][i]
        /\ \A i \in 1 .. Len(c2s'[c]) :
              \/ i \in 1 .. Len(c2s[c])
              \/ /\ i = Len(c2s'[c]) /\ c2s'[c][i].kind = "chat"
                 /\ c2s'[c][i].enc = cipher[c] /\ c2s'[c][i].cmp = compressed
    BY <1>4, <1>7, Leaves
  <2>3. Legible(c)'
    BY <1>1, <1>2, <1>5, <2>2 DEF Legible, Tuned
  <2>4. Playing(c)'
    BY <1>1, <1>2, <1>7 DEF Playing, Tuned
  <2>5. Asked(c)'
    <3>1. Travels(c, "encryption_response")' => Travels(c, "encryption_response")
      BY <2>2 DEF Travels
    <3>2. QED
      BY <1>1, <1>2, <3>1 DEF Asked, Clean, Busy
  <2>6. Answered(c)'
    BY <1>1, <1>2 DEF Answered, Tuned
  <2>7. QED
    BY <2>1, <2>3, <2>4, <2>5, <2>6 DEF ServedAt
<1>8. CASE UNCHANGED <<queue, c2s>>
  <2>1. Wanted(c)' /\ Ordered(c)'
    BY <1>1, <1>2, <1>8, SameMail
  <2>2. \A i \in 1 .. Len(queue') :
          queue'[i].kind \in InPlay \/ (queue'[i].kind = "chat" /\ ~hasty'[c])
            => reactor'[c] = "playing"
    BY <1>1, <1>2, <1>8 DEF Playing
  <2>3. QED
    BY <1>1, <1>2, <1>8, <2>1, <2>2, Written
<1>9. QED
  BY <1>6, <1>7, <1>8 DEF WriteChat, SendRaises

LEMMA ApplicationServed ==
  ASSUME TypeOK, ScriptInv, NEW c \in Conns, ServedAt(c), StreamAt(c), stage[c] # "closed",
         Application(c)
  PROVE  ServedAt(c)'
BY CallServed, OpenServed, PacketServed, ChatServed DEF Application, Call
-----------------------------------------------------------------------------
(* Steps of the server *)

\* What a server sends arrives behind the rest, marked with its settings.
LEMMA Pushed ==
  ASSUME TypeOK, NEW c \in Conns, NEW k \in Clientbound, NEW a \in Nat, Push(c, k, a)
  PROVE  /\ \A i \in 1 .. Len(s2c'[c]) :
              \/ i \in 1 .. Len(s2c[c]) /\ s2c'[c][i] = s2c[c][i]
              \/ /\ s2c'[c][i].kind = k /\ s2c'[c][i].enc = senc[c]
                 /\ s2c'[c][i].cmp = scomp[c] /\ s2c'[c][i].table = TableOf(stage[c])
         /\ s2c[c] = <<>> => Len(s2c'[c]) = 1
<1> DEFINE f == [kind |-> k, arg |-> a, enc |-> senc[c], cmp |-> scomp[c],
                 table |-> TableOf(stage[c])]
           q == s2c[c]
           r == s2c'[c]
<1>1. /\ f \in FrameDown /\ f.kind = k /\ f.enc = senc[c] /\ f.cmp = scomp[c]
      /\ f.table = TableOf(stage[c])
  BY DEF FrameDown, TableOf, Reactors, TypeOK, ServerType
<1>2. s2c' = [s2c EXCEPT ![c] = Append(s2c[c], f)] /\ s2c \in [Conns -> Seq(FrameDown)]
  BY DEF Push, TypeOK, WireType
<1> HIDE DEF f
<1>3. q \in Seq(FrameDown) /\ r = Append(q, f)
  BY <1>2
<1> HIDE DEF q, r
<1>4. /\ Len(r) = Len(q) + 1 /\ r[Len(r)] = f
      /\ \A i \in 1 .. Len(q) : r[i] = q[i]
      /\ \A i \in 1 .. Len(r) : i = Len(r) \/ i \in 1 .. Len(q)
  BY <1>1, <1>3, Grown
<1>5. q = <<>> => Len(r) = 1
  BY <1>4
<1>6. QED
  BY <1>1, <1>4, <1>5 DEF q, r

\* The server takes what has arrived.
LEMMA TakeServed ==
  ASSUME TypeOK, NEW c \in Conns, ServedAt(c), StreamAt(c), ServerTake(c)
  PROVE  ServedAt(c)'
<1> DEFINE f == c2s[c][1]
<1>1. /\ 1 \in 1 .. Len(c2s[c]) /\ Legal(c, f)
      /\ \A i \in 1 .. Len(c2s'[c]) :
           c2s'[c][i] = c2s[c][i + 1] /\ i + 1 \in 1 .. Len(c2s[c]) /\ i + 1 # 1
      /\ \/ /\ stage[c] = "handshake" /\ f.kind = "handshake"
            /\ stage'[c] = IF mode[c] = "connect" THEN "login" ELSE "status"
         \/ stage[c] = "login" /\ f.kind = "login_start" /\ stage'[c] = "greeted"
         \/ stage[c] = "key" /\ f.kind = "encryption_response" /\ stage'[c] = "ready"
         \/ /\ stage[c] \in {"play", "status"} /\ stage'[c] = stage[c]
            /\ stage[c] = "play" => f.kind # "request"
      /\ senc'[c] = (senc[c] \/ stage[c] = "key")
      /\ f.kind # "request" => s2c' = s2c
      /\ f.kind = "request" => Push(c, "response", 0)
  BY Taking DEF StreamAt
<1>2. Travels(c, f.kind)
  BY <1>1 DEF Travels
<1> HIDE DEF f
<1>3. UNCHANGED <<queue, mode, call, scomp, hasty, cipher, compressed, reactor, spawned,
                  netpc, pkt>>
  BY DEF ServerTake, shared, object, caller, thread
<1>4. Wanted(c) /\ Ordered(c) /\ Legible(c) /\ Playing(c) /\ Asked(c) /\ Answered(c)
  BY <1>1 DEF ServedAt
<1>5. Wanted(c)' /\ Ordered(c)'
  BY <1>4, TakeMail DEF StreamAt
<1>6. stage[c] # "key" => senc'[c] = senc[c]
  BY <1>1 DEF TypeOK, ServerType
<1>7. Legible(c)'
  <2>1. CASE stage[c] = "key"
    <3>1. Due(c) = {"encryption_response"} /\ f.kind = "encryption_response"
      BY <1>1, <2>1 DEF Due
    <3>2. \A i \in 1 .. Len(c2s'[c]) : c2s'[c][i].kind = "chat"
      BY <1>1, <1>4, <3>1 DEF Wanted, Single, f
    <3>3. hasty[c] \/ \A i \in 1 .. Len(c2s'[c]) : c2s'[c][i].kind # "chat"
      BY <1>1, <1>4, <2>1 DEF Legible
    <3>4. QED
      BY <1>3, <3>2, <3>3 DEF Legible
  <2>2. CASE stage[c] # "key"
    <3>1. stage[c] = "play" => stage'[c] = "play"
      BY <1>1
    <3>2. QED
      BY <1>1, <1>3, <1>4, <1>6, <2>2, <3>1 DEF Legible
  <2>3. QED
    BY <2>1, <2>2
<1>8. Playing(c)'
  BY <1>1, <1>3, <1>4, <1>6 DEF Playing, Tuned
<1>9. Asked(c)' /\ Answered(c)'
  <2>1. CASE stage[c] = "handshake" \/ stage[c] = "login"
    <3>1. s2c'[c] = <<>> /\ Clean(c)' /\ ~Busy(c)' /\ Len(s2c'[c]) = 0
      BY <1>1, <1>3, <1>4, <1>6, <2>1 DEF Asked, Clean, Busy
    <3>2. stage'[c] \in {"login", "status", "greeted"}
      BY <1>1, <2>1
    <3>3. QED
      BY <3>1, <3>2 DEF Asked, Answered
  <2>2. CASE stage[c] = "key"
    <3>1. s2c' = s2c /\ stage'[c] = "ready" /\ Travels(c, "encryption_response")
      BY <1>1, <1>2, <2>2
    <3>2. s2c[c] = <<>> /\ netpc[c] \notin {"reacting", "forcing"}
      BY <1>4, <2>2, <3>1 DEF Asked
    <3>3. s2c'[c] = <<>> /\ Len(s2c'[c]) = 0
      BY <3>1, <3>2
    <3>4. QED
      BY <1>3, <3>1, <3>2, <3>3 DEF Asked, Answered
  <2>3. CASE stage[c] = "status"
    <3>1. stage'[c] = "status" /\ senc'[c] = senc[c]
      BY <1>1, <1>6, <2>3
    <3>2. \A i \in 1 .. Len(s2c'[c]) : s2c'[c][i].kind = "response"
      <4>1. CASE f.kind = "request"
        <5>1. Push(c, "response", 0) /\ "response" \in Clientbound
          BY <1>1, <4>1 DEF Clientbound
        <5>2. QED
          BY <1>4, <2>3, <5>1, Pushed DEF Asked
      <4>2. CASE f.kind # "request"
        BY <1>1, <1>4, <2>3, <4>2 DEF Asked
      <4>3. QED
        BY <4>1, <4>2
    <3>3. QED
      BY <1>3, <1>4, <2>3, <3>1, <3>2 DEF Asked, Answered, Clean, Busy
  <2>4. CASE stage[c] = "play"
    <3>1. stage'[c] = "play" /\ senc'[c] = senc[c] /\ s2c' = s2c
      BY <1>1, <1>6, <2>4
    <3>2. QED
      BY <1>3, <1>4, <2>4, <3>1 DEF Asked, Answered, Tuned
  <2>5. QED
    BY <1>1, <2>1, <2>2, <2>3, <2>4
<1>10. QED
  BY <1>5, <1>7, <1>8, <1>9 DEF ServedAt

\* The server goes on with the login.
LEMMA GreetServed ==
  ASSUME TypeOK, NEW c \in Conns, ServedAt(c), ServerLogin(c)
  PROVE  ServedAt(c)'
<1>1. UNCHANGED <<queue, c2s, mode, call, senc, hasty, cipher, compressed, reactor, spawned,
                  netpc, pkt>>
  BY DEF ServerLogin, shared, object, caller, thread
<1>2. \/ /\ stage[c] = "greeted" /\ Push(c, "encryption_request", 0)
         /\ stage'[c] = "key" /\ UNCHANGED scomp
      \/ /\ stage[c] \in {"greeted", "ready"} /\ Push(c, "set_compression", 0)
         /\ stage'[c] = "ready"
      \/ /\ stage[c] \in {"greeted", "ready"} /\ Push(c, "login_success", 0)
         /\ stage'[c] = "play" /\ UNCHANGED scomp
  BY DEF ServerLogin, TypeOK, ServerType
<1>3. Wanted(c) /\ Ordered(c) /\ Legible(c) /\ Playing(c) /\ Asked(c) /\ Answered(c)
  BY <1>2 DEF ServedAt
<1>4. Wanted(c)' /\ Ordered(c)'
  BY <1>1, <1>2, <1>3, LoginMail
<1>5. Legible(c)'
  <2>1. Due(c) = {}
    BY <1>2 DEF Due
  <2>2. \A i \in 1 .. Len(c2s[c]) : c2s[c][i].kind = "chat"
    BY <1>3, <2>1 DEF Wanted
  <2>3. \A i \in 1 .. Len(c2s[c]) : hasty[c]
    BY <1>2, <1>3, <2>2 DEF Legible
  <2>4. QED
    BY <1>1, <2>2, <2>3 DEF Legible
<1>6. Playing(c)'
  BY <1>1, <1>2, <1>3 DEF Playing
<1>7. TableOf(stage[c]) = "login"
  BY <1>2 DEF TableOf
<1>8. Asked(c)' /\ Answered(c)'
  <2>1. CASE Push(c, "encryption_request", 0) /\ stage[c] = "greeted" /\ stage'[c] = "key"
             /\ UNCHANGED scomp
    <3>1. s2c[c] = <<>> /\ Clean(c) /\ ~Busy(c)
      BY <1>3, <2>1 DEF Asked
    <3>2. Len(s2c'[c]) = 1 /\ \A i \in 1 .. Len(s2c'[c]) : s2c'[c][i].kind = "encryption_request"
      <4>1. "encryption_request" \in Clientbound /\ Len(s2c[c]) = 0
        BY <3>1 DEF Clientbound
      <4>2. QED
        BY <2>1, <3>1, <4>1, Pushed
    <3>3. ~Travels(c, "encryption_response")'
      <4>1. Due(c) = {}
        BY <2>1 DEF Due
      <4>2. QED
        BY <1>1, <1>3, <4>1 DEF Wanted, Travels
    <3>4. QED
      BY <1>1, <2>1, <3>1, <3>2, <3>3 DEF Asked, Answered, Clean, Busy
  <2>2. ASSUME NEW k \in {"set_compression", "login_success"}, Push(c, k, 0),
               stage[c] \in {"greeted", "ready"},
               \/ k = "set_compression" /\ stage'[c] = "ready"
               \/ k = "login_success" /\ stage'[c] = "play" /\ UNCHANGED scomp
        PROVE  Asked(c)' /\ Answered(c)'
    <3>1. \A i \in 1 .. Len(s2c[c]) : /\ s2c[c][i].kind = "set_compression"
                                       /\ s2c[c][i].table = "login"
      BY <1>3, <2>2, Bare DEF Asked, Answered
    <3>2. /\ netpc[c] # "forcing"
          /\ netpc[c] = "reacting" => pkt[c].kind = "set_compression" /\ reactor[c] = "login"
      BY <1>3, <2>2 DEF Asked, Answered, Busy
    <3>3. k \in Clientbound
      BY DEF Clientbound
    <3>4. \A i \in 1 .. Len(s2c'[c]) :
            \/ s2c'[c][i].kind = "set_compression" /\ s2c'[c][i].table = "login"
            \/ /\ s2c'[c][i].kind = k /\ s2c'[c][i].enc = senc[c]
               /\ s2c'[c][i].cmp = scomp[c] /\ s2c'[c][i].table = "login"
      BY <1>7, <2>2, <3>1, <3>3, Pushed
    <3>5. QED
      BY <1>1, <2>2, <3>2, <3>4 DEF Asked, Answered
  <2>3. QED
    BY <1>2, <2>1, <2>2
<1>9. QED
  BY <1>4, <1>5, <1>6, <1>8 DEF ServedAt

\* The server sends game traffic.
LEMMA GameServed ==
  ASSUME TypeOK, NEW c \in Conns, ServedAt(c),
         ServerKeepAlive(c) \/ ServerPosition(c) \/ ServerOther(c)
  PROVE  ServedAt(c)'
<1>1. /\ UNCHANGED <<queue, c2s, mode, call, senc, scomp, stage, hasty, cipher, compressed,
                     reactor, spawned, netpc, pkt>>
      /\ stage[c] = "play"
  BY DEF ServerKeepAlive, ServerPosition, ServerOther, shared, object, caller, thread, server
<1>2. Wanted(c) /\ Ordered(c) /\ Legible(c) /\ Playing(c) /\ Asked(c) /\ Answered(c)
  BY <1>1 DEF ServedAt
<1>3. \E k \in {"keep_alive", "player_position_and_look", "other"}, a \in Nat : Push(c, k, a)
  BY DEF ServerKeepAlive, ServerPosition, ServerOther, TypeOK, ServerType
<1>4. PICK k \in {"keep_alive", "player_position_and_look", "other"}, a \in Nat : Push(c, k, a)
  BY <1>3
<1>5. \A i \in 1 .. Len(s2c'[c]) :
        \/ i \in 1 .. Len(s2c[c]) /\ s2c'[c][i] = s2c[c][i]
        \/ s2c'[c][i].kind = k /\ s2c'[c][i].enc = senc[c] /\ s2c'[c][i].cmp = scomp[c]
  BY <1>4, Pushed DEF Clientbound
<1>6. Wanted(c)' /\ Ordered(c)' /\ Legible(c)'
  BY <1>1, <1>2, SameMail, SameLegible
<1>7. Playing(c)' /\ Asked(c)'
  BY <1>1, <1>2 DEF Playing, Asked, Tuned
<1>8. Answered(c)'
  BY <1>1, <1>2, <1>5 DEF Answered, Tuned
<1>9. QED
  BY <1>6, <1>7, <1>8 DEF ServedAt

LEMMA ServerServed ==
  ASSUME TypeOK, NEW c \in Conns, ServedAt(c), StreamAt(c), Server(c)
  PROVE  ServedAt(c)'
<1>1. CASE ServerReject(c) \/ ServerClose(c)
  BY <1>1 DEF ServerReject, ServerClose, ServedAt, TypeOK, ServerType
<1>2. QED
  BY <1>1, TakeServed, GreetServed, GameServed DEF Server
-----------------------------------------------------------------------------
(* The theorem *)

LEMMA InitServed == Init => ServedInv
<1> SUFFICES ASSUME Init, NEW c \in Conns PROVE ServedAt(c)
  BY DEF ServedInv
<1>1. /\ queue = <<>> /\ c2s[c] = <<>> /\ s2c[c] = <<>> /\ stage[c] = "none"
      /\ call[c] = 0 /\ netpc[c] = "none" /\ reactor[c] = "base" /\ ~spawned[c]
      /\ ~cipher[c] /\ ~compressed /\ ~senc[c] /\ ~scomp[c]
  BY DEF Init
<1>2. Wanted(c) /\ Ordered(c)
  BY <1>1, Bare DEF Wanted, Ordered, Waits, Travels, Single
<1>3. Legible(c) /\ Playing(c)
  BY <1>1, Bare DEF Legible, Playing
<1>4. Asked(c) /\ Answered(c)
  BY <1>1 DEF Asked, Answered, Clean, Busy
<1>5. QED
  BY <1>2, <1>3, <1>4 DEF ServedAt

LEMMA StepServed ==
  ASSUME OneConnection
  PROVE  /\ TypeOK /\ ScriptInv /\ StreamInv /\ StreamInv' /\ ServedInv /\ [Next]_vars
         => ServedInv'
<1> SUFFICES ASSUME TypeOK, ScriptInv, StreamInv, StreamInv', ServedInv, [Next]_vars,
                    NEW c \in Conns
             PROVE  ServedAt(c)'
  BY DEF ServedInv
<1>1. ServedAt(c) /\ StreamAt(c) /\ netpc'[c] # "garbled"
  BY DEF ServedInv, StreamInv, StreamAt, Reading
<1>2. CASE stage[c] = "closed"
  BY <1>2, ClosedStays DEF ServedAt
<1>3. CASE UNCHANGED vars
  BY <1>1, <1>3 DEF vars, shared, object, caller, thread, server, ServedAt, Wanted, Ordered,
     Legible, Playing, Asked, Answered, Due, First, Waits, Travels, Single, Tuned, Clean, Busy
<1>4. CASE stage[c] # "closed" /\ Next
  <2>1. Application(c) \/ Network(c) \/ Server(c)
    BY <1>4 DEF Next, OneConnection
  <2>2. QED
    BY <1>1, <1>4, <2>1, ApplicationServed, NetworkServed, ServerServed
<1>5. QED
  BY <1>2, <1>3, <1>4

\* What a server cannot take is a hasty chat.
LEMMA Rejected ==
  ASSUME TypeOK, NEW c \in Conns, ServedAt(c), ServerReject(c)
  PROVE  c2s[c][1].kind = "chat" /\ hasty[c] /\ verdict'[c] = "chat"
<1> DEFINE f == c2s[c][1]
<1>1. /\ stage[c] # "closed" /\ c2s[c] # <<>> /\ c2s[c] \in Seq(FrameUp)
      /\ f = Head(c2s[c]) /\ ~Legal(c, f) /\ verdict'[c] = f.kind
  BY DEF ServerReject, TypeOK, WireType, ServerType
<1>2. 1 \in 1 .. Len(c2s[c]) /\ \A j \in 1 .. 1 - 1 : FALSE
  BY <1>1
<1>3. Wanted(c) /\ Ordered(c) /\ Legible(c)
  BY <1>1 DEF ServedAt
<1>4. /\ f.kind # "chat" \/ ~hasty[c] => f.enc = senc[c] /\ f.cmp = scomp[c]
      /\ f.kind = "chat" /\ ~hasty[c] => stage[c] = "play"
      /\ f.kind \in Due(c) \cup {"chat"}
      /\ stage[c] = "handshake" => f.kind # First(c)
  BY <1>2, <1>3 DEF Legible, Wanted, Ordered
<1> HIDE DEF f
<1>5. f.kind # "chat" => f.kind \in Takes(stage[c])
  BY <1>4, Stage DEF Takes, InPlay, Stages
<1>6. stage[c] = "play" => "chat" \in Takes(stage[c])
  BY DEF Takes
<1>7. f.kind = "chat" /\ hasty[c]
  BY <1>1, <1>4, <1>5, <1>6 DEF Legal
<1>8. QED
  BY <1>1, <1>7 DEF f

LEMMA StepRejected ==
  ASSUME OneConnection
  PROVE  TypeOK /\ ServedInv /\ RejectedOnlyIfHasty /\ [Next]_vars => RejectedOnlyIfHasty'
<1> SUFFICES ASSUME TypeOK, ServedInv, RejectedOnlyIfHasty, [Next]_vars,
                    NEW c \in Conns, verdict'[c] # "none"
             PROVE  verdict'[c] = "chat" /\ hasty'[c]
  BY DEF RejectedOnlyIfHasty
<1>1. CASE UNCHANGED vars
  BY <1>1 DEF vars, caller, server, RejectedOnlyIfHasty
<1>2. CASE Application(c)
  <2>1. verdict' = verdict /\ (hasty[c] => hasty'[c])
    BY <1>2 DEF Application, Call, New, Open, Handshake, SetReactor, StartThread, FirstPacket,
       WriteChat, server, TypeOK, CallerType
  <2>2. QED
    BY <2>1 DEF RejectedOnlyIfHasty
<1>3. CASE Network(c)
  <2>1. verdict' = verdict /\ hasty' = hasty
    BY <1>3 DEF Network, NetTop, NetLock, NetDrained, NetPop, NetPopRaises, NetSelect,
       NetTimeout, NetEof, NetSpin, NetRead, React, ReactKey, NetForce, NetSwap, ReactSuccess,
       ReactCompression, ReactKeepAlive, ReactPosition, ReactResponse, ReactNothing, caller,
       server
  <2>2. QED
    BY <2>1 DEF RejectedOnlyIfHasty
<1>4. CASE Server(c) /\ ~ServerReject(c)
  <2>1. verdict' = verdict /\ hasty' = hasty
    BY <1>4 DEF Server, ServerTake, ServerLogin, ServerKeepAlive, ServerPosition, ServerOther,
       ServerClose, caller, server
  <2>2. QED
    BY <2>1 DEF RejectedOnlyIfHasty
<1>5. CASE ServerReject(c)
  <2>1. hasty' = hasty
    BY <1>5 DEF ServerReject, caller
  <2>2. QED
    BY <1>5, <2>1, Rejected DEF ServedInv
<1>6. QED
  BY <1>1, <1>2, <1>3, <1>4, <1>5 DEF Next, OneConnection

\* With one connection in the process, a server never drops it for a packet of the
\* library's own, whatever the server sends in its login and in the game, however
\* the threads interleave and whatever the batch sizes; nor for a chat, as long as
\* the application writes none before the player has spawned.
THEOREM RejectsOnlyHasty == ASSUME OneConnection PROVE Spec => []RejectedOnlyIfHasty
<1>1. Init => RejectedOnlyIfHasty
  BY DEF Init, RejectedOnlyIfHasty
<1>2. TypeOK /\ ScriptInv /\ StreamInv /\ [Next]_vars => StreamInv'
  BY StepStream
<1>3. TypeOK /\ ScriptInv /\ StreamInv /\ StreamInv' /\ ServedInv /\ [Next]_vars => ServedInv'
  BY StepServed
<1>4. TypeOK /\ ServedInv /\ RejectedOnlyIfHasty /\ [Next]_vars => RejectedOnlyIfHasty'
  BY StepRejected
<1>5. QED
  BY <1>1, <1>2, <1>3, <1>4, InitType, StepType, InitScript, StepScript, InitStream,
     InitServed, PTL DEF Spec
-----------------------------------------------------------------------------
(* The arguments of the packets of one kind *)

\* Concatenation, kept opaque where only its laws matter.
Cat(s, t) == s \o t

LEMMA CatIs ==
  /\ \A s, t \in Seq(Nat) : Cat(s, t) \in Seq(Nat)
  /\ \A s, t, u \in Seq(Nat) : Cat(s, Cat(t, u)) = Cat(Cat(s, t), u)
<1>1. \A s, t \in Seq(Nat) : Cat(s, t) \in Seq(Nat)
  BY DEF Cat
<1>2. ASSUME NEW s \in Seq(Nat), NEW t \in Seq(Nat), NEW u \in Seq(Nat)
      PROVE  Cat(s, Cat(t, u)) = Cat(Cat(s, t), u)
  <2>1. s \o (t \o u) = (s \o t) \o u
    OBVIOUS
  <2>2. QED
    BY <2>1, Zenon DEF Cat
<1>3. QED
  BY <1>1, <1>2

LEMMA Rebracket ==
  ASSUME NEW p \in Seq(Nat), NEW q \in Seq(Nat), NEW r \in Seq(Nat)
  PROVE  p \o (q \o r) = (p \o q) \o r /\ p \o q \in Seq(Nat)
<1>1. Cat(p, Cat(q, r)) = Cat(Cat(p, q), r) /\ Cat(p, q) \in Seq(Nat)
  BY CatIs
<1>2. QED
  BY <1>1, Zenon DEF Cat

LEMMA ArgsEmpty == \A k : ArgsOf(k, <<>>) = <<>>
<1> SUFFICES ASSUME NEW k PROVE ArgsOf(k, <<>>) = <<>>
  OBVIOUS
<1> DEFINE m == [i \in 1 .. Len(<<>>) |-> IF (<<>>)[i].kind = k THEN <<(<<>>)[i].arg>> ELSE <<>>]
<1>1. m = <<>>
  OBVIOUS
<1>2. ArgsOf(k, <<>>) = FlattenSeq(m)
  BY DEF ArgsOf
<1> HIDE DEF m
<1>3. QED
  BY <1>1, <1>2, FlattenEmpty

\* What one packet more at the end changes, and what the first one contributes.
Arg(k, p) == IF p.kind = k THEN <<p.arg>> ELSE <<>>

LEMMA ArgsAre ==
  ASSUME NEW P, \A p \in P : p.arg \in Nat, NEW s \in Seq(P), NEW k
  PROVE  /\ [i \in 1 .. Len(s) |-> Arg(k, s[i])] \in Seq(Seq(Nat))
         /\ Len([i \in 1 .. Len(s) |-> Arg(k, s[i])]) = Len(s)
         /\ ArgsOf(k, s) = FlattenSeq([i \in 1 .. Len(s) |-> Arg(k, s[i])])
         /\ ArgsOf(k, s) \in Seq(Nat)
<1> DEFINE m == [i \in 1 .. Len(s) |-> Arg(k, s[i])]
<1>1. \A i \in 1 .. Len(s) : Arg(k, s[i]) \in Seq(Nat)
  BY DEF Arg
<1>2. m \in Seq(Seq(Nat)) /\ Len(m) = Len(s)
  BY <1>1
<1>3. ArgsOf(k, s) = FlattenSeq(m)
  BY DEF ArgsOf, Arg
<1> HIDE DEF m
<1>4. FlattenSeq(m) \in Seq(Nat)
  BY <1>2, FlattenType
<1>5. QED
  BY <1>2, <1>3, <1>4 DEF m

LEMMA ArgsAppend ==
  ASSUME NEW P, \A p \in P : p.arg \in Nat, NEW s \in Seq(P), NEW p \in P, NEW k
  PROVE  ArgsOf(k, Append(s, p)) = ArgsOf(k, s) \o Arg(k, p)
<1> DEFINE r == Append(s, p)
           m == [i \in 1 .. Len(s) |-> Arg(k, s[i])]
           l == [i \in 1 .. Len(r) |-> Arg(k, r[i])]
<1>1. /\ r \in Seq(P) /\ Len(r) = Len(s) + 1 /\ r[Len(s) + 1] = p
      /\ \A i \in 1 .. Len(s) : r[i] = s[i]
  OBVIOUS
<1> HIDE DEF r
<1>2. m \in Seq(Seq(Nat)) /\ Len(m) = Len(s) /\ ArgsOf(k, s) = FlattenSeq(m)
  BY ArgsAre
<1>3. l \in Seq(Seq(Nat)) /\ Len(l) = Len(r) /\ ArgsOf(k, r) = FlattenSeq(l)
  BY <1>1, ArgsAre
<1>4. Arg(k, p) \in Seq(Nat)
  BY DEF Arg
<1>5. l = Append(m, Arg(k, p))
  <2>1. \A i \in 1 .. Len(s) : l[i] = m[i]
    BY <1>1
  <2>2. l[Len(s) + 1] = Arg(k, p)
    BY <1>1
  <2> DEFINE a == Arg(k, p)
  <2> HIDE DEF l, m, a
  <2>3. Append(m, a) \in Seq(Seq(Nat)) /\ Len(Append(m, a)) = Len(l)
        /\ \A i \in 1 .. Len(l) : Append(m, a)[i] = l[i]
    BY <1>1, <1>2, <1>3, <1>4, <2>1, <2>2, AppendProperties DEF a
  <2> DEFINE R == Seq(Nat)
             t == Append(m, a)
  <2>4. l \in Seq(R) /\ t \in Seq(R) /\ Len(l) = Len(t) /\ \A i \in 1 .. Len(l) : l[i] = t[i]
    BY <1>3, <2>3
  <2> HIDE DEF R, t
  <2>5. l = t
    BY <2>4, SeqEqual
  <2>6. QED
    BY <2>5 DEF t, a
<1> HIDE DEF m, l
<1>6. QED
  BY <1>2, <1>3, <1>4, <1>5, FlattenAppend DEF r

LEMMA ArgsFirst ==
  ASSUME NEW P, \A p \in P : p.arg \in Nat, NEW s \in Seq(P), s # <<>>, NEW k
  PROVE  ArgsOf(k, s) = Arg(k, Head(s)) \o ArgsOf(k, Tail(s))
<1> DEFINE r == Tail(s)
           m == [i \in 1 .. Len(s) |-> Arg(k, s[i])]
           l == [i \in 1 .. Len(r) |-> Arg(k, r[i])]
<1>1. /\ r \in Seq(P) /\ Len(r) = Len(s) - 1 /\ \A i \in 1 .. Len(r) : r[i] = s[i + 1]
      /\ Len(s) \in Nat /\ 1 \in 1 .. Len(s) /\ s[1] = Head(s) /\ Head(s) \in P
  OBVIOUS
<1> HIDE DEF r
<1>2. m \in Seq(Seq(Nat)) /\ Len(m) = Len(s) /\ ArgsOf(k, s) = FlattenSeq(m)
  BY ArgsAre
<1>3. l \in Seq(Seq(Nat)) /\ Len(l) = Len(r) /\ ArgsOf(k, r) = FlattenSeq(l)
  BY <1>1, ArgsAre
<1>4. m[1] = Arg(k, Head(s))
  BY <1>1
<1>5. \A i \in 1 .. Len(r) : l[i] = m[i + 1]
  BY <1>1
<1> HIDE DEF m, l
<1>6. m # <<>> /\ Head(m) = m[1]
  BY <1>1, <1>2
<1>7. Tail(m) = l
  <2> DEFINE R == Seq(Nat)
             t == Tail(m)
  <2>1. t \in Seq(R) /\ Len(t) = Len(l) /\ \A i \in 1 .. Len(t) : t[i] = l[i]
    BY <1>1, <1>2, <1>3, <1>5, <1>6, HeadTailProperties
  <2>2. l \in Seq(R)
    BY <1>3
  <2> HIDE DEF R, t
  <2>3. t = l
    BY <2>1, <2>2, SeqEqual
  <2>4. QED
    BY <2>3 DEF t
<1>8. FlattenSeq(m) = Head(m) \o FlattenSeq(Tail(m))
  BY <1>2, <1>6, FlattenFirst
<1>9. QED
  BY <1>2, <1>3, <1>4, <1>6, <1>7, <1>8 DEF r
-----------------------------------------------------------------------------
(* What is on its way to a server *)

Line(k, c) == ArgsOf(k, c2s[c]) \o ArgsOf(k, queue)

LEMMA ArgsTyped ==
  /\ \A p \in Packet : p.arg \in Nat
  /\ \A p \in FrameUp : p.arg \in Nat
  /\ \A p \in FrameDown : p.arg \in Nat
BY DEF Packet, FrameUp, FrameDown

LEMMA Lines ==
  ASSUME TypeOK, NEW c \in Conns, NEW k
  PROVE  /\ queue \in Seq(Packet) /\ c2s[c] \in Seq(FrameUp) /\ s2c[c] \in Seq(FrameDown)
         /\ ArgsOf(k, queue) \in Seq(Nat) /\ ArgsOf(k, c2s[c]) \in Seq(Nat)
         /\ ArgsOf(k, s2c[c]) \in Seq(Nat) /\ Line(k, c) \in Seq(Nat)
<1>1. queue \in Seq(Packet) /\ c2s[c] \in Seq(FrameUp) /\ s2c[c] \in Seq(FrameDown)
  BY DEF TypeOK, SharedType, WireType
<1>2. ArgsOf(k, queue) \in Seq(Nat)
  BY <1>1, ArgsTyped, ArgsAre
<1>3. ArgsOf(k, c2s[c]) \in Seq(Nat)
  BY <1>1, ArgsTyped, ArgsAre
<1>4. ArgsOf(k, s2c[c]) \in Seq(Nat)
  BY <1>1, ArgsTyped, ArgsAre
<1>5. QED
  BY <1>1, <1>2, <1>3, <1>4 DEF Line

\* A packet joins the queue.
LEMMA LineEnqueue ==
  ASSUME TypeOK, NEW c \in Conns, NEW j \in Serverbound, NEW a \in Nat, Enqueue(c, j, a),
         UNCHANGED c2s, NEW k
  PROVE  Line(k, c)' = Line(k, c) \o (IF j = k THEN <<a>> ELSE <<>>)
<1> DEFINE p == [kind |-> j, arg |-> a, via |-> c]
<1>1. p \in Packet /\ p.kind = j /\ p.arg = a /\ queue' = Append(queue, p)
  BY DEF Packet, Enqueue
<1> HIDE DEF p
<1>2. ArgsOf(k, queue)' = ArgsOf(k, queue) \o Arg(k, p)
  BY <1>1, ArgsTyped, Lines, ArgsAppend
<1>3. Arg(k, p) = (IF j = k THEN <<a>> ELSE <<>>) /\ Arg(k, p) \in Seq(Nat)
  BY <1>1 DEF Arg
<1>4. ArgsOf(k, c2s[c])' = ArgsOf(k, c2s[c])
  OBVIOUS
<1>5. Line(k, c)' = ArgsOf(k, c2s[c]) \o (ArgsOf(k, queue) \o Arg(k, p))
  BY <1>2, <1>4, Zenon DEF Line
<1>6. ArgsOf(k, c2s[c]) \o (ArgsOf(k, queue) \o Arg(k, p))
        = (ArgsOf(k, c2s[c]) \o ArgsOf(k, queue)) \o Arg(k, p)
  <2>1. /\ ArgsOf(k, c2s[c]) \in Seq(Nat) /\ ArgsOf(k, queue) \in Seq(Nat)
        /\ Arg(k, p) \in Seq(Nat)
    BY <1>3, Lines
  <2>2. QED
    BY <2>1, Rebracket, Zenon
<1>7. QED
  BY <1>3, <1>5, <1>6, Zenon DEF Line

\* A packet leaves for a server that is there.
LEMMA ArgsTransmit ==
  ASSUME TypeOK, NEW c \in Conns, NEW p \in Packet, Transmit(c, p), stage[c] # "closed", NEW k
  PROVE  ArgsOf(k, c2s[c])' = ArgsOf(k, c2s[c]) \o Arg(k, p)
<1> DEFINE f == [kind |-> p.kind, arg |-> p.arg, via |-> p.via,
                 enc |-> cipher[c], cmp |-> compressed]
<1>1. f \in FrameUp /\ f.kind = p.kind /\ f.arg = p.arg
  BY DEF FrameUp, Packet, TypeOK, ObjectType, SharedType
<1>2. c2s'[c] = Append(c2s[c], f)
  BY DEF Transmit, TypeOK, WireType
<1> HIDE DEF f
<1>3. ArgsOf(k, c2s[c])' = ArgsOf(k, c2s[c]) \o Arg(k, f)
  BY <1>1, <1>2, ArgsTyped, Lines, ArgsAppend
<1>4. QED
  BY <1>1, <1>3 DEF Arg

\* The oldest packet of the queue leaves.
LEMMA LinePop ==
  ASSUME TypeOK, NEW c \in Conns, NetPop(c), stage[c] # "closed", NEW k
  PROVE  Line(k, c)' = Line(k, c)
<1>1. queue # <<>> /\ queue' = Tail(queue) /\ Transmit(c, Head(queue))
  BY DEF NetPop
<1>2. Head(queue) \in Packet
  BY <1>1, Lines
<1>3. ArgsOf(k, c2s[c])' = ArgsOf(k, c2s[c]) \o Arg(k, Head(queue))
  BY <1>1, <1>2, ArgsTransmit
<1>4. ArgsOf(k, queue) = Arg(k, Head(queue)) \o ArgsOf(k, queue)'
  BY <1>1, ArgsTyped, Lines, ArgsFirst
<1>5. Arg(k, Head(queue)) \in Seq(Nat) /\ ArgsOf(k, queue)' \in Seq(Nat)
  <2>1. queue' \in Seq(Packet)
    BY <1>1, Lines
  <2>2. ArgsOf(k, queue)' \in Seq(Nat)
    BY <2>1, ArgsTyped, ArgsAre
  <2>3. Arg(k, Head(queue)) \in Seq(Nat)
    BY <1>2, ArgsTyped DEF Arg
  <2>4. QED
    BY <2>2, <2>3
<1>6. (ArgsOf(k, c2s[c]) \o Arg(k, Head(queue))) \o ArgsOf(k, queue)'
        = ArgsOf(k, c2s[c]) \o (Arg(k, Head(queue)) \o ArgsOf(k, queue)')
  <2>1. ArgsOf(k, c2s[c]) \in Seq(Nat)
    BY Lines
  <2>2. Cat(Cat(ArgsOf(k, c2s[c]), Arg(k, Head(queue))), ArgsOf(k, queue)')
          = Cat(ArgsOf(k, c2s[c]), Cat(Arg(k, Head(queue)), ArgsOf(k, queue)'))
    BY <1>5, <2>1, CatIs
  <2>3. QED
    BY <2>2, Zenon DEF Cat
<1>7. QED
  BY <1>3, <1>4, <1>6, Zenon DEF Line

\* A packet leaves the queue for nowhere.
LEMMA LineDrop ==
  ASSUME TypeOK, NEW c \in Conns, queue # <<>>, queue' = Tail(queue), UNCHANGED c2s,
         NEW k, Head(queue).kind # k
  PROVE  Line(k, c)' = Line(k, c)
<1>1. ArgsOf(k, queue) = Arg(k, Head(queue)) \o ArgsOf(k, queue)'
  BY ArgsTyped, Lines, ArgsFirst
<1>2. Arg(k, Head(queue)) = <<>>
  BY DEF Arg
<1>3. ArgsOf(k, queue)' \in Seq(Nat)
  <2>1. queue' \in Seq(Packet)
    BY Lines, Shorn
  <2>2. QED
    BY <2>1, ArgsTyped, ArgsAre
<1>4. ArgsOf(k, queue)' = ArgsOf(k, queue)
  <2> DEFINE r == ArgsOf(k, queue)'
  <2>1. r \in Seq(Nat) /\ ArgsOf(k, queue) = <<>> \o r
    BY <1>1, <1>2, <1>3, Zenon
  <2> HIDE DEF r
  <2>2. <<>> \o r = r
    BY <2>1
  <2>3. QED
    BY <2>1, <2>2, Zenon DEF r
<1>5. QED
  BY <1>4 DEF Line

\* A packet overtakes the queue.
LEMMA LineForce ==
  ASSUME TypeOK, NEW c \in Conns, NEW p \in Packet, Transmit(c, p), UNCHANGED queue,
         stage[c] # "closed", NEW k, p.kind # k
  PROVE  Line(k, c)' = Line(k, c)
<1>1. ArgsOf(k, c2s[c])' = ArgsOf(k, c2s[c]) \o Arg(k, p) /\ Arg(k, p) = <<>>
  BY ArgsTransmit DEF Arg
<1>2. ArgsOf(k, c2s[c])' = ArgsOf(k, c2s[c])
  BY <1>1, Lines
<1>3. QED
  BY <1>2 DEF Line

\* The server takes the first packet.
LEMMA LineTake ==
  ASSUME TypeOK, NEW c \in Conns, ServerTake(c), NEW k
  PROVE  /\ Head(c2s[c]) \in FrameUp /\ Arg(k, Head(c2s[c])) \in Seq(Nat)
         /\ Line(k, c)' \in Seq(Nat)
         /\ Line(k, c) = Arg(k, Head(c2s[c])) \o Line(k, c)'
<1>1. c2s[c] # <<>> /\ c2s' = [c2s EXCEPT ![c] = Tail(c2s[c])] /\ UNCHANGED queue
  BY Zenon DEF ServerTake, shared
<1>2. c2s'[c] = Tail(c2s[c])
  BY <1>1 DEF TypeOK, WireType
<1>3. Head(c2s[c]) \in FrameUp /\ c2s'[c] \in Seq(FrameUp)
  BY <1>1, <1>2, Lines, HeadTailType
<1>4. ArgsOf(k, c2s[c]) = Arg(k, Head(c2s[c])) \o ArgsOf(k, c2s[c])'
  BY <1>1, <1>2, ArgsTyped, Lines, ArgsFirst
<1>5. Arg(k, Head(c2s[c])) \in Seq(Nat) /\ ArgsOf(k, c2s[c])' \in Seq(Nat)
      /\ ArgsOf(k, queue)' = ArgsOf(k, queue) /\ ArgsOf(k, queue) \in Seq(Nat)
  <2>1. Arg(k, Head(c2s[c])) \in Seq(Nat)
    BY <1>3, ArgsTyped DEF Arg
  <2>2. ArgsOf(k, c2s[c])' \in Seq(Nat)
    BY <1>3, ArgsTyped, ArgsAre
  <2>3. QED
    BY <1>1, <2>1, <2>2, Lines
<1>6. (Arg(k, Head(c2s[c])) \o ArgsOf(k, c2s[c])') \o ArgsOf(k, queue)
        = Arg(k, Head(c2s[c])) \o (ArgsOf(k, c2s[c])' \o ArgsOf(k, queue))
      /\ ArgsOf(k, c2s[c])' \o ArgsOf(k, queue) \in Seq(Nat)
  <2>1. /\ Cat(Cat(Arg(k, Head(c2s[c])), ArgsOf(k, c2s[c])'), ArgsOf(k, queue))
             = Cat(Arg(k, Head(c2s[c])), Cat(ArgsOf(k, c2s[c])', ArgsOf(k, queue)))
        /\ Cat(ArgsOf(k, c2s[c])', ArgsOf(k, queue)) \in Seq(Nat)
    BY <1>5, CatIs
  <2>2. QED
    BY <2>1, Zenon DEF Cat
<1>7. QED
  BY <1>3, <1>4, <1>5, <1>6, Zenon DEF Line

\* The server sends a packet.
LEMMA ArgsPush ==
  ASSUME TypeOK, NEW c \in Conns, NEW j \in Clientbound, NEW a \in Nat, Push(c, j, a), NEW k
  PROVE  ArgsOf(k, s2c[c])' = ArgsOf(k, s2c[c]) \o (IF j = k THEN <<a>> ELSE <<>>)
<1> DEFINE f == [kind |-> j, arg |-> a, enc |-> senc[c], cmp |-> scomp[c],
                 table |-> TableOf(stage[c])]
<1>1. f \in FrameDown /\ f.kind = j /\ f.arg = a
  <2>1. TableOf(stage[c]) \in Reactors
    BY DEF TableOf, Reactors
  <2>2. senc[c] \in BOOLEAN /\ scomp[c] \in BOOLEAN
    BY DEF TypeOK, ServerType
  <2>3. QED
    BY <2>1, <2>2 DEF FrameDown
<1>2. s2c' = [s2c EXCEPT ![c] = Append(s2c[c], f)]
  BY Zenon DEF Push
<1> HIDE DEF f
<1>3. s2c'[c] = Append(s2c[c], f)
  BY <1>2 DEF TypeOK, WireType
<1>4. ArgsOf(k, s2c[c])' = ArgsOf(k, s2c[c]) \o Arg(k, f)
  BY <1>1, <1>3, ArgsTyped, Lines, ArgsAppend
<1>5. QED
  BY <1>1, <1>4 DEF Arg
-----------------------------------------------------------------------------
(* Every keep alive is at one place, in the order sent *)

\* The answers that have arrived or are on their way; the keep alives that are
\* being read or are on their way.
Back(c) == echoed[c] \o Line("keep_alive_serverbound", c)
Ahead(c) == BeingRead(c) \o ArgsOf("keep_alive", s2c[c])
Upto(m) == [i \in 1 .. m |-> i]
KeptAt(c) == stage[c] # "closed" => Back(c) \o Ahead(c) = Upto(alive[c])

LEMMA ReadType == ASSUME TypeOK, NEW c \in Conns PROVE BeingRead(c) \in Seq(Nat)
<1>1. pkt[c].arg \in Nat
  BY DEF TypeOK, ThreadType
<1>2. QED
  BY <1>1 DEF BeingRead

\* ... and after a step.
LEMMA LinesNext ==
  ASSUME TypeOK', NEW c \in Conns, NEW k
  PROVE  ArgsOf(k, queue)' \in Seq(Nat) /\ ArgsOf(k, c2s[c])' \in Seq(Nat)
         /\ ArgsOf(k, s2c[c])' \in Seq(Nat)
<1>1. queue' \in Seq(Packet) /\ c2s'[c] \in Seq(FrameUp) /\ s2c'[c] \in Seq(FrameDown)
  BY DEF TypeOK, SharedType, WireType
<1>2. ArgsOf(k, queue)' \in Seq(Nat)
  BY <1>1, ArgsTyped, ArgsAre
<1>3. ArgsOf(k, c2s[c])' \in Seq(Nat)
  BY <1>1, ArgsTyped, ArgsAre
<1>4. ArgsOf(k, s2c[c])' \in Seq(Nat)
  BY <1>1, ArgsTyped, ArgsAre
<1>5. QED
  BY <1>2, <1>3, <1>4

LEMMA Whole == TypeOK => (KeepAlivesKept <=> \A c \in Conns : KeptAt(c))
<1> SUFFICES ASSUME TypeOK, NEW c \in Conns
             PROVE  echoed[c] \o ArgsOf("keep_alive_serverbound", c2s[c])
                      \o ArgsOf("keep_alive_serverbound", queue) \o BeingRead(c)
                      \o ArgsOf("keep_alive", s2c[c])
                    = Back(c) \o Ahead(c)
  BY Zenon DEF KeepAlivesKept, KeptAt, Upto
<1>1. echoed[c] \in Seq(Nat) /\ BeingRead(c) \in Seq(Nat)
  BY ReadType DEF TypeOK, ServerType
<1>2. /\ ArgsOf("keep_alive_serverbound", c2s[c]) \in Seq(Nat)
      /\ ArgsOf("keep_alive_serverbound", queue) \in Seq(Nat)
      /\ ArgsOf("keep_alive", s2c[c]) \in Seq(Nat)
  BY Lines
<1> DEFINE u == echoed[c]
           v == ArgsOf("keep_alive_serverbound", c2s[c])
           w == ArgsOf("keep_alive_serverbound", queue)
           x == BeingRead(c)
           y == ArgsOf("keep_alive", s2c[c])
<1>3. Back(c) = u \o (v \o w) /\ Ahead(c) = x \o y
  BY Zenon DEF Back, Ahead, Line
<1>4. u \in Seq(Nat) /\ v \in Seq(Nat) /\ w \in Seq(Nat) /\ x \in Seq(Nat) /\ y \in Seq(Nat)
  BY <1>1, <1>2
<1> HIDE DEF u, v, w, x, y
<1>5. Cat(Cat(Cat(Cat(u, v), w), x), y) = Cat(Cat(u, Cat(v, w)), Cat(x, y))
  BY <1>4, CatIs
<1>6. QED
  BY <1>3, <1>5, Zenon DEF Cat, u, v, w, x, y

LEMMA WholeNext == TypeOK' => (KeepAlivesKept' <=> \A c \in Conns : KeptAt(c)')
<1> SUFFICES ASSUME TypeOK', NEW c \in Conns
             PROVE  (echoed[c] \o ArgsOf("keep_alive_serverbound", c2s[c])
                      \o ArgsOf("keep_alive_serverbound", queue) \o BeingRead(c)
                      \o ArgsOf("keep_alive", s2c[c]))'
                    = (Back(c) \o Ahead(c))'
  BY Zenon DEF KeepAlivesKept, KeptAt, Upto
<1>1. echoed'[c] \in Seq(Nat) /\ BeingRead(c)' \in Seq(Nat)
  <2>1. pkt'[c].arg \in Nat /\ echoed'[c] \in Seq(Nat)
    BY DEF TypeOK, ThreadType, ServerType
  <2>2. QED
    BY <2>1 DEF BeingRead
<1>2. /\ ArgsOf("keep_alive_serverbound", c2s[c])' \in Seq(Nat)
      /\ ArgsOf("keep_alive_serverbound", queue)' \in Seq(Nat)
      /\ ArgsOf("keep_alive", s2c[c])' \in Seq(Nat)
  BY LinesNext
<1> DEFINE u == echoed'[c]
           v == ArgsOf("keep_alive_serverbound", c2s[c])'
           w == ArgsOf("keep_alive_serverbound", queue)'
           x == BeingRead(c)'
           y == ArgsOf("keep_alive", s2c[c])'
<1>3. Back(c)' = u \o (v \o w) /\ Ahead(c)' = x \o y
  BY Zenon DEF Back, Ahead, Line
<1>4. u \in Seq(Nat) /\ v \in Seq(Nat) /\ w \in Seq(Nat) /\ x \in Seq(Nat) /\ y \in Seq(Nat)
  BY <1>1, <1>2
<1> HIDE DEF u, v, w, x, y
<1>5. Cat(Cat(Cat(Cat(u, v), w), x), y) = Cat(Cat(u, Cat(v, w)), Cat(x, y))
  BY <1>4, CatIs
<1>6. QED
  BY <1>3, <1>5, Zenon DEF Cat, u, v, w, x, y

\* A step that leaves the answers and the keep alives of c where they are.
LEMMA SameKept ==
  ASSUME NEW c \in Conns, KeptAt(c), stage[c] # "closed",
         echoed'[c] = echoed[c], alive'[c] = alive[c], Ahead(c)' = Ahead(c),
         Line("keep_alive_serverbound", c)' = Line("keep_alive_serverbound", c)
  PROVE  KeptAt(c)'
<1>1. Back(c)' = Back(c)
  BY Zenon DEF Back
<1>2. QED
  BY <1>1, Zenon DEF KeptAt

LEMMA SameAhead ==
  ASSUME NEW c \in Conns, BeingRead(c)' = BeingRead(c), UNCHANGED s2c
  PROVE  Ahead(c)' = Ahead(c)
BY Zenon DEF Ahead

LEMMA SameLine ==
  ASSUME NEW c \in Conns, UNCHANGED <<queue, c2s>>, NEW k
  PROVE  Line(k, c)' = Line(k, c)
BY DEF Line

\* Another packet joins the queue.
LEMMA OtherEnqueue ==
  ASSUME TypeOK, NEW c \in Conns, NEW j \in Serverbound, NEW a \in Nat, Enqueue(c, j, a),
         UNCHANGED c2s, NEW k, j # k
  PROVE  Line(k, c)' = Line(k, c)
<1>1. Line(k, c)' = Line(k, c) \o (IF j = k THEN <<a>> ELSE <<>>)
  BY LineEnqueue
<1>2. Line(k, c) \o <<>> = Line(k, c)
  BY Lines
<1>3. QED
  BY <1>1, <1>2, Zenon
-----------------------------------------------------------------------------
(* The steps that leave the answers, and the chats, on their way where they are *)

\* connect() and status() queue neither.
LEMMA LineCall ==
  ASSUME TypeOK, NEW c \in Conns, Call(c), NEW k \in {"chat", "keep_alive_serverbound"}
  PROVE  Line(k, c)' = Line(k, c)
<1>1. CASE New(c) \/ Open(c) \/ SetReactor(c) \/ StartThread(c)
  BY <1>1, SameLine DEF New, Open, SetReactor, StartThread, shared
<1>2. CASE Handshake(c)
  <2>1. Enqueue(c, "handshake", IF mode[c] = "connect" THEN 2 ELSE 1) /\ UNCHANGED c2s
    BY <1>2 DEF Handshake
  <2>2. QED
    BY <2>1, OtherEnqueue DEF Serverbound
<1>3. CASE FirstPacket(c)
  <2>1. (Enqueue(c, "login_start", 0) \/ Enqueue(c, "request", 0)) /\ UNCHANGED c2s
    BY <1>3 DEF FirstPacket
  <2>2. QED
    BY <2>1, OtherEnqueue DEF Serverbound
<1>4. QED
  BY <1>1, <1>2, <1>3 DEF Call

\* The reactors write no chats, and one of them the answers.
LEMMA LineReact ==
  ASSUME TypeOK, NEW c \in Conns, stage[c] # "closed", React(c),
         NEW k \in {"chat", "keep_alive_serverbound"}, k = "chat" \/ ~ReactKeepAlive(c)
  PROVE  Line(k, c)' = Line(k, c)
<1>1. CASE ReactKey(c) \/ NetSwap(c) \/ ReactSuccess(c) \/ ReactCompression(c)
           \/ ReactNothing(c)
  BY <1>1, SameLine DEF ReactKey, NetSwap, ReactSuccess, ReactCompression, ReactNothing, shared
<1>2. CASE NetForce(c)
  <2> DEFINE p == [kind |-> "encryption_response", arg |-> 0, via |-> c]
  <2>1. p \in Packet /\ p.kind = "encryption_response"
    BY DEF Packet, Serverbound
  <2>2. Transmit(c, p) /\ UNCHANGED queue
    BY <1>2 DEF NetForce, SendRaises, Encodes
  <2> HIDE DEF p
  <2>3. QED
    BY <2>1, <2>2, LineForce
<1>3. CASE ReactPosition(c)
  <2>1. /\ Enqueue(c, "teleport_confirm", pkt[c].arg) \/ Enqueue(c, "position_and_look", 0)
        /\ pkt[c].arg \in Nat /\ UNCHANGED c2s
    BY <1>3 DEF ReactPosition, TypeOK, ThreadType
  <2>2. QED
    BY <2>1, OtherEnqueue DEF Serverbound
<1>4. CASE ReactResponse(c)
  <2>1. Enqueue(c, "ping", 0) /\ UNCHANGED c2s
    BY <1>4 DEF ReactResponse
  <2>2. QED
    BY <2>1, OtherEnqueue DEF Serverbound
<1>5. CASE ReactKeepAlive(c)
  <2>1. /\ Enqueue(c, "keep_alive_serverbound", pkt[c].arg) /\ pkt[c].arg \in Nat
        /\ UNCHANGED c2s /\ k = "chat"
    BY <1>5 DEF ReactKeepAlive, TypeOK, ThreadType
  <2>2. QED
    BY <2>1, OtherEnqueue DEF Serverbound
<1>6. QED
  BY <1>1, <1>2, <1>3, <1>4, <1>5 DEF React

\* A packet that leaves the queue is on its way, as long as the server is there, or
\* it is a chat that cannot be encoded.
LEMMA LineNetwork ==
  ASSUME TypeOK, NEW c \in Conns, stage[c] # "closed", Network(c),
         NEW k \in {"chat", "keep_alive_serverbound"}, k = "chat" \/ ~ReactKeepAlive(c),
         k # "chat" \/ ~NetPopRaises(c)
  PROVE  Line(k, c)' = Line(k, c)
<1>1. CASE NetTop(c) \/ NetLock(c) \/ NetDrained(c) \/ NetSelect(c) \/ NetTimeout(c)
           \/ NetEof(c) \/ NetSpin(c) \/ NetRead(c)
  BY <1>1, SameLine DEF NetTop, NetLock, NetDrained, NetSelect, NetTimeout, NetEof, NetSpin,
     NetRead, shared
<1>2. CASE NetPopRaises(c)
  <2>1. /\ queue # <<>> /\ queue' = Tail(queue) /\ UNCHANGED c2s
        /\ Head(queue).kind = "chat"
    BY <1>2, ChatsRaise DEF NetPopRaises
  <2>2. QED
    BY <1>2, <2>1, LineDrop
<1>3. QED
  BY <1>1, <1>2, LinePop, LineReact DEF Network

\* What a server takes of the line is the first of it.
LEMMA LineServer ==
  ASSUME TypeOK, NEW c \in Conns, Server(c), stage'[c] # "closed", NEW k
  PROVE  \/ ~ServerTake(c) /\ Line(k, c)' = Line(k, c)
         \/ /\ ServerTake(c)
            /\ Arg(k, Head(c2s[c])) \in Seq(Nat) /\ Line(k, c)' \in Seq(Nat)
            /\ Line(k, c) = Arg(k, Head(c2s[c])) \o Line(k, c)'
<1>1. ~ServerReject(c) /\ ~ServerClose(c)
  BY DEF ServerReject, ServerClose, TypeOK, ServerType
<1>2. CASE ServerTake(c)
  BY <1>2, LineTake
<1>3. CASE ~ServerTake(c) /\ (ServerLogin(c) \/ ServerKeepAlive(c) \/ ServerPosition(c) \/ ServerOther(c))
  BY <1>3, SameLine DEF ServerLogin, ServerKeepAlive, ServerPosition, ServerOther, shared
<1>4. QED
  BY <1>1, <1>2, <1>3 DEF Server
-----------------------------------------------------------------------------
(* The keep alives *)

LEMMA ApplicationKept ==
  ASSUME TypeOK, ScriptInv, NEW c \in Conns, KeptAt(c), stage[c] # "closed", Application(c)
  PROVE  KeptAt(c)'
<1>1. UNCHANGED <<echoed, alive, s2c, pkt>>
  BY DEF Application, Call, New, Open, Handshake, SetReactor, StartThread, FirstPacket,
     WriteChat, thread, server
<1>2. BeingRead(c)' = BeingRead(c)
  <2>1. StartThread(c) => netpc[c] = "none" /\ netpc'[c] = "top"
    <3>1. StartThread(c) => netpc[c] = "none"
      BY DoesWhere DEF StartThread, ScriptInv, ScriptAt, Started
    <3>2. QED
      BY <3>1 DEF StartThread, TypeOK, ThreadType
  <2>2. netpc' = netpc \/ StartThread(c)
    BY DEF Application, Call, New, Open, Handshake, SetReactor, FirstPacket, WriteChat, thread
  <2>3. QED
    BY <1>1, <2>1, <2>2 DEF BeingRead, Reacting
<1>3. Line("keep_alive_serverbound", c)' = Line("keep_alive_serverbound", c)
  <2>1. CASE Call(c)
    BY <2>1, LineCall
  <2>2. CASE WriteChat(c)
    <3>1. written' \in Nat
      BY <2>2 DEF WriteChat, TypeOK, CallerType
    <3>2. CASE Enqueue(c, "chat", written') /\ UNCHANGED c2s
      BY <3>1, <3>2, OtherEnqueue DEF Serverbound
    <3>3. CASE Transmit(c, [kind |-> "chat", arg |-> written', via |-> c]) /\ UNCHANGED queue
      <4> DEFINE p == [kind |-> "chat", arg |-> written', via |-> c]
      <4>1. p \in Packet /\ p.kind = "chat"
        BY <3>1 DEF Packet, Serverbound
      <4> HIDE DEF p
      <4>2. QED
        BY <3>3, <4>1, LineForce DEF p
    <3>4. CASE UNCHANGED <<queue, c2s>>
      BY <3>4, SameLine
    <3>5. QED
      BY <2>2, <3>2, <3>3, <3>4 DEF WriteChat, SendRaises
  <2>3. QED
    BY <2>1, <2>2 DEF Application
<1>4. QED
  BY <1>1, <1>2, <1>3, SameAhead, SameKept

\* A thread that is not reacting to a keep alive is not reading one.
LEMMA NotReading ==
  ASSUME NEW c \in Conns
  PROVE  /\ netpc[c] # "reacting" \/ pkt[c].kind # "keep_alive" => BeingRead(c) = <<>>
         /\ netpc'[c] # "reacting" => BeingRead(c)' = <<>>
BY DEF BeingRead, Reacting

\* What has been read of a packet is dealt with.
LEMMA NextReads ==
  ASSUME TypeOK, NEW c \in Conns, NextRead(c)
  PROVE  netpc'[c] \in {"top", "select"}
<1>1. netpc' = [netpc EXCEPT ![c] = IF n[c] + 1 >= ReadBatch THEN "top" ELSE "select"]
  BY DEF NextRead
<1>2. QED
  BY <1>1 DEF TypeOK, ThreadType

LEMMA ReactKept ==
  ASSUME TypeOK, NEW c \in Conns, KeptAt(c), stage[c] # "closed", React(c), ~ReactKeepAlive(c)
  PROVE  KeptAt(c)'
<1>1. UNCHANGED <<echoed, alive, s2c>>
  BY DEF React, ReactKey, NetForce, NetSwap, ReactSuccess, ReactCompression, ReactPosition,
     ReactResponse, ReactNothing, server
<1>2. netpc[c] # "reacting" \/ pkt[c].kind # "keep_alive"
  BY DEF React, ReactKey, NetForce, NetSwap, ReactSuccess, ReactCompression, ReactPosition,
     ReactResponse, ReactNothing, Reacting
<1>3. netpc'[c] # "reacting"
  <2>1. NextRead(c) \/ netpc' = [netpc EXCEPT ![c] = "forcing"]
          \/ netpc' = [netpc EXCEPT ![c] = "dead"] \/ netpc' = [netpc EXCEPT ![c] = "swapping"]
    BY Zenon DEF React, ReactKey, NetForce, NetSwap, ReactSuccess, ReactCompression,
       ReactPosition, ReactResponse, ReactNothing
  <2>2. netpc \in [Conns -> Counters]
    BY DEF TypeOK, ThreadType
  <2>3. QED
    BY <2>1, <2>2, NextReads
<1>4. Ahead(c)' = Ahead(c)
  <2>1. BeingRead(c) = <<>> /\ BeingRead(c)' = <<>>
    BY <1>2, <1>3, NotReading
  <2>2. QED
    BY <1>1, <2>1, SameAhead
<1>5. Line("keep_alive_serverbound", c)' = Line("keep_alive_serverbound", c)
  BY LineReact
<1>6. QED
  BY <1>1, <1>4, <1>5, SameKept

\* A keep alive that is read is answered.
LEMMA AnswerKept ==
  ASSUME TypeOK, NEW c \in Conns, KeptAt(c), stage[c] # "closed", ReactKeepAlive(c)
  PROVE  KeptAt(c)'
<1> DEFINE a == pkt[c].arg
           b == Line("keep_alive_serverbound", c)
           s == ArgsOf("keep_alive", s2c[c])
           e == echoed[c]
<1>1. UNCHANGED <<echoed, alive, s2c, c2s>> /\ Enqueue(c, "keep_alive_serverbound", a)
  BY DEF ReactKeepAlive, server
<1>2. a \in Nat /\ b \in Seq(Nat) /\ s \in Seq(Nat) /\ e \in Seq(Nat)
  BY Lines DEF TypeOK, ThreadType, ServerType
<1>3. BeingRead(c) = <<a>> /\ BeingRead(c)' = <<>>
  <2>1. netpc'[c] \in {"top", "select"}
    BY NextReads DEF ReactKeepAlive
  <2>2. QED
    BY <2>1 DEF ReactKeepAlive, BeingRead, Reacting
<1>4. Line("keep_alive_serverbound", c)' = b \o <<a>>
  BY <1>1, <1>2, LineEnqueue DEF Serverbound
<1>5. Ahead(c) = <<a>> \o s /\ Ahead(c)' = <<>> \o s /\ Back(c) = e \o b
      /\ Back(c)' = e \o (b \o <<a>>)
  BY <1>1, <1>3, <1>4, Zenon DEF Ahead, Back
<1> HIDE DEF a, b, s, e
<1> DEFINE t == <<a>>
<1>6. t \in Seq(Nat) /\ <<>> \o s = s
  BY <1>2
<1> HIDE DEF t
<1>7. Cat(Cat(e, Cat(b, t)), s) = Cat(Cat(e, b), Cat(t, s))
  BY <1>2, <1>6, CatIs
<1>8. QED
  BY <1>1, <1>5, <1>6, <1>7, Zenon DEF KeptAt, Cat, t

\* A keep alive that arrives is read.
LEMMA ReadKept ==
  ASSUME TypeOK, NEW c \in Conns, KeptAt(c), stage[c] # "closed", NetRead(c),
         netpc'[c] # "garbled"
  PROVE  KeptAt(c)'
<1> DEFINE f == Head(s2c[c])
           s == ArgsOf("keep_alive", s2c[c])
<1>1. UNCHANGED <<echoed, alive, queue, c2s>> /\ s2c[c] # <<>> /\ netpc[c] = "polling"
  BY DEF NetRead, server, shared
<1>2. s2c' = [s2c EXCEPT ![c] = Tail(s2c[c])]
  BY DEF NetRead
<1>3. s2c'[c] = Tail(s2c[c]) /\ f \in FrameDown
  BY <1>1, <1>2, Lines, HeadTailType DEF TypeOK, WireType
<1>4. s = Arg("keep_alive", f) \o ArgsOf("keep_alive", s2c[c])'
  BY <1>1, <1>3, ArgsTyped, Lines, ArgsFirst
<1>5. netpc'[c] = "reacting" /\ pkt'[c].kind = f.kind /\ pkt'[c].arg = f.arg
  <2>1. netpc \in [Conns -> Counters] /\ DOMAIN pkt = Conns
    BY DEF TypeOK, ThreadType
  <2>2. \/ netpc' = [netpc EXCEPT ![c] = "garbled"]
        \/ /\ netpc' = [netpc EXCEPT ![c] = "reacting"]
           /\ pkt' = [pkt EXCEPT ![c] = [kind |-> f.kind, arg |-> f.arg]]
    BY DEF NetRead
  <2>3. QED
    BY <2>1, <2>2
<1>6. BeingRead(c)' = Arg("keep_alive", f) /\ BeingRead(c) = <<>>
  BY <1>1, <1>5 DEF BeingRead, Reacting, Arg
<1>7. Ahead(c)' = s /\ Ahead(c) = <<>> \o s
  BY <1>4, <1>6, Zenon DEF Ahead
<1>8. <<>> \o s = s
  BY Lines
<1>9. QED
  BY <1>1, <1>7, <1>8, SameLine, SameKept

LEMMA NetworkKept ==
  ASSUME TypeOK, NEW c \in Conns, KeptAt(c), stage[c] # "closed", Network(c),
         netpc'[c] # "garbled"
  PROVE  KeptAt(c)'
<1>1. CASE NetTop(c) \/ NetLock(c) \/ NetDrained(c) \/ NetPop(c) \/ NetPopRaises(c)
           \/ NetSelect(c) \/ NetTimeout(c) \/ NetSpin(c)
  <2>1. UNCHANGED <<echoed, alive, s2c>>
    BY <1>1 DEF NetTop, NetLock, NetDrained, NetPop, NetPopRaises, NetSelect, NetTimeout,
       NetSpin, server
  <2>2. netpc[c] # "reacting" /\ netpc'[c] # "reacting"
    <3>1. netpc \in [Conns -> Counters]
      BY DEF TypeOK, ThreadType
    <3>2. QED
      BY <1>1, <3>1 DEF NetTop, NetLock, NetDrained, NetPop, NetPopRaises, NetSelect, NetTimeout,
         NetSpin, StopWriting
  <2>3. Ahead(c)' = Ahead(c)
    <3>1. BeingRead(c) = <<>> /\ BeingRead(c)' = <<>>
      BY <2>2, NotReading
    <3>2. QED
      BY <2>1, <3>1, SameAhead
  <2>4. Line("keep_alive_serverbound", c)' = Line("keep_alive_serverbound", c)
    <3>1. ~ReactKeepAlive(c)
      BY <2>2 DEF ReactKeepAlive, Reacting
    <3>2. QED
      BY <3>1, LineNetwork
  <2>5. QED
    BY <2>1, <2>3, <2>4, SameKept
<1>2. ~NetEof(c)
  BY DEF NetEof
<1>3. QED
  BY <1>1, <1>2, ReadKept, ReactKept, AnswerKept DEF Network

LEMMA UptoNext ==
  ASSUME NEW m \in Nat
  PROVE  /\ Upto(m) \in Seq(Nat) /\ Len(Upto(m)) = m
         /\ Upto(m + 1) = Upto(m) \o <<m + 1>> /\ Upto(m + 1) = Append(Upto(m), m + 1)
<1> DEFINE s == Upto(m)
           t == Append(s, m + 1)
           u == Upto(m + 1)
<1>1. s \in Seq(Nat) /\ Len(s) = m /\ \A i \in 1 .. m : s[i] = i
  BY DEF Upto
<1>2. u \in Seq(Nat) /\ Len(u) = m + 1 /\ \A i \in 1 .. m + 1 : u[i] = i
  BY DEF Upto
<1> HIDE DEF s, u
<1>3. t \in Seq(Nat) /\ Len(t) = m + 1 /\ \A i \in 1 .. m + 1 : t[i] = i
  BY <1>1
<1>4. s \o <<m + 1>> = t
  BY <1>1
<1> HIDE DEF t
<1>5. u = t
  BY <1>2, <1>3, SeqEqual
<1>6. QED
  BY <1>1, <1>4, <1>5 DEF s, t, u

\* Another packet joins the stream.
LEMMA OtherPush ==
  ASSUME TypeOK, NEW c \in Conns, NEW j \in Clientbound, NEW a \in Nat, Push(c, j, a),
         NEW k, j # k
  PROVE  ArgsOf(k, s2c[c])' = ArgsOf(k, s2c[c])
<1>1. ArgsOf(k, s2c[c])' = ArgsOf(k, s2c[c]) \o (IF j = k THEN <<a>> ELSE <<>>)
  BY ArgsPush
<1>2. ArgsOf(k, s2c[c]) \o <<>> = ArgsOf(k, s2c[c])
  BY Lines
<1>3. QED
  BY <1>1, <1>2, Zenon

\* The answers taken are those that come first.
LEMMA EchoKept ==
  ASSUME TypeOK, NEW c \in Conns, KeptAt(c), stage[c] # "closed", ServerTake(c)
  PROVE  KeptAt(c)' /\ echoed'[c] = echoed[c] \o Arg("keep_alive_serverbound", Head(c2s[c]))
<1> DEFINE k == "keep_alive_serverbound"
           f == Head(c2s[c])
           a == Arg("keep_alive_serverbound", f)
           b == Line("keep_alive_serverbound", c)'
           e == echoed[c]
<1>1. f \in FrameUp /\ a \in Seq(Nat) /\ b \in Seq(Nat) /\ e \in Seq(Nat)
      /\ Line("keep_alive_serverbound", c) = a \o b
  BY LineTake DEF TypeOK, ServerType
<1>2. UNCHANGED <<alive, thread>>
  BY DEF ServerTake
<1>3. echoed'[c] = e \o a
  <2>1. echoed' = [echoed EXCEPT ![c] = IF f.kind = k THEN Append(echoed[c], f.arg) ELSE echoed[c]]
    BY Zenon DEF ServerTake
  <2>2. echoed \in [Conns -> Seq(Nat)] /\ f.arg \in Nat
    BY <1>1 DEF TypeOK, ServerType, FrameUp
  <2>3. echoed'[c] = IF f.kind = k THEN Append(e, f.arg) ELSE e
    BY <2>1, <2>2
  <2> HIDE DEF e, a
  <2>4. CASE f.kind = k
    <3>1. a = <<f.arg>> /\ echoed'[c] = Append(e, f.arg)
      BY <2>3, <2>4 DEF Arg, a
    <3>2. Append(e, f.arg) = e \o <<f.arg>>
      BY <1>1, <2>2
    <3>3. QED
      BY <3>1, <3>2, Zenon
  <2>5. CASE f.kind # k
    <3>1. a = <<>> /\ echoed'[c] = e
      BY <2>3, <2>5 DEF Arg, a
    <3>2. e \o <<>> = e
      BY <1>1
    <3>3. QED
      BY <3>1, <3>2
  <2>6. QED
    BY <2>4, <2>5
<1>4. Ahead(c)' = Ahead(c)
  <2>1. BeingRead(c)' = BeingRead(c)
    BY <1>2 DEF BeingRead, Reacting, thread
  <2>2. ArgsOf("keep_alive", s2c[c])' = ArgsOf("keep_alive", s2c[c])
    <3>1. UNCHANGED s2c \/ Push(c, "response", 0)
      BY Zenon DEF ServerTake
    <3>2. QED
      BY <3>1, OtherPush DEF Clientbound
  <2>3. QED
    BY <2>1, <2>2, Zenon DEF Ahead
<1>5. Back(c) = e \o (a \o b) /\ Back(c)' = (e \o a) \o b
  BY <1>1, <1>3, Zenon DEF Back
<1>6. e \o (a \o b) = (e \o a) \o b
  BY <1>1, Rebracket, Zenon
<1>7. KeptAt(c)'
  BY <1>2, <1>4, <1>5, <1>6, Zenon DEF KeptAt
<1>8. QED
  BY <1>3, <1>7

\* A keep alive sent is the last ahead.
LEMMA SendKept ==
  ASSUME TypeOK, NEW c \in Conns, KeptAt(c), stage[c] # "closed", ServerKeepAlive(c)
  PROVE  KeptAt(c)' /\ alive'[c] = alive[c] + 1 /\ echoed'[c] = echoed[c]
<1> DEFINE m == alive[c]
           x == BeingRead(c)
           s == ArgsOf("keep_alive", s2c[c])
           b == Back(c)
<1>1. UNCHANGED <<queue, c2s, thread, echoed>> /\ Push(c, "keep_alive", m + 1)
  BY DEF ServerKeepAlive, shared
<1>2. m \in Nat /\ x \in Seq(Nat) /\ s \in Seq(Nat) /\ alive'[c] = m + 1
  <2>1. m \in Nat /\ alive'[c] = m + 1
    BY DEF ServerKeepAlive, TypeOK, ServerType
  <2>2. QED
    BY <2>1, ReadType, Lines
<1>3. b \in Seq(Nat)
  BY Lines DEF Back, TypeOK, ServerType
<1>4. ArgsOf("keep_alive", s2c[c])' = s \o <<m + 1>>
  <2>1. "keep_alive" \in Clientbound /\ m + 1 \in Nat
    BY <1>2 DEF Clientbound
  <2>2. QED
    BY <1>1, <2>1, ArgsPush
<1>5. BeingRead(c)' = x
  BY <1>1 DEF BeingRead, Reacting, thread
<1>6. b' = b
  BY <1>1, SameLine, Zenon DEF Back
<1>7. Ahead(c) = x \o s /\ Ahead(c)' = x \o (s \o <<m + 1>>)
  BY <1>4, <1>5, Zenon DEF Ahead
<1>8. b \o (x \o s) = Upto(m)
  BY <1>7 DEF KeptAt
<1> HIDE DEF m, x, s, b
<1>9. b \o (x \o (s \o <<m + 1>>)) = (b \o (x \o s)) \o <<m + 1>>
  <2> DEFINE t == <<m + 1>>
  <2>1. t \in Seq(Nat)
    BY <1>2
  <2> HIDE DEF t
  <2>2. Cat(b, Cat(x, Cat(s, t))) = Cat(Cat(b, Cat(x, s)), t)
    BY <1>2, <1>3, <2>1, CatIs
  <2>3. QED
    BY <2>2, Zenon DEF Cat, t
<1>10. Upto(m) \o <<m + 1>> = Upto(m + 1)
  BY <1>2, UptoNext
<1>11. KeptAt(c)'
  <2>1. Back(c)' \o Ahead(c)' = Upto(m + 1)
    BY <1>6, <1>7, <1>8, <1>9, <1>10, Zenon DEF b
  <2>2. QED
    BY <1>2, <2>1 DEF KeptAt
<1>12. QED
  BY <1>1, <1>2, <1>11 DEF m

LEMMA ServerKept ==
  ASSUME TypeOK, NEW c \in Conns, KeptAt(c), stage[c] # "closed", Server(c), stage'[c] # "closed"
  PROVE  KeptAt(c)'
<1>1. ~ServerReject(c) /\ ~ServerClose(c)
  BY DEF ServerReject, ServerClose, TypeOK, ServerType
<1>2. CASE ServerLogin(c) \/ ServerPosition(c) \/ ServerOther(c)
  <2>1. UNCHANGED <<queue, c2s, thread, echoed, alive>>
    BY <1>2 DEF ServerLogin, ServerPosition, ServerOther, shared, server
  <2>2. BeingRead(c)' = BeingRead(c)
    BY <2>1 DEF BeingRead, Reacting, thread
  <2>3. \E j \in Clientbound \ {"keep_alive"}, a \in Nat : Push(c, j, a)
    <3>1. /\ {"encryption_request", "set_compression", "login_success",
              "player_position_and_look", "other"} \subseteq Clientbound \ {"keep_alive"}
          /\ 0 .. 1 \subseteq Nat
      BY DEF Clientbound
    <3>2. \E j \in {"encryption_request", "set_compression", "login_success",
              "player_position_and_look", "other"}, a \in 0 .. 1 : Push(c, j, a)
      BY <1>2 DEF ServerLogin, ServerPosition, ServerOther
    <3>3. QED
      BY <3>1, <3>2
  <2>4. ArgsOf("keep_alive", s2c[c])' = ArgsOf("keep_alive", s2c[c])
    BY <2>3, OtherPush
  <2>5. Ahead(c)' = Ahead(c)
    BY <2>2, <2>4, Zenon DEF Ahead
  <2>6. QED
    BY <2>1, <2>5, SameLine, SameKept
<1>3. QED
  BY <1>1, <1>2, EchoKept, SendKept DEF Server

LEMMA StepKept ==
  ASSUME OneConnection
  PROVE  TypeOK /\ TypeOK' /\ ScriptInv /\ StreamInStep' /\ KeepAlivesKept /\ [Next]_vars
           => KeepAlivesKept'
<1> SUFFICES ASSUME TypeOK, TypeOK', ScriptInv, StreamInStep', KeepAlivesKept, [Next]_vars
             PROVE  KeepAlivesKept'
  OBVIOUS
<1>1. ASSUME NEW c \in Conns PROVE KeptAt(c)'
  <2>1. KeptAt(c) /\ netpc'[c] # "garbled"
    BY Whole DEF StreamInStep
  <2>2. CASE stage'[c] = "closed"
    BY <2>2 DEF KeptAt
  <2>3. CASE stage'[c] # "closed"
    <3>1. stage[c] # "closed"
      BY <2>3, ClosedStays
    <3>2. CASE UNCHANGED vars
      <4>1. UNCHANGED <<queue, c2s, s2c, thread, echoed, alive>>
        BY <3>2 DEF vars, shared, server
      <4>2. BeingRead(c)' = BeingRead(c)
        BY <4>1 DEF BeingRead, Reacting, thread
      <4>3. QED
        BY <2>1, <3>1, <4>1, <4>2, SameAhead, SameLine, SameKept
    <3>3. CASE Next
      BY <2>1, <2>3, <3>1, <3>3, ApplicationKept, NetworkKept, ServerKept DEF Next, OneConnection
    <3>4. QED
      BY <3>2, <3>3
  <2>4. QED
    BY <2>2, <2>3
<1>2. QED
  BY <1>1, WholeNext

LEMMA InitKept == Init => KeepAlivesKept
<1> SUFFICES ASSUME Init, NEW c \in Conns PROVE KeptAt(c)
  BY InitType, Whole
<1>1. queue = <<>> /\ c2s[c] = <<>> /\ s2c[c] = <<>> /\ echoed[c] = <<>> /\ alive[c] = 0
      /\ netpc[c] = "none"
  BY DEF Init
<1>2. ArgsOf("keep_alive_serverbound", c2s[c]) = <<>> /\ ArgsOf("keep_alive", s2c[c]) = <<>>
      /\ ArgsOf("keep_alive_serverbound", queue) = <<>>
  BY <1>1, ArgsEmpty
<1>3. BeingRead(c) = <<>>
  BY <1>1 DEF BeingRead, Reacting
<1>4. <<>> \o <<>> = <<>> /\ Upto(0) = <<>>
  BY DEF Upto
<1>5. Back(c) \o Ahead(c) = Upto(alive[c])
  BY <1>1, <1>2, <1>3, <1>4, Zenon DEF Back, Ahead, Line
<1>6. QED
  BY <1>5 DEF KeptAt

\* connection.py:311-315: while the server is there, each of its keep alives is on its
\* way to the client, being read, on its way back or back, once and in the order sent:
\* whatever else travels between the two, however the application and the networking
\* thread interleave and whatever the batch sizes, in a process with one connection.
THEOREM KeepsKeepAlives == ASSUME OneConnection PROVE Spec => []KeepAlivesKept
<1>1. StreamInv => StreamInStep
  BY DEF StreamInv, StreamAt, Reading, StreamInStep
<1>2. TypeOK /\ ScriptInv /\ StreamInv /\ [Next]_vars => StreamInv'
  BY StepStream
<1>3. TypeOK /\ TypeOK' /\ ScriptInv /\ StreamInStep' /\ KeepAlivesKept /\ [Next]_vars
        => KeepAlivesKept'
  BY StepKept
<1>4. QED
  BY <1>1, <1>2, <1>3, InitType, StepType, InitScript, StepScript, InitStream, InitKept, PTL
  DEF Spec

-----------------------------------------------------------------------------
(* The chats, of a process whose application forces none out *)

SentAt(c) == stage[c] # "closed" =>
  IF netpc[c] = "dead"
    THEN \E k \in 0 .. written : heard[c] \o ArgsOf("chat", c2s[c]) = Upto(k)
    ELSE heard[c] \o Line("chat", c) = Upto(written)

LEMMA ChatsWhole == TypeOK => (ChatsKept <=> \A c \in Conns : SentAt(c))
<1> SUFFICES ASSUME TypeOK
             PROVE  \A c \in Conns :
                      heard[c] \o ArgsOf("chat", c2s[c]) \o ArgsOf("chat", queue)
                        = heard[c] \o Line("chat", c)
  BY Zenon DEF ChatsKept, SentAt, Upto
<1> TAKE c \in Conns
<1>1. heard[c] \in Seq(Nat)
  BY DEF TypeOK, ServerType
<1>2. ArgsOf("chat", c2s[c]) \in Seq(Nat) /\ ArgsOf("chat", queue) \in Seq(Nat)
  BY Lines
<1>3. QED
  BY <1>1, <1>2, Rebracket, Zenon DEF Line

LEMMA ChatsWholeNext == TypeOK' => (ChatsKept' <=> \A c \in Conns : SentAt(c)')
<1> SUFFICES ASSUME TypeOK'
             PROVE  \A c \in Conns :
                      (heard[c] \o ArgsOf("chat", c2s[c]) \o ArgsOf("chat", queue))'
                        = (heard[c] \o Line("chat", c))'
  BY Zenon DEF ChatsKept, SentAt, Upto
<1> TAKE c \in Conns
<1>1. heard'[c] \in Seq(Nat)
  BY DEF TypeOK, ServerType
<1>2. ArgsOf("chat", c2s[c])' \in Seq(Nat) /\ ArgsOf("chat", queue)' \in Seq(Nat)
  BY LinesNext
<1>3. QED
  BY <1>1, <1>2, Rebracket, Zenon DEF Line

\* What begins 1, 2, ... m is some 1, 2, ... k.
LEMMA FirstOfUpto ==
  ASSUME NEW m \in Nat, NEW p \in Seq(Nat), NEW r \in Seq(Nat), p \o r = Upto(m)
  PROVE  \E k \in 0 .. m : p = Upto(k)
<1> DEFINE t == p \o r
           u == Upto(m)
           v == Upto(Len(p))
<1>1. /\ Len(p) \in Nat /\ Len(t) = Len(p) + Len(r) /\ Len(r) \in Nat
      /\ \A i \in 1 .. Len(p) : t[i] = p[i]
  OBVIOUS
<1>2. Len(u) = m /\ \A i \in 1 .. m : u[i] = i
  BY UptoNext DEF Upto
<1>3. v \in Seq(Nat) /\ Len(v) = Len(p) /\ \A i \in 1 .. Len(p) : v[i] = i
  BY <1>1, UptoNext DEF Upto
<1>4. t = u
  OBVIOUS
<1> HIDE DEF t, u, v
<1>5. Len(p) \in 0 .. m /\ \A i \in 1 .. Len(p) : p[i] = v[i]
  BY <1>1, <1>2, <1>3, <1>4
<1>6. p = v
  BY <1>3, <1>5, SeqEqual
<1>7. QED
  BY <1>5, <1>6 DEF v

LEMMA SameSent ==
  ASSUME NEW c \in Conns, SentAt(c), stage[c] # "closed", heard'[c] = heard[c],
         UNCHANGED written, netpc'[c] = "dead" <=> netpc[c] = "dead",
         netpc[c] = "dead" \/ Line("chat", c)' = Line("chat", c),
         netpc[c] # "dead" \/ UNCHANGED c2s
  PROVE  SentAt(c)'
BY Zenon DEF SentAt

\* The thread ends: what has not left the queue is not heard.
LEMMA DeadSent ==
  ASSUME TypeOK, NEW c \in Conns, SentAt(c), stage[c] # "closed", netpc[c] # "dead",
         UNCHANGED <<written, heard, c2s>>, netpc'[c] = "dead"
  PROVE  SentAt(c)'
<1> DEFINE h == heard[c]
           w == ArgsOf("chat", c2s[c])
           q == ArgsOf("chat", queue)
<1>1. /\ h \in Seq(Nat) /\ w \in Seq(Nat) /\ q \in Seq(Nat) /\ written \in Nat
      /\ h \o (w \o q) = Upto(written)
  BY Lines DEF TypeOK, ServerType, CallerType, SentAt, Line
<1> HIDE DEF h, w, q
<1>2. (h \o w) \o q = Upto(written) /\ h \o w \in Seq(Nat)
  BY <1>1, Rebracket, Zenon
<1>3. \E k \in 0 .. written : h \o w = Upto(k)
  BY <1>1, <1>2, FirstOfUpto
<1>4. QED
  BY <1>3, Zenon DEF SentAt, h, w

\* A chat written joins the queue.
LEMMA WriteSent ==
  ASSUME Urgent = {}, TypeOK, NEW c \in Conns, SentAt(c), stage[c] # "closed", WriteChat(c)
  PROVE  SentAt(c)' /\ written' = written + 1 /\ heard' = heard
<1> DEFINE h == heard[c]
           l == Line("chat", c)
           m == written
<1>1. /\ written' = m + 1 /\ Enqueue(c, "chat", m + 1) /\ UNCHANGED <<c2s, heard, netpc, stage>>
  BY DEF WriteChat, server, thread
<1>2. m \in Nat /\ m + 1 \in Nat /\ h \in Seq(Nat) /\ l \in Seq(Nat)
  BY Lines DEF TypeOK, CallerType, ServerType
<1>3. CASE netpc[c] # "dead"
  <2>1. Line("chat", c)' = l \o <<m + 1>>
    <3>1. "chat" \in Serverbound
      BY DEF Serverbound
    <3>2. QED
      BY <1>1, <1>2, <3>1, LineEnqueue
  <2>2. h \o l = Upto(m)
    BY <1>3 DEF SentAt
  <2> HIDE DEF h, l, m
  <2>3. h \o (l \o <<m + 1>>) = (h \o l) \o <<m + 1>>
    <3>1. <<m + 1>> \in Seq(Nat)
      BY <1>2
    <3>2. QED
      BY <1>2, <3>1, Rebracket, Zenon
  <2>4. Upto(m) \o <<m + 1>> = Upto(m + 1)
    BY <1>2, UptoNext
  <2>5. heard'[c] \o Line("chat", c)' = Upto(m + 1)
    BY <1>1, <2>1, <2>2, <2>3, <2>4, Zenon DEF h
  <2>6. QED
    BY <1>1, <1>3, <2>5 DEF SentAt, m
<1>4. CASE netpc[c] = "dead"
  <2>1. PICK k \in 0 .. m : h \o ArgsOf("chat", c2s[c]) = Upto(k)
    BY <1>4 DEF SentAt
  <2>2. k \in 0 .. m + 1
    BY <1>2
  <2>3. (heard[c] \o ArgsOf("chat", c2s[c]))' = Upto(k) /\ netpc'[c] = "dead"
    BY <1>1, <1>4, <2>1, Zenon DEF h
  <2>4. QED
    BY <1>1, <2>2, <2>3, Zenon DEF SentAt, m
<1>5. QED
  BY <1>1, <1>3, <1>4 DEF m

\* The chats taken are those that come first.
LEMMA HeardSent ==
  ASSUME TypeOK, NEW c \in Conns, SentAt(c), stage[c] # "closed", ServerTake(c)
  PROVE  /\ SentAt(c)' /\ heard'[c] = heard[c] \o Arg("chat", Head(c2s[c]))
         /\ \E r \in Seq(Nat), k \in 0 .. written :
              (heard[c] \o Arg("chat", Head(c2s[c]))) \o r = Upto(k)
<1> DEFINE k == "chat"
           f == Head(c2s[c])
           a == Arg("chat", f)
           b == Line("chat", c)'
           w == ArgsOf("chat", c2s[c])'
           e == heard[c]
<1>1. f \in FrameUp /\ a \in Seq(Nat) /\ b \in Seq(Nat) /\ e \in Seq(Nat)
      /\ Line("chat", c) = a \o b
  BY LineTake DEF TypeOK, ServerType
<1>2. heard'[c] = e \o a
  <2>1. heard' = [heard EXCEPT ![c] = IF f.kind = k THEN Append(heard[c], f.arg) ELSE heard[c]]
    BY Zenon DEF ServerTake
  <2>2. heard \in [Conns -> Seq(Nat)] /\ f.arg \in Nat
    BY <1>1 DEF TypeOK, ServerType, FrameUp
  <2>3. heard'[c] = IF f.kind = k THEN Append(e, f.arg) ELSE e
    BY <2>1, <2>2
  <2> HIDE DEF e, a
  <2>4. CASE f.kind = k
    <3>1. a = <<f.arg>> /\ heard'[c] = Append(e, f.arg)
      BY <2>3, <2>4 DEF Arg, a
    <3>2. Append(e, f.arg) = e \o <<f.arg>>
      BY <1>1, <2>2
    <3>3. QED
      BY <3>1, <3>2, Zenon
  <2>5. CASE f.kind # k
    <3>1. a = <<>> /\ heard'[c] = e
      BY <2>3, <2>5 DEF Arg, a
    <3>2. e \o <<>> = e
      BY <1>1
    <3>3. QED
      BY <3>1, <3>2
  <2>6. QED
    BY <2>4, <2>5
<1>3. written' = written /\ netpc' = netpc /\ written \in Nat
  BY DEF ServerTake, caller, thread, TypeOK, CallerType
<1>4. e \o (a \o b) = (e \o a) \o b
  BY <1>1, Rebracket, Zenon
<1>5. CASE netpc[c] # "dead"
  <2>1. (e \o a) \o b = Upto(written)
    BY <1>1, <1>4, <1>5, Zenon DEF SentAt
  <2>2. SentAt(c)'
    BY <1>2, <1>3, <1>5, <2>1, Zenon DEF SentAt
  <2>3. written \in 0 .. written
    BY <1>3
  <2>4. QED
    BY <1>1, <1>2, <2>1, <2>2, <2>3
<1>6. CASE netpc[c] = "dead"
  <2>1. ArgsOf("chat", c2s[c]) = a \o w /\ w \in Seq(Nat)
    <3>1. /\ c2s[c] \in Seq(FrameUp) /\ c2s[c] # <<>> /\ c2s'[c] = Tail(c2s[c])
      BY DEF ServerTake, TypeOK, WireType
    <3>2. c2s'[c] \in Seq(FrameUp)
      BY <3>1
    <3>3. QED
      BY <3>1, <3>2, ArgsTyped, ArgsFirst, ArgsAre
  <2>2. PICK n0 \in 0 .. written : e \o ArgsOf("chat", c2s[c]) = Upto(n0)
    BY <1>6 DEF SentAt
  <2> HIDE DEF e, a, w, f
  <2>3. (e \o a) \o w = Upto(n0)
    <3>1. e \o (a \o w) = (e \o a) \o w
      BY <1>1, <2>1, Rebracket, Zenon
    <3>2. QED
      BY <2>1, <2>2, <3>1, Zenon
  <2>4. SentAt(c)'
    <3>1. (heard[c] \o ArgsOf("chat", c2s[c]))' = Upto(n0)
      BY <1>2, <2>3, Zenon DEF w
    <3>2. QED
      BY <1>3, <1>6, <3>1, Zenon DEF SentAt
  <2>5. QED
    BY <1>2, <2>1, <2>3, <2>4 DEF e, a, f
<1>7. QED
  BY <1>5, <1>6

\* The other steps.
LEMMA StillSent ==
  ASSUME TypeOK, ScriptInv, NEW c \in Conns, SentAt(c), stage[c] # "closed",
         stage'[c] # "closed", Call(c) \/ Network(c) \/ (Server(c) /\ ~ServerTake(c))
  PROVE  SentAt(c)'
<1>1. UNCHANGED <<written, heard>>
  BY DEF Call, New, Open, Handshake, SetReactor, StartThread, FirstPacket, Network, NetTop,
     NetLock, NetDrained, NetPop, NetPopRaises, NetSelect, NetTimeout, NetEof, NetSpin, NetRead,
     React, ReactKey, NetForce, NetSwap, ReactSuccess, ReactCompression, ReactKeepAlive,
     ReactPosition, ReactResponse, ReactNothing, Server, ServerReject, ServerLogin,
     ServerKeepAlive, ServerPosition, ServerOther, ServerClose, caller, server
<1>2. netpc \in [Conns -> Counters]
  BY DEF TypeOK, ThreadType
<1>3. CASE Call(c)
  <2>1. StartThread(c) => netpc[c] = "none"
    BY DoesWhere DEF StartThread, ScriptInv, ScriptAt, Started
  <2>2. netpc'[c] = "dead" <=> netpc[c] = "dead"
    BY <1>2, <1>3, <2>1 DEF Call, New, Open, Handshake, SetReactor, StartThread, FirstPacket, thread
  <2>3. UNCHANGED c2s
    BY <1>3 DEF Call, New, Open, Handshake, SetReactor, StartThread, FirstPacket
  <2>4. QED
    BY <1>1, <1>3, <2>2, <2>3, LineCall, SameSent
<1>4. CASE Server(c) /\ ~ServerTake(c)
  <2>1. UNCHANGED <<netpc, c2s>>
    BY <1>4 DEF Server, ServerReject, ServerLogin, ServerKeepAlive, ServerPosition,
       ServerOther, ServerClose, thread, TypeOK, ServerType
  <2>2. QED
    BY <1>1, <1>4, <2>1, LineServer, SameSent
<1>5. CASE Network(c) /\ netpc'[c] = "dead"
  <2>1. netpc[c] # "dead"
    BY <1>5 DEF Network, NetTop, NetLock, NetDrained, NetPop, NetPopRaises, NetSelect,
       NetTimeout, NetEof, NetSpin, NetRead, React, Reacting, ReactKey, NetForce, NetSwap,
       ReactSuccess, ReactCompression, ReactKeepAlive, ReactPosition, ReactResponse, ReactNothing
  <2>2. UNCHANGED c2s
    BY <1>2, <1>5, <2>1 DEF Network, NetTop, NetLock, NetDrained, NetPop, NetPopRaises, NetSelect,
       NetTimeout, NetEof, NetSpin, NetRead, React, Reacting, ReactKey, NetForce, NetSwap,
       ReactSuccess, ReactCompression, ReactKeepAlive, ReactPosition, ReactResponse, ReactNothing,
       NextRead, StopWriting, SendRaises
  <2>3. QED
    BY <1>1, <1>5, <2>1, <2>2, DeadSent
<1>6. CASE Network(c) /\ netpc'[c] # "dead"
  <2>1. netpc[c] # "dead"
    BY <1>6 DEF Network, NetTop, NetLock, NetDrained, NetPop, NetPopRaises, NetSelect,
       NetTimeout, NetEof, NetSpin, NetRead, React, Reacting, ReactKey, NetForce, NetSwap,
       ReactSuccess, ReactCompression, ReactKeepAlive, ReactPosition, ReactResponse, ReactNothing
  <2>2. ~NetPopRaises(c)
    BY <1>2, <1>6 DEF NetPopRaises
  <2>3. Line("chat", c)' = Line("chat", c)
    BY <1>6, <2>2, LineNetwork
  <2>4. QED
    BY <1>1, <1>6, <2>1, <2>3, SameSent
<1>7. QED
  BY <1>3, <1>4, <1>5, <1>6

LEMMA StepSent ==
  ASSUME OneConnection, Urgent = {}
  PROVE  TypeOK /\ TypeOK' /\ ScriptInv /\ ChatsKept /\ [Next]_vars => ChatsKept'
<1> SUFFICES ASSUME TypeOK, TypeOK', ScriptInv, ChatsKept, [Next]_vars
             PROVE  ChatsKept'
  OBVIOUS
<1>1. ASSUME NEW c \in Conns PROVE SentAt(c)'
  <2>1. SentAt(c)
    BY ChatsWhole
  <2>2. CASE stage'[c] = "closed"
    BY <2>2 DEF SentAt
  <2>3. CASE stage'[c] # "closed"
    <3>1. stage[c] # "closed"
      BY <2>3, ClosedStays
    <3>2. CASE UNCHANGED vars
      <4>1. UNCHANGED <<queue, c2s, heard, written, netpc>>
        BY <3>2 DEF vars, shared, caller, server, thread
      <4>2. QED
        BY <2>1, <3>1, <4>1, SameLine, SameSent
    <3>3. CASE Next
      <4>1. Call(c) \/ WriteChat(c) \/ Network(c) \/ Server(c)
        BY <3>3 DEF Next, Application, OneConnection
      <4>2. QED
        BY <2>1, <2>3, <3>1, <4>1, WriteSent, HeardSent, StillSent
    <3>4. QED
      BY <3>2, <3>3
  <2>4. QED
    BY <2>2, <2>3
<1>2. QED
  BY <1>1, ChatsWholeNext

LEMMA InitSent == Init => ChatsKept
<1> SUFFICES ASSUME Init, NEW c \in Conns PROVE SentAt(c)
  BY InitType, ChatsWhole
<1>1. queue = <<>> /\ c2s[c] = <<>> /\ heard[c] = <<>> /\ written = 0
  BY DEF Init
<1>2. ArgsOf("chat", c2s[c]) = <<>> /\ ArgsOf("chat", queue) = <<>>
  BY <1>1, ArgsEmpty
<1>3. <<>> \o <<>> = <<>> /\ Upto(0) = <<>>
  BY DEF Upto
<1>4. heard[c] \o Line("chat", c) = Upto(written)
  BY <1>1, <1>2, <1>3, Zenon DEF Line
<1>5. QED
  BY <1>1, <1>4 DEF SentAt, Init
-----------------------------------------------------------------------------
(* What is kept is delivered in order *)

LEMMA ArrivesNext ==
  ASSUME NEW s \in Seq(Nat), NEW a \in Nat, NEW r \in Seq(Nat), NEW m \in Nat,
         (s \o <<a>>) \o r = Upto(m)
  PROVE  a = Len(s) + 1 /\ Len(s) < m
<1> DEFINE t == (s \o <<a>>) \o r
           u == Upto(m)
<1>1. t[Len(s) + 1] = a /\ Len(s) < Len(t) /\ Len(s) \in Nat /\ Len(t) \in Nat
  OBVIOUS
<1>2. Len(u) = m /\ \A i \in 1 .. m : u[i] = i
  BY UptoNext DEF Upto
<1>3. t = u
  OBVIOUS
<1> HIDE DEF t, u
<1>4. QED
  BY <1>1, <1>2, <1>3

LEMMA OnlyIs == TypeOK => Only \in Conns
<1> SUFFICES ASSUME TypeOK PROVE Only \in Conns
  OBVIOUS
<1>1. address \in Conns
  BY DEF TypeOK, SharedType
<1>2. QED
  BY <1>1, Zenon DEF Only

LEMMA OnlyOne ==
  ASSUME OneConnection, NEW c \in Conns
  PROVE  Only = c /\ Only \in Conns
<1>1. Only \in Conns
  BY Zenon DEF Only
<1>2. QED
  BY <1>1 DEF OneConnection

LEMMA StepEchoes ==
  ASSUME OneConnection
  PROVE  TypeOK /\ KeepAlivesKept /\ [Next]_vars
           => [EchoDelivery!Next]_<<alive[Only], echoed[Only]>>
<1> SUFFICES ASSUME TypeOK, KeepAlivesKept, Next
             PROVE  EchoDelivery!Next \/ UNCHANGED <<alive[Only], echoed[Only]>>
  BY DEF vars, server
<1> PICK c \in Conns : Application(c) \/ Network(c) \/ Server(c)
  BY DEF Next
<1>1. Only = c
  BY OnlyOne
<1>2. KeptAt(c)
  BY Whole
<1>3. CASE ServerTake(c)
  <2> DEFINE f == Head(c2s[c])
             e == echoed[c]
             b == Line("keep_alive_serverbound", c)'
             x == Ahead(c)
  <2>1. stage[c] # "closed" /\ alive' = alive
    BY <1>3 DEF ServerTake
  <2>2. /\ echoed'[c] = e \o Arg("keep_alive_serverbound", f) /\ f \in FrameUp
        /\ b \in Seq(Nat)
        /\ Line("keep_alive_serverbound", c) = Arg("keep_alive_serverbound", f) \o b
    BY <1>2, <1>3, <2>1, EchoKept, LineTake
  <2>3. e \in Seq(Nat) /\ f.arg \in Nat /\ alive[c] \in Nat /\ x \in Seq(Nat)
    <3>1. e \in Seq(Nat) /\ f.arg \in Nat /\ alive[c] \in Nat
      BY <2>2 DEF TypeOK, ServerType, FrameUp
    <3>2. x \in Seq(Nat)
      BY Lines, ReadType DEF Ahead
    <3>3. QED
      BY <3>1, <3>2
  <2>4. CASE f.kind # "keep_alive_serverbound"
    <3>1. Arg("keep_alive_serverbound", f) = <<>>
      BY <2>4 DEF Arg
    <3>2. e \o <<>> = e
      BY <2>3
    <3>3. QED
      BY <1>1, <2>1, <2>2, <3>1, <3>2, Zenon
  <2>5. CASE f.kind = "keep_alive_serverbound"
    <3> DEFINE a == f.arg
    <3>1. Arg("keep_alive_serverbound", f) = <<a>>
      BY <2>5 DEF Arg
    <3>2. (e \o (<<a>> \o b)) \o x = Upto(alive[c])
      <4>1. Back(c) = e \o (<<a>> \o b)
        BY <2>2, <3>1, Zenon DEF Back
      <4>2. QED
        BY <1>2, <2>1, <4>1 DEF KeptAt
    <3> HIDE DEF a, b, x, e
    <3>3. (e \o <<a>>) \o (b \o x) = Upto(alive[c]) /\ b \o x \in Seq(Nat)
      <4> DEFINE t == <<a>>
      <4>1. e \in Seq(Nat) /\ t \in Seq(Nat) /\ b \in Seq(Nat) /\ x \in Seq(Nat)
        BY <2>2, <2>3 DEF a
      <4>2. b \o x \in Seq(Nat)
        BY <4>1
      <4> HIDE DEF t
      <4>3. Cat(Cat(e, Cat(t, b)), x) = Cat(Cat(e, t), Cat(b, x))
        BY <4>1, CatIs
      <4>4. QED
        BY <3>2, <4>2, <4>3, Zenon DEF Cat, t
    <3>4. a = Len(e) + 1 /\ Len(e) < alive[c]
      BY <2>3, <3>3, ArrivesNext DEF a
    <3>5. echoed'[c] = e \o <<a>>
      BY <2>2, <3>1, Zenon
    <3>6. echoed'[c] = Append(e, Len(e) + 1)
      BY <2>3, <3>4, <3>5 DEF a
    <3>7. QED
      BY <1>1, <2>1, <3>4, <3>6 DEF EchoDelivery!Next, EchoDelivery!Deliver, e
  <2>6. QED
    BY <2>4, <2>5
<1>4. CASE ServerKeepAlive(c)
  <2>1. alive'[c] = alive[c] + 1 /\ echoed'[c] = echoed[c]
    BY <1>4 DEF ServerKeepAlive, TypeOK, ServerType
  <2>2. QED
    BY <1>1, <2>1 DEF EchoDelivery!Next, EchoDelivery!Send
<1>5. CASE ~ServerTake(c) /\ ~ServerKeepAlive(c)
  <2>1. UNCHANGED <<alive, echoed>>
    BY <1>5 DEF Application, Call, New, Open, Handshake, SetReactor, StartThread, FirstPacket,
       WriteChat, Network, NetTop, NetLock, NetDrained, NetPop, NetPopRaises, NetSelect,
       NetTimeout, NetEof, NetSpin, NetRead, React, ReactKey, NetForce, NetSwap, ReactSuccess,
       ReactCompression, ReactKeepAlive, ReactPosition, ReactResponse, ReactNothing, Server,
       ServerReject, ServerLogin, ServerPosition, ServerOther, ServerClose, server
  <2>2. QED
    BY <2>1
<1>6. QED
  BY <1>3, <1>4, <1>5

LEMMA StepChats ==
  ASSUME OneConnection, Urgent = {}
  PROVE  TypeOK /\ ChatsKept /\ [Next]_vars => [ChatDelivery!Next]_<<written, heard[Only]>>
<1> SUFFICES ASSUME TypeOK, ChatsKept, Next
             PROVE  ChatDelivery!Next \/ UNCHANGED <<written, heard[Only]>>
  BY DEF vars, caller, server
<1> PICK c \in Conns : Application(c) \/ Network(c) \/ Server(c)
  BY DEF Next
<1>1. Only = c
  BY OnlyOne
<1>2. SentAt(c)
  BY ChatsWhole
<1>3. CASE ServerTake(c)
  <2> DEFINE f == Head(c2s[c])
             e == heard[c]
  <2>1. stage[c] # "closed" /\ written' = written
    BY <1>3 DEF ServerTake, caller
  <2>2. heard'[c] = e \o Arg("chat", f) /\ f \in FrameUp
    BY <1>2, <1>3, <2>1, HeardSent, LineTake
  <2>3. PICK b, k0 : b \in Seq(Nat) /\ k0 \in 0 .. written
                      /\ (e \o Arg("chat", f)) \o b = Upto(k0)
    BY <1>2, <1>3, <2>1, HeardSent
  <2>4. e \in Seq(Nat) /\ f.arg \in Nat /\ written \in Nat
    BY <2>2 DEF TypeOK, CallerType, ServerType, FrameUp
  <2>5. CASE f.kind # "chat"
    <3>1. Arg("chat", f) = <<>>
      BY <2>5 DEF Arg
    <3>2. e \o <<>> = e
      BY <2>4
    <3>3. QED
      BY <1>1, <2>1, <2>2, <3>1, <3>2, Zenon
  <2>6. CASE f.kind = "chat"
    <3> DEFINE a == f.arg
    <3>1. Arg("chat", f) = <<a>>
      BY <2>6 DEF Arg
    <3> HIDE DEF a, e
    <3>2. (e \o <<a>>) \o b = Upto(k0) /\ k0 \in Nat /\ k0 <= written
      <4>1. (e \o <<a>>) \o b = Upto(k0)
        BY <2>3, <3>1, Zenon
      <4>2. k0 \in Nat /\ k0 <= written
        BY <2>3, <2>4
      <4>3. QED
        BY <4>1, <4>2
    <3>3. a = Len(e) + 1 /\ Len(e) < k0
      BY <2>3, <2>4, <3>2, ArrivesNext DEF a
    <3>4. Len(e) < written /\ Len(e) \in Nat
      BY <2>4, <3>2, <3>3
    <3>5. heard'[c] = e \o <<a>>
      BY <2>2, <3>1, Zenon
    <3>6. heard'[c] = Append(e, Len(e) + 1)
      BY <2>4, <3>3, <3>5 DEF a
    <3>7. QED
      BY <1>1, <2>1, <3>4, <3>6 DEF ChatDelivery!Next, ChatDelivery!Deliver, e
  <2>7. QED
    BY <2>5, <2>6
<1>4. CASE WriteChat(c)
  <2>1. written' = written + 1 /\ heard' = heard
    BY <1>4 DEF WriteChat, server
  <2>2. QED
    BY <1>1, <2>1 DEF ChatDelivery!Next, ChatDelivery!Send
<1>5. CASE ~ServerTake(c) /\ ~WriteChat(c)
  <2>1. UNCHANGED <<written, heard>>
    BY <1>5 DEF Application, Call, New, Open, Handshake, SetReactor, StartThread, FirstPacket,
       Network, NetTop, NetLock, NetDrained, NetPop, NetPopRaises, NetSelect,
       NetTimeout, NetEof, NetSpin, NetRead, React, ReactKey, NetForce, NetSwap, ReactSuccess,
       ReactCompression, ReactKeepAlive, ReactPosition, ReactResponse, ReactNothing, Server,
       ServerReject, ServerLogin, ServerKeepAlive, ServerPosition, ServerOther, ServerClose,
       caller, server
  <2>2. QED
    BY <2>1
<1>6. QED
  BY <1>3, <1>4, <1>5

\* connection.py:311-315: what a server gets back is a delivery in order of the keep
\* alives it sends: each once, none before it was sent, none twice, whatever happens
\* to the connection, in a process with one connection.
THEOREM DeliversEchoes == ASSUME OneConnection PROVE Spec => EchoesInOrder
<1>1. Init => EchoDelivery!Init
  <2> SUFFICES ASSUME Init PROVE EchoDelivery!Init
    OBVIOUS
  <2>2. Only \in Conns
    BY InitType, OnlyIs
  <2>3. alive[Only] = 0 /\ echoed[Only] = <<>>
    BY <2>2 DEF Init
  <2>4. QED
    BY <2>3 DEF EchoDelivery!Init
<1>2. Spec => []KeepAlivesKept
  BY KeepsKeepAlives
<1>3. TypeOK /\ KeepAlivesKept /\ [Next]_vars
        => [EchoDelivery!Next]_<<alive[Only], echoed[Only]>>
  BY StepEchoes
<1>4. QED
  BY <1>1, <1>2, <1>3, Typing, PTL DEF Spec, EchoesInOrder, EchoDelivery!Spec

\* connection.py:60-109, 164-176: the chats of an application that forces none out reach the
\* server of its only connection in the order of the write_packet calls, each once.
THEOREM DeliversChats ==
  ASSUME OneConnection, Urgent = {}
  PROVE  Spec => ChatsInOrder
<1>1. Init => ChatDelivery!Init
  <2> SUFFICES ASSUME Init PROVE ChatDelivery!Init
    OBVIOUS
  <2>2. Only \in Conns
    BY InitType, OnlyIs
  <2>3. written = 0 /\ heard[Only] = <<>>
    BY <2>2 DEF Init
  <2>4. QED
    BY <2>3 DEF ChatDelivery!Init
<1>2. TypeOK /\ TypeOK' /\ ScriptInv /\ ChatsKept /\ [Next]_vars => ChatsKept'
  BY StepSent
<1>3. TypeOK /\ ChatsKept /\ [Next]_vars => [ChatDelivery!Next]_<<written, heard[Only]>>
  BY StepChats
<1>4. QED
  BY <1>1, <1>2, <1>3, InitType, StepType, InitScript, StepScript, InitSent, PTL
  DEF Spec, ChatsInOrder, ChatDelivery!Spec
=============================================================================
