---------------------------- MODULE PacketProofs ----------------------------
(***************************************************************************)
(* The way of a packet, proved: what VarInt.send writes, VarInt.read and   *)
(* read_socket read, for every number of five groups, whatever follows it  *)
(* and however many numbers a group of bits can hold; that no listener     *)
(* misses a packet; that the client stays in step with the packets,        *)
(* through the cipher and whatever zlib makes of them; that servers can    *)
(* read what it writes; and that keep alives are answered exactly.         *)
(***************************************************************************)
EXTENDS PacketReader, SequenceLemmas, FiniteSetTheorems

(* Arithmetic *)

\* Division by the size of a group, and what is left.
LEMMA Division ==
  ASSUME NEW a \in Nat
  PROVE  /\ a \div Group \in Nat /\ a % Group \in 0 .. Group - 1
         /\ a = (a % Group) + Group * (a \div Group)
<1> USE VarIntAssumption DEF VarIntAssumption
<1>1. a % Group \in 0 .. Group - 1
  BY SMT
<1>2. a \div Group \in Int /\ a = Group * (a \div Group) + (a % Group)
  BY SMT
<1>3. a \div Group >= 0
  BY SMT
<1>4. QED
  BY <1>1, <1>2, <1>3

\* A number shifted is smaller by a group.
LEMMA Smaller ==
  ASSUME NEW a \in Nat, NEW b \in Nat, a < Group * b
  PROVE  a \div Group < b
BY VarIntAssumption, SMT DEF VarIntAssumption

\* The eighth bit is no part of a group.
LEMMA Flag ==
  ASSUME NEW d \in 0 .. Group - 1
  PROVE  d % Group = d /\ (d + Group) % Group = d
BY VarIntAssumption, SMT DEF VarIntAssumption

LEMMA ZeroShifted ==
  0 \div Group = 0 /\ 0 % Group = 0
BY VarIntAssumption, SMT DEF VarIntAssumption
-----------------------------------------------------------------------------
(* Sending *)

\* The groups of a number, from the lowest to the fifth, make it up.
LEMMA Groups ==
  ASSUME NEW v \in VarInts
  PROVE  /\ \A i \in 1 .. 5 : Shifted(v)[i] \in Nat
         /\ \A i \in 1 .. 4 : Shifted(v)[i + 1] = Shifted(v)[i] \div Group
         /\ v = (Shifted(v)[1] % Group) + Group * ((Shifted(v)[2] % Group)
                  + Group * ((Shifted(v)[3] % Group) + Group * ((Shifted(v)[4] % Group)
                  + Group * (Shifted(v)[5] % Group))))
<1> DEFINE a1 == v \div Group
           a2 == a1 \div Group
           a3 == a2 \div Group
           a4 == a3 \div Group
           g1 == Group
           g2 == Group * g1
           g3 == Group * g2
           g4 == Group * g3
<1>1. /\ Shifted(v)[1] = v /\ Shifted(v)[2] = a1 /\ Shifted(v)[3] = a2
      /\ Shifted(v)[4] = a3 /\ Shifted(v)[5] = a4
  BY DEF Shifted
<1>2. v \in Nat /\ g1 \in Nat /\ g2 \in Nat /\ g3 \in Nat /\ g4 \in Nat /\ v < Group * g4
  BY VarIntAssumption DEF VarIntAssumption, VarInts
<1> HIDE DEF g2, g3, g4
<1>3. a1 \in Nat /\ v = (v % Group) + Group * a1 /\ a1 < g4
  BY <1>2, Division, Smaller
<1> HIDE DEF a1
<1>4. a2 \in Nat /\ a1 = (a1 % Group) + Group * a2 /\ a2 < g3
  BY <1>2, <1>3, Division, Smaller DEF g4
<1> HIDE DEF a2
<1>5. a3 \in Nat /\ a2 = (a2 % Group) + Group * a3 /\ a3 < g2
  BY <1>2, <1>4, Division, Smaller DEF g3
<1> HIDE DEF a3
<1>6. a4 \in Nat /\ a3 = (a3 % Group) + Group * a4 /\ a4 < Group
  BY <1>2, <1>5, Division, Smaller DEF g2
<1>7. a4 % Group = a4
  BY <1>6, Flag, VarIntAssumption DEF VarIntAssumption
<1>8. v = (v % Group) + Group * ((a1 % Group) + Group * ((a2 % Group)
             + Group * ((a3 % Group) + Group * (a4 % Group))))
  BY <1>3, <1>4, <1>5, <1>6, <1>7, Zenon
<1>9. \A i \in 1 .. 5 : Shifted(v)[i] \in Nat
  BY <1>1, <1>2, <1>3, <1>4, <1>5, <1>6
<1>10. \A i \in 1 .. 4 : Shifted(v)[i + 1] = Shifted(v)[i] \div Group
  BY <1>1 DEF a1, a2, a3
<1>11. QED
  BY <1>1, <1>8, <1>9, <1>10

\* Once nothing is left, nothing is in the groups that follow.
LEMMA NothingAfter ==
  ASSUME NEW v \in VarInts, NEW n \in 1 .. 5, n = 5 \/ Shifted(v)[n + 1] = 0
  PROVE  \A i \in n + 1 .. 5 : Shifted(v)[i] % Group = 0
<1> DEFINE s(i) == Shifted(v)[i]
<1>1. \A i \in 1 .. 4 : s(i + 1) = s(i) \div Group
  BY Groups
<1>2. \A i \in 1 .. 4 : s(i) = 0 => s(i + 1) = 0
  BY <1>1, ZeroShifted
<1>3. n + 1 \in 1 .. 5 => s(n + 1) = 0
  OBVIOUS
<1> HIDE DEF s
<1>4. \A i \in n + 1 .. 5 : s(i) = 0
  <2>1. s(2) = 0 => s(3) = 0
    BY <1>2
  <2>2. s(3) = 0 => s(4) = 0
    BY <1>2
  <2>3. s(4) = 0 => s(5) = 0
    BY <1>2
  <2>4. QED
    BY <1>3, <2>1, <2>2, <2>3
<1>5. QED
  BY <1>4, ZeroShifted DEF s

\* VarInt.send writes as many bytes as there are groups with something in them.
LEMMA SizeIs ==
  ASSUME NEW v
  PROVE  /\ Size(v) \in 1 .. 5
         /\ Size(v) = 5 \/ Shifted(v)[Size(v) + 1] = 0
         /\ \A m \in 1 .. Size(v) - 1 : Shifted(v)[m + 1] # 0
<1> DEFINE P(n) == /\ n = 5 \/ Shifted(v)[n + 1] = 0
                   /\ \A m \in 1 .. n - 1 : Shifted(v)[m + 1] # 0
<1>1. \E n \in 1 .. 5 : P(n)
  <2>1. CASE Shifted(v)[2] = 0
    BY <2>1
  <2>2. CASE Shifted(v)[2] # 0 /\ Shifted(v)[3] = 0
    BY <2>2
  <2>3. CASE Shifted(v)[2] # 0 /\ Shifted(v)[3] # 0 /\ Shifted(v)[4] = 0
    BY <2>3
  <2>4. CASE Shifted(v)[2] # 0 /\ Shifted(v)[3] # 0 /\ Shifted(v)[4] # 0
             /\ Shifted(v)[5] = 0
    BY <2>4
  <2>5. CASE Shifted(v)[2] # 0 /\ Shifted(v)[3] # 0 /\ Shifted(v)[4] # 0
             /\ Shifted(v)[5] # 0
    BY <2>5
  <2>6. QED
    BY <2>1, <2>2, <2>3, <2>4, <2>5
<1>2. Size(v) = CHOOSE n \in 1 .. 5 : P(n)
  BY DEF Size
<1> HIDE DEF P
<1>3. Size(v) \in 1 .. 5 /\ P(Size(v))
  BY <1>1, <1>2
<1>4. QED
  BY <1>3 DEF P

\* The bytes it writes: each has a group, and all but the last the eighth bit.
LEMMA SentIs ==
  ASSUME NEW v \in VarInts
  PROVE  /\ Sent(v) \in Seq(Octet) /\ Len(Sent(v)) = Size(v)
         /\ \A i \in 1 .. Size(v) :
              /\ Sent(v)[i] \in Octet
              /\ Sent(v)[i] % Group = Shifted(v)[i] % Group
              /\ Sent(v)[i] >= Group <=> i < Size(v)
<1>1. Size(v) \in 1 .. 5
  BY SizeIs
<1>2. ASSUME NEW i \in 1 .. Size(v)
      PROVE  /\ Sent(v)[i] \in Octet
             /\ Sent(v)[i] % Group = Shifted(v)[i] % Group
             /\ Sent(v)[i] >= Group <=> i < Size(v)
  <2> DEFINE d == Shifted(v)[i] % Group
  <2>1. d \in 0 .. Group - 1
    BY <1>1, Groups, Division
  <2>2. Sent(v)[i] = d + (IF i < Size(v) THEN Group ELSE 0)
    BY <1>1 DEF Sent
  <2> HIDE DEF d
  <2>3. Sent(v)[i] % Group = d
    BY <2>1, <2>2, Flag
  <2>4. QED
    BY <2>1, <2>2, <2>3, <1>1, VarIntAssumption DEF VarIntAssumption, Octet, d
<1>3. Sent(v) = [i \in 1 .. Size(v) |-> Sent(v)[i]]
  BY DEF Sent
<1>4. QED
  BY <1>1, <1>2, <1>3
-----------------------------------------------------------------------------
(* Reading *)

\* The reader stops at the first byte without the eighth bit.
LEMMA UsedIs ==
  ASSUME NEW s \in Seq(Octet), NEW n \in 1 .. 5, n <= Len(s),
         n = 5 \/ s[n] < Group, \A m \in 1 .. n - 1 : s[m] >= Group
  PROVE  Used(s) = n /\ Whole(s)
<1> DEFINE P(k) == /\ k = 5 \/ s[k] < Group
                   /\ \A m \in 1 .. k - 1 : s[m] >= Group
<1>1. P(n)
  OBVIOUS
<1>2. \A i \in 1 .. n : s[i] \in Int
  BY VarIntAssumption DEF VarIntAssumption, Octet
<1>3. Group \in Int
  BY VarIntAssumption DEF VarIntAssumption
<1>4. ASSUME NEW k \in 1 .. 5, P(k) PROVE k = n
  <2>1. ~(k < n)
    BY <1>2, <1>3, <1>4
  <2>2. ~(n < k)
    <3> SUFFICES ASSUME n < k PROVE FALSE
      OBVIOUS
    <3>1. s[n] >= Group /\ n # 5
      BY <1>4
    <3>2. QED
      BY <3>1, <1>2, <1>3
  <2>3. QED
    BY <2>1, <2>2
<1>5. Used(s) = CHOOSE k \in 1 .. 5 : P(k)
  BY DEF Used
<1> HIDE DEF P
<1>6. Used(s) = n
  BY <1>1, <1>4, <1>5
<1>7. Whole(s)
  BY DEF Whole
<1>8. QED
  BY <1>6, <1>7

\* A number sent and read is the number, whatever follows it in the stream, and as
\* many bytes are taken from the stream as were sent: keep alive ids, lengths and
\* packet ids up to five groups of bits arrive as they are.
THEOREM VarIntRoundTrip ==
  ASSUME NEW v \in VarInts, NEW rest \in Seq(Octet)
  PROVE  /\ Whole(Sent(v) \o rest)
         /\ Used(Sent(v) \o rest) = Len(Sent(v))
         /\ Received(Sent(v) \o rest) = v
<1> DEFINE s == Sent(v) \o rest
           n == Size(v)
           group(i) == IF i <= n THEN s[i] % Group ELSE 0
<1>1. n \in 1 .. 5 /\ Len(Sent(v)) = n /\ Sent(v) \in Seq(Octet)
  BY SizeIs, SentIs
<1>2. s \in Seq(Octet) /\ n <= Len(s) /\ \A i \in 1 .. n : s[i] = Sent(v)[i]
  BY <1>1
<1>3. n = 5 \/ s[n] < Group
  <2>1. s[n] \in Octet /\ ~(s[n] >= Group)
    BY <1>1, <1>2, SentIs
  <2> HIDE DEF s, n
  <2>2. QED
    BY <2>1, VarIntAssumption DEF VarIntAssumption, Octet
<1>4. \A m \in 1 .. n - 1 : s[m] >= Group
  BY <1>1, <1>2, SentIs
<1> HIDE DEF s, n
<1>5. Used(s) = n /\ Whole(s)
  BY <1>1, <1>2, <1>3, <1>4, UsedIs
<1>6. \A i \in 1 .. 5 : group(i) = Shifted(v)[i] % Group
  <2>1. \A i \in 1 .. n : s[i] % Group = Shifted(v)[i] % Group
    BY <1>1, <1>2, SentIs DEF n
  <2>2. \A i \in n + 1 .. 5 : Shifted(v)[i] % Group = 0
    BY <1>1, SizeIs, NothingAfter DEF n
  <2>3. QED
    BY <1>1, <2>1, <2>2
<1>7. Received(s) = group(1) + Group * (group(2) + Group * (group(3)
                      + Group * (group(4) + Group * group(5))))
  BY <1>5, Zenon DEF Received
<1> HIDE DEF group
<1>8. Received(s) = v
  <2>1. /\ group(1) = Shifted(v)[1] % Group /\ group(2) = Shifted(v)[2] % Group
        /\ group(3) = Shifted(v)[3] % Group /\ group(4) = Shifted(v)[4] % Group
        /\ group(5) = Shifted(v)[5] % Group
    BY <1>6
  <2>2. QED
    BY <1>7, <2>1, Groups, Zenon
<1>9. QED
  BY <1>1, <1>5, <1>8 DEF s, n
-----------------------------------------------------------------------------
(* The listeners *)

IsSeq(s) == \E S : s \in Seq(S)

\* How many packets the listeners have been through.
Done == IF pc \in {"waiting", "body", "parsing"} THEN Len(taken) ELSE Len(taken) - 1

Notified(l, k) ==
  (\E class \in Range(packet_listeners[l]) : IsInstance(taken[k], class)) => <<l, k>> \in calls

\* Types of what is registered.
ListenersOK ==
  /\ packets_to_listen \in Seq(Int) /\ packet_listeners \in Seq(Seq(Int))
  /\ since \in Seq(Nat) /\ Len(since) = Len(packet_listeners)
  /\ registering \in [busy : BOOLEAN, args : Seq(Int), added : Nat]
  /\ registering.added <= Len(registering.args)
  /\ IsSeq(taken)
  /\ at \in Nat \X Nat /\ at[2] <= Len(packets_to_listen) + 1

\* The classes of a listener are in the list before the listener is.
ClassesListed ==
  /\ \A l \in 1 .. Len(packet_listeners) :
       \A i \in 1 .. Len(packet_listeners[l]) :
         \E j \in 1 .. Len(packets_to_listen) : packets_to_listen[j] = packet_listeners[l][i]
  /\ \A i \in 1 .. registering.added :
       \E j \in 1 .. Len(packets_to_listen) : packets_to_listen[j] = registering.args[i]

\* The packet in hand is the last one taken.
InHand == pc \in {"reacting", "listening"} =>
  taken # <<>> /\ packet = taken[Len(taken)]

\* The listeners have been called for the packets before; with the one in hand, those
\* before the one the thread is at, and that one for the classes before the one it is at.
CalledSoFar ==
  /\ \A l \in 1 .. Len(packet_listeners) : \A k \in since[l] + 1 .. Done : Notified(l, k)
  /\ pc = "listening" => \A l \in 1 .. Len(packet_listeners) : since[l] < Len(taken) =>
       /\ l < at[1] => Notified(l, Len(taken))
       /\ l = at[1] => \A j \in 1 .. Len(packets_to_listen) :
            j < at[2] /\ IsInstance(packet, packets_to_listen[j]) => <<l, Len(taken)>> \in calls

ListenInv == ListenersOK /\ ClassesListed /\ InHand /\ CalledSoFar

LEMMA SinceIs ==
  ListenersOK => /\ Len(taken) \in Nat /\ Len(packet_listeners) \in Nat
                 /\ \A l \in 1 .. Len(packet_listeners) : since[l] \in Nat
<1> SUFFICES ASSUME ListenersOK
             PROVE  /\ Len(taken) \in Nat /\ Len(packet_listeners) \in Nat
                    /\ \A l \in 1 .. Len(packet_listeners) : since[l] \in Nat
  OBVIOUS
<1>1. /\ since \in Seq(Nat) /\ Len(since) = Len(packet_listeners) /\ IsSeq(taken)
      /\ packet_listeners \in Seq(Seq(Int))
  BY DEF ListenersOK
<1>2. QED
  BY <1>1 DEF IsSeq

LEMMA InvMisses == ListenInv => NoneMissed
<1> SUFFICES ASSUME ListenInv, pc = "waiting", NEW l \in DOMAIN packet_listeners,
                    NEW k \in since[l] + 1 .. Len(taken)
             PROVE  Notified(l, k)
  BY DEF NoneMissed, Notified
<1>1. l \in 1 .. Len(packet_listeners)
  BY DEF ListenInv, ListenersOK
<1>2. Done = Len(taken)
  BY DEF Done
<1>3. QED
  BY <1>1, <1>2 DEF ListenInv, CalledSoFar

LEMMA InitListen == Init => ListenInv
<1> SUFFICES ASSUME Init PROVE ListenInv
  OBVIOUS
<1>1. /\ packets_to_listen = <<>> /\ packet_listeners = <<>> /\ since = <<>> /\ taken = <<>>
      /\ registering = Idle /\ pc = "waiting" /\ at = <<1, 1>>
  BY DEF Init, ListenersInit
<1>2. <<>> \in Seq(Int) /\ <<>> \in Seq(Seq(Int)) /\ <<>> \in Seq(Nat) /\ Len(<<>>) = 0
  OBVIOUS
<1>3. ListenersOK
  BY <1>1, <1>2 DEF ListenersOK, IsSeq, Idle
<1>4. QED
  BY <1>1, <1>2, <1>3 DEF ListenInv, ClassesListed, InHand, CalledSoFar, Idle

\* Where the thread is, and what has been taken, stay; so do the calls.
LEMMA Elsewhere ==
  ASSUME ListenInv, UNCHANGED <<listening, since, taken, packet, at>>,
         \/ pc' = pc
         \/ pc \in {"waiting", "body"} /\ pc' \in {"body", "parsing"}
         \/ pc' \in {"lost", "spinning", "broken", "failed"}
  PROVE  ListenInv'
<1>1. UNCHANGED <<packets_to_listen, packet_listeners, registering, calls>>
  BY DEF listening
<1>2. ListenersOK' /\ ClassesListed'
  BY <1>1 DEF ListenInv, ListenersOK, IsSeq, ClassesListed
<1>3. InHand'
  BY DEF ListenInv, InHand
<1>4. Len(taken) \in Nat /\ \A l \in 1 .. Len(packet_listeners) : since[l] \in Nat
  BY SinceIs DEF ListenInv
<1>5. Done' <= Done /\ Done \in Int /\ Done' \in Int
  BY <1>4 DEF Done
<1>6. \A l, k : Notified(l, k)' = Notified(l, k)
  BY <1>1 DEF Notified
<1>7. ASSUME NEW l \in 1 .. Len(packet_listeners), NEW k \in since[l] + 1 .. Done'
      PROVE  Notified(l, k)'
  BY <1>4, <1>5, <1>6 DEF ListenInv, CalledSoFar
<1>8. pc' = "listening" => pc = "listening"
  OBVIOUS
<1>9. CalledSoFar'
  BY <1>1, <1>6, <1>7, <1>8 DEF ListenInv, CalledSoFar
<1>10. QED
  BY <1>2, <1>3, <1>9 DEF ListenInv

LEMMA ParseListen ==
  ASSUME ListenInv, Parse
  PROVE  ListenInv'
<1>1. UNCHANGED <<packets_to_listen, packet_listeners, registering, calls, since, at, listening>>
  BY DEF Parse, listening
<1>2. CASE UNCHANGED <<packet, taken>> /\ pc' = "broken"
  BY <1>1, <1>2, Elsewhere
<1>3. CASE taken' = Append(taken, packet') /\ pc' = "reacting" /\ pc = "parsing"
  <2>1. PICK S : taken \in Seq(S)
    BY DEF ListenInv, ListenersOK, IsSeq
  <2> DEFINE T == S \cup {packet'}
  <2>2. taken \in Seq(T) /\ packet' \in T
    BY <2>1, SeqMonotonic
  <2> HIDE DEF T
  <2>3. /\ taken' \in Seq(T) /\ Len(taken') = Len(taken) + 1 /\ taken'[Len(taken')] = packet'
        /\ \A k \in 1 .. Len(taken) : taken'[k] = taken[k]
        /\ Len(taken) \in Nat /\ taken' # <<>>
    BY <1>3, <2>2, AppendProperties
  <2>4. ListenersOK' /\ ClassesListed'
    BY <1>1, <2>3, Zenon DEF ListenInv, ListenersOK, IsSeq, ClassesListed
  <2>5. InHand'
    BY <2>3 DEF InHand
  <2>6. Done' = Done /\ Done = Len(taken)
    BY <1>3, <2>3 DEF Done
  <2>7. ASSUME NEW l \in 1 .. Len(packet_listeners), NEW k \in since[l] + 1 .. Done
        PROVE  Notified(l, k)'
    <3>1. since[l] \in Nat
      BY SinceIs DEF ListenInv
    <3>2. k \in 1 .. Len(taken)
      BY <2>3, <2>6, <3>1
    <3>3. Notified(l, k)
      BY DEF ListenInv, CalledSoFar
    <3>4. QED
      BY <1>1, <2>3, <3>2, <3>3 DEF Notified
  <2>8. CalledSoFar'
    BY <1>1, <1>3, <2>6, <2>7 DEF CalledSoFar
  <2>9. QED
    BY <2>4, <2>5, <2>8 DEF ListenInv
<1>4. QED
  BY <1>2, <1>3, Zenon DEF Parse

LEMMA ReactListen ==
  ASSUME ListenInv, React
  PROVE  ListenInv'
<1>1. UNCHANGED <<packets_to_listen, packet_listeners, registering, calls, since, taken, packet,
                  listening>>
  BY DEF React, listening
<1>2. CASE pc' = "broken" /\ at' = at
  BY <1>1, <1>2, Elsewhere
<1>3. CASE pc = "reacting" /\ pc' = "listening" /\ at' = <<1, 1>>
  <2>1. ListenersOK' /\ ClassesListed' /\ InHand'
    <3>1. Len(packets_to_listen) \in Nat
      BY DEF ListenInv, ListenersOK
    <3>2. QED
      BY <1>1, <1>3, <3>1 DEF ListenInv, ListenersOK, IsSeq, ClassesListed, InHand
  <2>2. Done' = Done
    BY <1>1, <1>3 DEF Done
  <2>3. \A l, k : Notified(l, k)' = Notified(l, k)
    BY <1>1 DEF Notified
  <2>4. at'[1] = 1 /\ at'[2] = 1
    BY <1>3
  <2>5. \A l \in 1 .. Len(packet_listeners') : ~(l < at'[1])
    BY <2>4
  <2>6. \A j \in 1 .. Len(packets_to_listen') : ~(j < at'[2])
    BY <2>4
  <2>7. \A l \in 1 .. Len(packet_listeners') : \A k \in since'[l] + 1 .. Done' : Notified(l, k)'
    BY <1>1, <2>2, <2>3 DEF ListenInv, CalledSoFar
  <2>8. CalledSoFar'
    BY <2>5, <2>6, <2>7 DEF CalledSoFar
  <2>9. QED
    BY <2>1, <2>8 DEF ListenInv
<1>4. QED
  BY <1>2, <1>3, Zenon DEF React

LEMMA ListenListen ==
  ASSUME ListenInv, Listen
  PROVE  ListenInv'
<1> DEFINE l == at[1]
           t == at[2]
           n == Len(taken)
           next == <<l, n>>
<1>1. /\ pc = "listening"
      /\ UNCHANGED <<packets_to_listen, packet_listeners, registering, since, taken, packet>>
  BY DEF Listen, listening, CallNext
<1>2. /\ l \in Nat /\ t \in Nat /\ n \in Nat /\ Len(packets_to_listen) \in Nat
      /\ Len(packet_listeners) \in Nat /\ at = <<l, t>>
      /\ \A m \in 1 .. Len(packet_listeners) : since[m] \in Nat
  <2>1. packets_to_listen \in Seq(Int) /\ at \in Nat \X Nat
    BY DEF ListenInv, ListenersOK
  <2>2. QED
    BY <2>1, SinceIs DEF ListenInv
<1>3. CASE AllCalled(at)
  <2>1. pc' = "waiting" /\ UNCHANGED <<at, calls>>
    BY <1>3 DEF Listen, listening
  <2>2. ListenersOK' /\ ClassesListed' /\ InHand'
    BY <1>1, <2>1 DEF ListenInv, ListenersOK, IsSeq, ClassesListed, InHand
  <2>3. Done = n - 1 /\ Done' = n
    BY <1>1, <2>1 DEF Done
  <2>4. ASSUME NEW m \in 1 .. Len(packet_listeners), NEW k \in since[m] + 1 .. n
        PROVE  Notified(m, k)'
    <3>1. Notified(m, k)
      <4>1. CASE k = n
        <5>1. m < l
          BY <1>2, <1>3 DEF AllCalled
        <5>2. since[m] < n
          BY <1>2, <4>1
        <5>3. QED
          BY <1>1, <4>1, <5>1, <5>2 DEF ListenInv, CalledSoFar
      <4>2. CASE k # n
        <5>1. k \in since[m] + 1 .. Done
          BY <1>2, <2>3, <4>2
        <5>2. QED
          BY <5>1 DEF ListenInv, CalledSoFar
      <4>3. QED
        BY <4>1, <4>2
    <3>2. QED
      BY <1>1, <2>1, <3>1 DEF Notified
  <2>5. CalledSoFar'
    BY <1>1, <2>1, <2>3, <2>4 DEF CalledSoFar
  <2>6. QED
    BY <2>2, <2>5 DEF ListenInv
<1>4. CASE ~AllCalled(at)
  <2>1. /\ calls' = IF Calls(at, packet) THEN calls \cup {next} ELSE calls
        /\ at' = NextAt(at) /\ pc' \in {"listening", "broken"}
    BY <1>1, <1>4 DEF Listen, CallNext
  <2>2. Done' = Done
    BY <1>1, <2>1 DEF Done
  <2>3. calls \subseteq calls'
    BY <2>1
  <2>4. ASSUME NEW m, NEW k, Notified(m, k)
        PROVE  Notified(m, k)'
    BY <1>1, <2>3, <2>4 DEF Notified
  <2>5. ListenersOK' /\ ClassesListed' /\ InHand'
    <3>1. at' \in Nat \X Nat /\ at'[2] <= Len(packets_to_listen) + 1
      BY <1>2, <2>1 DEF NextAt
    <3>2. QED
      BY <1>1, <2>1, <3>1 DEF ListenInv, ListenersOK, IsSeq, ClassesListed, InHand
  <2>6. \A m \in 1 .. Len(packet_listeners) : \A k \in since[m] + 1 .. Done' : Notified(m, k)'
    BY <2>2, <2>4 DEF ListenInv, CalledSoFar
  \* The class the thread is at has been called for, if it fits.
  <2>7. t <= Len(packets_to_listen) /\ IsInstance(packet, packets_to_listen[t]) => next \in calls'
    BY <2>1 DEF Calls
  <2>8. ASSUME NEW m \in 1 .. Len(packet_listeners), since[m] < n, m < at'[1]
        PROVE  Notified(m, n)'
    <3>1. CASE m < l
      BY <1>1, <2>4, <2>8, <3>1 DEF ListenInv, CalledSoFar
    <3>2. CASE ~(m < l)
      <4>1. m = l /\ t > Len(packets_to_listen)
        BY <1>2, <2>1, <2>8, <3>2 DEF NextAt
      <4>2. ASSUME NEW i \in 1 .. Len(packet_listeners[m]), IsInstance(packet, packet_listeners[m][i])
            PROVE  next \in calls
        <5>1. PICK j \in 1 .. Len(packets_to_listen) :
                packets_to_listen[j] = packet_listeners[m][i]
          BY DEF ListenInv, ClassesListed
        <5>2. j < t
          BY <1>2, <4>1
        <5>3. QED
          BY <1>1, <2>8, <4>1, <4>2, <5>1, <5>2 DEF ListenInv, CalledSoFar
      <4>3. packet = taken[n]
        BY <1>1 DEF ListenInv, InHand
      <4>4. DOMAIN packet_listeners[m] = 1 .. Len(packet_listeners[m])
        BY DEF ListenInv, ListenersOK
      <4>5. QED
        BY <1>1, <2>3, <4>1, <4>2, <4>3, <4>4 DEF Notified, Range
    <3>3. QED
      BY <3>1, <3>2
  <2>9. ASSUME NEW m \in 1 .. Len(packet_listeners), since[m] < n, m = at'[1],
               NEW j \in 1 .. Len(packets_to_listen), j < at'[2],
               IsInstance(packet, packets_to_listen[j])
        PROVE  <<m, n>> \in calls'
    <3>1. t <= Len(packets_to_listen) /\ at' = <<l, t + 1>>
      BY <1>2, <2>1, <2>9 DEF NextAt
    <3>2. m = l /\ (j < t \/ j = t)
      BY <1>2, <2>9, <3>1
    <3>3. CASE j < t
      BY <1>1, <2>3, <2>9, <3>2, <3>3 DEF ListenInv, CalledSoFar
    <3>4. CASE j = t
      BY <2>7, <2>9, <3>1, <3>2, <3>4
    <3>5. QED
      BY <3>2, <3>3, <3>4
  <2>10. CalledSoFar'
    BY <1>1, <2>6, <2>8, <2>9 DEF CalledSoFar
  <2>11. QED
    BY <2>5, <2>10 DEF ListenInv
<1>5. QED
  BY <1>3, <1>4

\* An application thread registers a listener, wherever the networking thread is.
LEMMA RegisterListen ==
  ASSUME ListenInv, Registering
  PROVE  ListenInv'
<1>1. UNCHANGED <<pc, taken, packet, at>>
  BY DEF Registering, client
<1>2. /\ Len(packets_to_listen) \in Nat /\ Len(packet_listeners) \in Nat /\ Len(taken) \in Nat
      /\ \A m \in 1 .. Len(packet_listeners) : since[m] \in Nat /\ packet_listeners[m] \in Seq(Int)
      /\ Len(since) = Len(packet_listeners) /\ packets_to_listen \in Seq(Int)
      /\ packet_listeners \in Seq(Seq(Int)) /\ since \in Seq(Nat) /\ registering.args \in Seq(Int)
  <2>1. Len(taken) \in Nat
    BY DEF ListenInv, ListenersOK, IsSeq
  <2> DEFINE R == Seq(Int)
  <2>2. /\ packet_listeners \in Seq(R) /\ packets_to_listen \in R /\ since \in Seq(Nat)
        /\ registering.args \in R /\ Len(since) = Len(packet_listeners)
    BY DEF ListenInv, ListenersOK
  <2>3. Len(packets_to_listen) \in Nat
    BY <2>2
  <2> HIDE DEF R
  <2>4. /\ Len(packet_listeners) \in Nat
        /\ \A m \in 1 .. Len(packet_listeners) : since[m] \in Nat /\ packet_listeners[m] \in R
    BY <2>2
  <2>5. QED
    BY <2>1, <2>2, <2>3, <2>4 DEF R
<1>3. CASE Register
  <2>1. UNCHANGED <<packets_to_listen, packet_listeners, calls, since>>
    BY <1>2, <1>3 DEF Register, Registering
  <2>2. PICK args \in Registrations : registering' = [busy |-> TRUE, args |-> args, added |-> 0]
    BY <1>3 DEF Register
  <2>3. args \in Seq(Int)
    BY ListenersAssumption DEF ListenersAssumption
  <2>4. ListenersOK' /\ ClassesListed'
    BY <1>1, <2>1, <2>2, <2>3 DEF ListenInv, ListenersOK, IsSeq, ClassesListed
  <2>5. InHand' /\ CalledSoFar'
    BY <1>1, <2>1 DEF ListenInv, InHand, CalledSoFar, Done, Notified
  <2>6. QED
    BY <2>4, <2>5 DEF ListenInv
<1>4. CASE AddClass
  <2> DEFINE n == Len(packets_to_listen)
             a == registering.added
             class == registering.args[a + 1]
  <2>1. UNCHANGED <<packet_listeners, calls, since>>
    BY <1>2, <1>4 DEF AddClass, Registering
  <2>2. a \in Nat /\ a < Len(registering.args) /\ class \in Int
    BY <1>2, <1>4 DEF AddClass, ListenInv, ListenersOK
  <2>3. registering' = [registering EXCEPT !.added = a + 1]
    BY <1>4 DEF AddClass
  <2>4. registering'.added = a + 1 /\ registering'.args = registering.args
    <3>1. registering.added \in Nat
      BY <2>2
    <3>2. QED
      BY <1>4 DEF AddClass
  <2>5. packets_to_listen' = Append(packets_to_listen, class)
    BY <1>4, <2>4 DEF AddClass
  <2> HIDE DEF class
  <2>6. /\ packets_to_listen' \in Seq(Int) /\ Len(packets_to_listen') = n + 1
        /\ packets_to_listen'[n + 1] = class
        /\ \A j \in 1 .. n : packets_to_listen'[j] = packets_to_listen[j]
    BY <1>2, <2>2, <2>5, AppendProperties
  <2>7. ListenersOK'
    <3>1. registering' \in [busy : BOOLEAN, args : Seq(Int), added : Nat]
      <4> DEFINE R == Seq(Int)
      <4>1. registering \in [busy : BOOLEAN, args : R, added : Nat]
        BY DEF ListenInv, ListenersOK
      <4>2. a + 1 \in Nat
        BY <2>2
      <4> HIDE DEF R
      <4>3. QED
        BY <2>3, <4>1, <4>2 DEF R
    <3>2. registering'.added <= Len(registering'.args)
      BY <1>2, <2>2, <2>4
    <3>3. at' \in Nat \X Nat /\ at'[2] <= Len(packets_to_listen') + 1
      BY <1>1, <1>2, <2>6 DEF ListenInv, ListenersOK
    <3>4. QED
      BY <1>1, <1>2, <2>1, <2>6, <3>1, <3>2, <3>3 DEF ListenInv, ListenersOK, IsSeq
  <2>8. ClassesListed'
    <3>1. ASSUME NEW x, NEW j \in 1 .. n, packets_to_listen[j] = x
          PROVE  \E i \in 1 .. n + 1 : packets_to_listen'[i] = x
      BY <1>2, <2>6, <3>1
    <3>2. ASSUME NEW i \in 1 .. a + 1
          PROVE  \E j \in 1 .. n + 1 : packets_to_listen'[j] = registering.args[i]
      <4>1. CASE i \in 1 .. a
        BY <3>1, <4>1 DEF ListenInv, ClassesListed
      <4>2. CASE i = a + 1
        BY <1>2, <2>6, <4>2 DEF class
      <4>3. QED
        BY <2>2, <4>1, <4>2
    <3>3. QED
      BY <2>1, <2>4, <2>6, <3>1, <3>2 DEF ListenInv, ClassesListed
  <2>9. InHand'
    BY <1>1 DEF ListenInv, InHand
  <2>10. Done' = Done /\ \A l, k : Notified(l, k)' = Notified(l, k)
    BY <1>1, <2>1 DEF Done, Notified
  <2>11. at[2] <= n + 1 /\ at[2] \in Nat
    BY DEF ListenInv, ListenersOK
  <2>12. \A j \in 1 .. n + 1 : j < at[2] => j \in 1 .. n /\ packets_to_listen'[j] = packets_to_listen[j]
    BY <1>2, <2>6, <2>11
  <2>13. CalledSoFar'
    BY <1>1, <2>1, <2>6, <2>10, <2>12 DEF ListenInv, CalledSoFar
  <2>14. QED
    BY <2>7, <2>8, <2>9, <2>13 DEF ListenInv
<1>5. CASE AddListener
  <2> DEFINE n == Len(packet_listeners)
             args == registering.args
             now == Len(taken)
  <2>1. UNCHANGED <<packets_to_listen, calls>> /\ packet_listeners' = Append(packet_listeners, args)
        /\ registering' = Idle /\ registering.added = Len(args)
    BY <1>5 DEF AddListener
  <2>2. args \in Seq(Int)
    BY <1>2
  <2> HIDE DEF args
  <2>3. /\ packet_listeners' \in Seq(Seq(Int)) /\ Len(packet_listeners') = n + 1
        /\ packet_listeners'[n + 1] = args
        /\ \A l \in 1 .. n : packet_listeners'[l] = packet_listeners[l]
    BY <1>2, <2>1, <2>2, AppendProperties
  <2>4. since' = Append(since, now)
    BY <1>2, <2>3 DEF Registering
  <2>5. now \in Nat
    BY <1>2
  <2> HIDE DEF now
  <2>6. /\ since' \in Seq(Nat) /\ Len(since') = n + 1 /\ since'[n + 1] = now
        /\ \A l \in 1 .. n : since'[l] = since[l]
    BY <1>2, <2>4, <2>5, AppendProperties
  <2>7. ListenersOK'
    <3>1. <<>> \in Seq(Int) /\ Len(<<>>) = 0
      OBVIOUS
    <3>2. QED
      BY <1>1, <2>1, <2>3, <2>6, <3>1 DEF ListenInv, ListenersOK, IsSeq, Idle
  <2>8. \A l \in 1 .. n + 1 : l \in 1 .. n \/ l = n + 1
    BY <1>2
  <2>9. ClassesListed'
    <3>1. ASSUME NEW l \in 1 .. n + 1, NEW i \in 1 .. Len(packet_listeners'[l])
          PROVE  \E j \in 1 .. Len(packets_to_listen) : packets_to_listen[j] = packet_listeners'[l][i]
      <4>1. CASE l \in 1 .. n
        BY <2>3, <4>1, <3>1 DEF ListenInv, ClassesListed
      <4>2. CASE l = n + 1
        BY <2>1, <2>3, <4>2, <3>1 DEF ListenInv, ClassesListed, args
      <4>3. QED
        BY <2>8, <4>1, <4>2
    <3>2. \A i \in 1 .. registering'.added : FALSE
      BY <2>1 DEF Idle
    <3>3. QED
      BY <2>1, <2>3, <3>1, <3>2 DEF ClassesListed
  <2>10. InHand'
    BY <1>1 DEF ListenInv, InHand
  <2>11. Done' = Done /\ Done <= now /\ Done \in Int
    BY <1>1, <1>2 DEF Done, now
  <2>12. \A l \in 1 .. n : \A k : Notified(l, k)' = Notified(l, k)
    BY <1>1, <2>1, <2>3 DEF Notified
  <2>13. ASSUME NEW l \in 1 .. n + 1, NEW k \in since'[l] + 1 .. Done
         PROVE  Notified(l, k)'
    <3>1. CASE l \in 1 .. n
      BY <2>6, <2>12, <2>13, <3>1 DEF ListenInv, CalledSoFar
    <3>2. CASE l = n + 1
      BY <2>5, <2>6, <2>11, <2>13, <3>2
    <3>3. QED
      BY <2>8, <3>1, <3>2
  <2>14. \A l \in 1 .. n + 1 : since'[l] < Len(taken) => l \in 1 .. n /\ since'[l] = since[l]
    BY <2>5, <2>6, <2>8 DEF now
  <2>15. CalledSoFar'
    BY <1>1, <2>1, <2>3, <2>11, <2>12, <2>13, <2>14 DEF ListenInv, CalledSoFar
  <2>16. QED
    BY <2>7, <2>9, <2>10, <2>15 DEF ListenInv
<1>6. QED
  BY <1>3, <1>4, <1>5 DEF Registering

LEMMA StepListen == ListenInv /\ [Next]_vars => ListenInv'
<1> SUFFICES ASSUME ListenInv, [Next]_vars
             PROVE  ListenInv'
  OBVIOUS
<1>1. CASE Server
  BY <1>1, Elsewhere DEF Server, ServerLogin, ServerPlay, ServerClose, client
<1>2. CASE ReadLength \/ ReadBody
  BY <1>2, Elsewhere DEF ReadLength, ReadBody
<1>3. CASE Parse \/ React \/ Listen
  BY <1>3, ParseListen, ReactListen, ListenListen
<1>4. CASE Write \/ WriteRaises \/ Chat
  BY <1>4, Elsewhere DEF Write, WriteRaises, Chat, client
<1>5. CASE Registering
  BY <1>5, RegisterListen
<1>6. CASE UNCHANGED vars
  BY <1>6, Elsewhere DEF vars, client
<1>7. QED
  BY <1>1, <1>2, <1>3, <1>4, <1>5, <1>6 DEF Next, Thread

\* connection.py:81-92, 279-283, packets.py:1049-1066: a listener is called for every
\* packet of its classes that is read after it was registered, though the list of
\* listeners and the one list of classes grow while the thread goes through them.
THEOREM ListenersMissNothing == Spec => []NoneMissed
<1>1. Init => ListenInv
  BY InitListen
<1>2. ListenInv /\ [Next]_vars => ListenInv'
  BY StepListen
<1>3. ListenInv => NoneMissed
  BY InvMisses
<1>4. QED
  BY <1>1, <1>2, <1>3, PTL DEF Spec
-----------------------------------------------------------------------------
(* The cipher *)

LEMMA OctetIs == Octet \subseteq Nat /\ Octet \subseteq Int /\ Clear \notin Octet /\ Fresh \in Octet
BY VarIntAssumption DEF VarIntAssumption, Octet, Clear, Fresh

States == Octet \cup {Clear}

\* The state of a cipher after a piece, and after two.
LEMMA AfterType ==
  ASSUME NEW z \in Seq(Octet), NEW d \in States
  PROVE  AfterByte(z, d) \in States /\ (AfterByte(z, d) = Clear <=> d = Clear)
<1>1. z # <<>> => z[Len(z)] \in Octet
  OBVIOUS
<1>2. QED
  BY <1>1, OctetIs DEF AfterByte, States

LEMMA AfterJoined ==
  ASSUME NEW x \in Seq(Octet), NEW y \in Seq(Octet), NEW d \in States
  PROVE  AfterByte(x \o y, d) = AfterByte(y, AfterByte(x, d))
<1>1. x # <<>> => x[Len(x)] # Clear
  BY OctetIs
<1>2. CASE y = <<>>
  <2>1. x \o y = x
    BY <1>2
  <2>2. QED
    BY <1>2, <2>1 DEF AfterByte
<1>3. CASE y # <<>>
  <2>1. x \o y # <<>> /\ (x \o y)[Len(x \o y)] = y[Len(y)]
    BY <1>3
  <2> DEFINE s == x \o y
  <2> HIDE DEF s
  <2>2. QED
    BY <1>1, <1>3, <2>1 DEF AfterByte, s
<1>4. QED
  BY <1>2, <1>3

\* Division by the number of bytes.
LEMMA Reduced ==
  ASSUME NEW x \in Int, NEW w \in Nat, w > 1
  PROVE  /\ x \div w \in Int /\ x % w \in 0 .. w - 1
         /\ x = w * (x \div w) + (x % w)
<1>1. x % w \in 0 .. w - 1
  BY SMT
<1>2. x \div w \in Int /\ x = w * (x \div w) + (x % w)
  BY SMT
<1>3. QED
  BY <1>1, <1>2

\* A byte masked, and the mask taken off again.
LEMMA Unmasked ==
  ASSUME NEW b \in Octet, NEW m \in Int
  PROVE  /\ (b + m) % (2 * Group) \in Octet
         /\ (((b + m) % (2 * Group)) - m) % (2 * Group) = b
<1> DEFINE w == 2 * Group
           x == b + m
<1>1. w \in Nat /\ w > 1 /\ b \in 0 .. w - 1 /\ x \in Int
  BY VarIntAssumption DEF VarIntAssumption, Octet
<1> HIDE DEF w
<1>2. x % w \in 0 .. w - 1 /\ x \div w \in Int /\ x = w * (x \div w) + (x % w)
  <2> HIDE DEF x
  <2>1. QED
    BY <1>1, Reduced
<1> DEFINE q == x \div w
           y == (x % w) - m
<1>3. y \in Int /\ y = b - w * q
  BY <1>1, <1>2
<1>4. y % w \in 0 .. w - 1 /\ y \div w \in Int /\ y = w * (y \div w) + (y % w)
  <2> HIDE DEF y
  <2>1. QED
    BY <1>1, <1>3, Reduced
<1> DEFINE p == y \div w
           r == y % w
<1>5. /\ y = w * p + r /\ r \in 0 .. w - 1 /\ q \in Int /\ p \in Int /\ y = b - w * q
      /\ y \in Int
  BY <1>1, <1>2, <1>3, <1>4
<1>6. r = b
  <2> HIDE DEF p, q, r, y
  <2> DEFINE k == p + q
  <2>1. k \in Int /\ b - r = w * k
    BY <1>1, <1>5
  <2> HIDE DEF k
  <2>2. ~(k >= 1)
    <3> SUFFICES ASSUME k >= 1 PROVE FALSE
      OBVIOUS
    <3>1. w * k >= w
      BY <1>1, <2>1
    <3>2. QED
      BY <1>1, <1>5, <2>1, <3>1
  <2>3. ~(k <= -1)
    <3> SUFFICES ASSUME k <= -1 PROVE FALSE
      OBVIOUS
    <3>1. w * k <= -w
      BY <1>1, <2>1
    <3>2. QED
      BY <1>1, <1>5, <2>1, <3>1
  <2>4. k = 0
    BY <2>1, <2>2, <2>3
  <2>5. QED
    BY <1>1, <1>5, <2>1, <2>4
<1>7. QED
  BY <1>1, <1>2, <1>6 DEF w, r, y, Octet

\* One step of the encryptor.
Enciphering(d) ==
  [p \in Seq(Octet) \X Octet |->
     Append(p[1], (p[2] + Mask(AfterByte(p[1], d))) % (2 * Group))]

LEMMA MaskIs ==
  ASSUME NEW d \in Octet, NEW z \in Seq(Octet)
  PROVE  Mask(AfterByte(z, d)) \in Int
<1>1. AfterByte(z, d) \in States /\ AfterByte(z, d) # Clear
  BY AfterType, OctetIs DEF States
<1>2. AfterByte(z, d) \in Int
  <2>1. AfterByte(z, d) \in Octet
    BY <1>1 DEF States
  <2>2. QED
    BY <2>1, OctetIs, Zenon
<1>3. QED
  BY <1>2 DEF Mask

LEMMA EncipheringIs ==
  ASSUME NEW d \in Octet
  PROVE  /\ Enciphering(d) \in [Seq(Octet) \X Octet -> Seq(Octet)]
         /\ \A z \in Seq(Octet), b \in Octet :
              Enciphering(d)[<<z, b>>] = Append(z, (b + Mask(AfterByte(z, d))) % (2 * Group))
<1> DEFINE op(z, b) == Append(z, (b + Mask(AfterByte(z, d))) % (2 * Group))
<1>1. ASSUME NEW z \in Seq(Octet), NEW b \in Octet
      PROVE  op(z, b) \in Seq(Octet)
  <2>1. (b + Mask(AfterByte(z, d))) % (2 * Group) \in Octet
    BY MaskIs, Unmasked
  <2>2. QED
    BY <2>1, AppendProperties
<1>2. Enciphering(d) = [p \in Seq(Octet) \X Octet |-> op(p[1], p[2])]
  BY DEF Enciphering
<1>3. \A z \in Seq(Octet), b \in Octet : Enciphering(d)[<<z, b>>] = op(z, b)
  BY <1>2, Zenon
<1> HIDE DEF op
<1>4. \A p \in Seq(Octet) \X Octet : op(p[1], p[2]) \in Seq(Octet)
  BY <1>1
<1>5. Enciphering(d) \in [Seq(Octet) \X Octet -> Seq(Octet)]
  BY <1>2, <1>4
<1>6. QED
  BY <1>3, <1>5 DEF op

\* The cipher context goes on from the last byte it has made.
LEMMA EncryptedFolds ==
  ASSUME NEW d \in Octet, NEW s \in Seq(Octet)
  PROVE  Encrypted(s, d) = Fold(Enciphering(d), <<>>, s)
<1> DEFINE A == Seq(Octet)
           B == Octet
           F == Enciphering(d)
           op(z, b) == Append(z, (b + Mask(AfterByte(z, d))) % (2 * Group))
           P(g) == g = [t \in SUBSET DOMAIN s |->
                          IF t = {} THEN <<>> ELSE op(g[t \ {Max(t)}], s[Max(t)])]
           c == CHOOSE g : P(g)
<1>1. d # Clear
  BY OctetIs
<1>2. Encrypted(s, d) = c[DOMAIN s]
  BY <1>1 DEF Encrypted, FoldLeft, MapThenFoldSet
<1>3. F \in [A \X B -> A] /\ \A z \in A, b \in B : F[<<z, b>>] = op(z, b)
  BY EncipheringIs
<1>4. s \in Seq(B) /\ <<>> \in A
  OBVIOUS
<1> HIDE DEF op, F, A, B
<1>5. PICK g \in [SUBSET DOMAIN s -> A] : Folds(g, F, <<>>, s)
  BY <1>3, <1>4, FoldsExists
<1>6. P(g)
  <2>1. ASSUME NEW t \in SUBSET DOMAIN s, t # {}
        PROVE  F[<<g[t \ {Max(t)}], s[Max(t)]>>] = op(g[t \ {Max(t)}], s[Max(t)])
    <3>1. s[Max(t)] \in B /\ g[t \ {Max(t)}] \in A
      BY <1>4, <2>1, LastOf
    <3>2. QED
      BY <1>3, <3>1
  <2>2. QED
    BY <1>5, <2>1 DEF Folds
<1>7. P(c)
  BY <1>6
<1> HIDE DEF c
<1>8. c[{}] = <<>>
  BY <1>7
<1>9. ASSUME NEW t \in SUBSET DOMAIN s, t # {}, c[t \ {Max(t)}] \in A
      PROVE  c[t] = F[<<c[t \ {Max(t)}], s[Max(t)]>>]
  <2>1. s[Max(t)] \in B
    BY <1>4, <1>9, LastOf
  <2>2. c[t] = op(c[t \ {Max(t)}], s[Max(t)])
    BY <1>7, <1>9
  <2>3. QED
    BY <1>3, <1>9, <2>1, <2>2
<1>10. GoesOn(c, A, F, s)
  BY <1>9, Zenon DEF GoesOn
<1> HIDE DEF P
<1>11. Folding(F, A, B)
  BY <1>3 DEF Folding
<1>12. c[DOMAIN s] = Fold(F, <<>>, s)
  BY <1>4, <1>8, <1>10, <1>11, FoldChosen
<1>13. QED
  BY <1>2, <1>12 DEF F

\* So one byte more is masked with the last byte made.
LEMMA EncryptedNext ==
  ASSUME NEW d \in Octet
  PROVE  /\ Encrypted(<<>>, d) = <<>>
         /\ \A s \in Seq(Octet) : Encrypted(s, d) \in Seq(Octet)
         /\ \A s \in Seq(Octet), b \in Octet :
              Encrypted(Append(s, b), d) =
                Append(Encrypted(s, d), (b + Mask(AfterByte(Encrypted(s, d), d))) % (2 * Group))
<1> DEFINE A == Seq(Octet)
           B == Octet
           F == Enciphering(d)
           E(s) == Encrypted(s, d)
           op(z, b) == Append(z, (b + Mask(AfterByte(z, d))) % (2 * Group))
<1>1. Folding(F, A, B) /\ <<>> \in A /\ \A z \in A, b \in B : F[<<z, b>>] = op(z, b)
  <2>1. Folding(F, A, B)
    BY EncipheringIs, Zenon DEF Folding
  <2>2. <<>> \in A
    OBVIOUS
  <2>3. \A z \in A, b \in B : F[<<z, b>>] = op(z, b)
    BY EncipheringIs, Zenon
  <2>4. QED
    BY <2>1, <2>2, <2>3
<1>2. \A s \in Seq(B) : E(s) = Fold(F, <<>>, s)
  BY EncryptedFolds
<1>3. <<>> \in Seq(B) /\ \A s \in Seq(B), b \in B : Append(s, b) \in Seq(B)
  OBVIOUS
<1> HIDE DEF A, B, F, E, op
<1>4. /\ \A s \in Seq(B) : Fold(F, <<>>, s) \in A
      /\ Fold(F, <<>>, <<>>) = <<>>
      /\ \A s \in Seq(B), b \in B : Fold(F, <<>>, Append(s, b)) = F[<<Fold(F, <<>>, s), b>>]
  BY <1>1, FoldIs
<1>5. E(<<>>) = <<>> /\ \A s \in Seq(B) : E(s) \in A
  BY <1>2, <1>3, <1>4
<1>6. ASSUME NEW s \in Seq(B), NEW b \in B
      PROVE  E(Append(s, b)) = op(E(s), b)
  <2>1. E(Append(s, b)) = F[<<E(s), b>>] /\ E(s) \in A
    BY <1>2, <1>3, <1>4
  <2>2. QED
    BY <1>1, <2>1
<1>7. QED
  BY <1>5, <1>6 DEF A, B, E, op

\* What the decryptor makes of a byte.
Deciphered(z, d, i) == (z[i] - Mask(IF i = 1 THEN d ELSE z[i - 1])) % (2 * Group)

LEMMA DecipheredAppend ==
  ASSUME NEW d \in Octet, NEW z \in Seq(Octet), NEW b \in Octet,
         NEW x, x = (b + Mask(AfterByte(z, d))) % (2 * Group)
  PROVE  /\ Append(z, x) \in Seq(Octet)
         /\ Deciphered(Append(z, x), d, Len(z) + 1) = b
         /\ \A i \in 1 .. Len(z) : Deciphered(Append(z, x), d, i) = Deciphered(z, d, i)
<1> DEFINE m == Mask(AfterByte(z, d))
           y == Append(z, x)
<1>1. m \in Int
  BY MaskIs
<1>2. x \in Octet /\ (x - m) % (2 * Group) = b
  <2> HIDE DEF m
  <2>1. (b + m) % (2 * Group) \in Octet /\ (((b + m) % (2 * Group)) - m) % (2 * Group) = b
    BY <1>1, Unmasked
  <2>2. QED
    BY <2>1 DEF m
<1>3. /\ y \in Seq(Octet) /\ y[Len(z) + 1] = x /\ \A i \in 1 .. Len(z) : y[i] = z[i]
      /\ Len(z) \in Nat
  BY <1>2, AppendProperties
<1> HIDE DEF y
<1>4. Deciphered(y, d, Len(z) + 1) = b
  <2>1. AfterByte(z, d) = IF Len(z) + 1 = 1 THEN d ELSE y[(Len(z) + 1) - 1]
    <3>1. d # Clear /\ (z = <<>> <=> Len(z) = 0)
      BY OctetIs
    <3>2. Len(z) # 0 => y[(Len(z) + 1) - 1] = z[Len(z)]
      BY <1>3
    <3>3. QED
      BY <1>3, <3>1, <3>2 DEF AfterByte
  <2>2. QED
    BY <1>2, <1>3, <2>1 DEF Deciphered
<1>5. ASSUME NEW i \in 1 .. Len(z)
      PROVE  Deciphered(y, d, i) = Deciphered(z, d, i)
  <2>1. y[i] = z[i] /\ (i # 1 => y[i - 1] = z[i - 1])
    BY <1>3
  <2>2. QED
    BY <2>1 DEF Deciphered
<1>6. QED
  BY <1>3, <1>4, <1>5 DEF y

\* What has been encrypted is as long as it was, and decrypted again it is what it was.
LEMMA CipherRoundTrip ==
  ASSUME NEW s \in Seq(Octet), NEW d \in States
  PROVE  /\ Encrypted(s, d) \in Seq(Octet) /\ Len(Encrypted(s, d)) = Len(s)
         /\ Decrypted(Encrypted(s, d), d) = s
<1>1. CASE d = Clear
  BY <1>1, Zenon DEF Encrypted, Decrypted
<1>2. CASE d # Clear
  <2> DEFINE E(r) == Encrypted(r, d)
             T == {r \in Seq(Octet) : Len(E(r)) = Len(r)
                                        /\ \A i \in 1 .. Len(r) : Deciphered(E(r), d, i) = r[i]}
             x(r, b) == (b + Mask(AfterByte(E(r), d))) % (2 * Group)
  <2>1. d \in Octet /\ <<>> \in Seq(Octet)
    BY <1>2 DEF States
  <2>2. /\ E(<<>>) = <<>> /\ \A r \in Seq(Octet) : E(r) \in Seq(Octet)
        /\ \A r \in Seq(Octet), b \in Octet : E(Append(r, b)) = Append(E(r), x(r, b))
    BY <2>1, EncryptedNext
  <2> HIDE DEF E
  <2>3. <<>> \in T
    BY <2>1, <2>2
  <2>4. ASSUME NEW r \in T, NEW b \in Octet
        PROVE  Append(r, b) \in T
    <3> DEFINE q == Append(r, b)
               z == E(r)
               y == E(q)
    <3>1. /\ r \in Seq(Octet) /\ z \in Seq(Octet) /\ Len(z) = Len(r)
          /\ \A i \in 1 .. Len(r) : Deciphered(z, d, i) = r[i]
      BY <2>2, <2>4
    <3>2. y = Append(z, x(r, b))
      BY <2>2, <3>1
    <3>3. /\ Deciphered(y, d, Len(z) + 1) = b
          /\ \A i \in 1 .. Len(z) : Deciphered(y, d, i) = Deciphered(z, d, i)
      BY <2>1, <3>1, <3>2, DecipheredAppend
    <3> HIDE DEF x
    <3>4. /\ q \in Seq(Octet) /\ Len(q) = Len(r) + 1 /\ q[Len(r) + 1] = b
          /\ \A i \in 1 .. Len(r) : q[i] = r[i]
          /\ Len(y) = Len(z) + 1 /\ Len(z) \in Nat
      BY <3>1, <3>2, AppendProperties
    <3> HIDE DEF y, z, q
    <3>5. Len(y) = Len(q) /\ \A i \in 1 .. Len(q) : Deciphered(y, d, i) = q[i]
      BY <3>1, <3>3, <3>4
    <3>6. QED
      BY <3>4, <3>5 DEF y, q
  <2>5. T = Seq(Octet)
    <3>1. T \in SUBSET Seq(Octet)
      OBVIOUS
    <3> HIDE DEF T
    <3>2. QED
      BY <2>1, <2>3, <2>4, <3>1, InductSeq
  <2>6. Len(E(s)) = Len(s) /\ \A i \in 1 .. Len(s) : Deciphered(E(s), d, i) = s[i]
    BY <2>5
  <2>7. Decrypted(E(s), d) = [i \in DOMAIN E(s) |-> Deciphered(E(s), d, i)]
    BY <1>2 DEF Decrypted, Deciphered
  <2> HIDE DEF T
  <2>8. E(s) \in Seq(Octet) /\ DOMAIN E(s) = 1 .. Len(s) /\ s = [i \in 1 .. Len(s) |-> s[i]]
    BY <2>2, <2>6
  <2>9. Decrypted(E(s), d) = s
    BY <2>6, <2>7, <2>8
  <2>10. QED
    BY <2>6, <2>8, <2>9 DEF E
<1>3. QED
  BY <1>1, <1>2

\* What is decrypted, and that its beginning depends on nothing behind it.
LEMMA DecryptedIs ==
  ASSUME NEW z \in Seq(Octet), NEW d \in States
  PROVE  Decrypted(z, d) \in Seq(Octet) /\ Len(Decrypted(z, d)) = Len(z)
<1>1. CASE d = Clear
  BY <1>1 DEF Decrypted
<1>2. CASE d # Clear
  <2> DEFINE e(i) == (z[i] - Mask(IF i = 1 THEN d ELSE z[i - 1])) % (2 * Group)
  <2>1. ASSUME NEW i \in 1 .. Len(z)
        PROVE  e(i) \in Octet
    <3> DEFINE m == Mask(IF i = 1 THEN d ELSE z[i - 1])
               x == z[i] - m
               w == 2 * Group
    <3>1. z[i] \in Int /\ (IF i = 1 THEN d ELSE z[i - 1]) \in Int
      <4>1. z[i] \in Octet /\ (i # 1 => z[i - 1] \in Octet)
        OBVIOUS
      <4>2. \A o \in Octet : o \in Int
        BY OctetIs
      <4>3. d \in Octet
        BY <1>2 DEF States
      <4>4. QED
        BY <4>1, <4>2, <4>3, Zenon
    <3>2. x \in Int /\ w \in Nat /\ w > 0
      BY <3>1, VarIntAssumption DEF VarIntAssumption, Mask
    <3> HIDE DEF x, w
    <3>3. x % w \in 0 .. w - 1
      BY <3>2
    <3>4. QED
      BY <3>3 DEF x, w, Octet
  <2>2. Decrypted(z, d) = [i \in 1 .. Len(z) |-> e(i)]
    BY <1>2 DEF Decrypted
  <2> HIDE DEF e
  <2>3. QED
    BY <2>1, <2>2
<1>3. QED
  BY <1>1, <1>2

LEMMA DecryptedPart ==
  ASSUME NEW z \in Seq(Octet), NEW t \in Seq(Octet), NEW d \in States,
         Len(t) <= Len(z), \A i \in 1 .. Len(t) : t[i] = z[i]
  PROVE  \A i \in 1 .. Len(t) : Decrypted(t, d)[i] = Decrypted(z, d)[i]
<1>1. CASE d = Clear
  BY <1>1 DEF Decrypted
<1>2. CASE d # Clear
  <2> DEFINE e(y, i) == (y[i] - Mask(IF i = 1 THEN d ELSE y[i - 1])) % (2 * Group)
  <2> TAKE i \in 1 .. Len(t)
  <2>1. i \in 1 .. Len(z) /\ t[i] = z[i] /\ (i # 1 => t[i - 1] = z[i - 1])
    OBVIOUS
  <2>2. Decrypted(t, d)[i] = e(t, i) /\ Decrypted(z, d)[i] = e(z, i)
    BY <1>2, <2>1 DEF Decrypted
  <2>3. e(t, i) = e(z, i)
    BY <2>1
  <2>4. QED
    BY <2>2, <2>3
<1>3. QED
  BY <1>1, <1>2
-----------------------------------------------------------------------------
(* What zlib makes of a payload *)

Added(z, b) ==
  IF z # <<>> /\ z[Len(z)] = b /\ z[Len(z) - 1] < 2 * Group - 1
    THEN [z EXCEPT ![Len(z) - 1] = @ + 1] ELSE z \o <<1, b>>

Compressing == [p \in Seq(Octet) \X Octet |-> Added(p[1], p[2])]

\* An element more makes it two bytes longer at most.
LEMMA AddedIs ==
  ASSUME NEW z \in Seq(Octet), NEW b \in Octet
  PROVE  Added(z, b) \in Seq(Octet) /\ Len(Added(z, b)) <= Len(z) + 2
<1> DEFINE l == Len(z) - 1
           y == [z EXCEPT ![l] = @ + 1]
<1>1. Len(z) \in Nat /\ DOMAIN z = 1 .. Len(z) /\ \A i \in 1 .. Len(z) : z[i] \in Octet
  OBVIOUS
<1>2. CASE z # <<>> /\ z[Len(z)] = b /\ z[l] < 2 * Group - 1
  <2>1. ASSUME NEW i \in 1 .. Len(z)
        PROVE  y[i] \in Octet
    <3>1. CASE i = l
      <4>1. y[i] = z[i] + 1 /\ z[i] \in Octet /\ z[i] < 2 * Group - 1
        BY <1>1, <1>2, <3>1
      <4> HIDE DEF y
      <4>2. QED
        BY <4>1, VarIntAssumption DEF Octet, VarIntAssumption
    <3>2. CASE i # l
      <4>1. y[i] = z[i]
        BY <1>1, <3>2, Zenon
      <4>2. QED
        BY <1>1, <4>1, Zenon
    <3>3. QED
      BY <3>1, <3>2
  <2>2. y = [i \in 1 .. Len(z) |-> y[i]]
    BY <1>1
  <2> HIDE DEF y
  <2>3. y \in Seq(Octet) /\ Len(y) = Len(z)
    BY <1>1, <2>1, <2>2
  <2>4. Added(z, b) = y
    BY <1>2 DEF Added, y
  <2>5. QED
    BY <1>1, <2>3, <2>4
<1>3. CASE ~(z # <<>> /\ z[Len(z)] = b /\ z[l] < 2 * Group - 1)
  <2>1. <<1, b>> \in Seq(Octet) /\ Len(<<1, b>>) = 2
    BY VarIntAssumption DEF Octet, VarIntAssumption
  <2> DEFINE p == <<1, b>>
             q == z \o p
  <2> HIDE DEF p
  <2>2. q \in Seq(Octet) /\ Len(q) = Len(z) + 2
    BY <2>1 DEF p
  <2>3. Added(z, b) = q
    BY <1>3, Zenon DEF Added, p
  <2> HIDE DEF q
  <2>4. QED
    BY <1>1, <2>2, <2>3
<1>4. QED
  BY <1>2, <1>3

LEMMA CompressingIs ==
  /\ Compressing \in [Seq(Octet) \X Octet -> Seq(Octet)]
  /\ \A z \in Seq(Octet), b \in Octet : Compressing[<<z, b>>] = Added(z, b)
<1>1. \A p \in Seq(Octet) \X Octet : Added(p[1], p[2]) \in Seq(Octet)
  BY AddedIs
<1>2. QED
  BY <1>1 DEF Compressing

LEMMA CompressedFolds ==
  ASSUME NEW s \in Seq(Octet)
  PROVE  Compressed(s) = Append(Fold(Compressing, <<>>, s), 0)
<1> DEFINE A == Seq(Octet)
           B == Octet
           F == Compressing
           op(z, b) == Added(z, b)
           P(g) == g = [t \in SUBSET DOMAIN s |->
                          IF t = {} THEN <<>> ELSE op(g[t \ {Max(t)}], s[Max(t)])]
           c == CHOOSE g : P(g)
<1>1. Compressed(s) = Append(c[DOMAIN s], 0)
  BY DEF Compressed, FoldLeft, MapThenFoldSet, Added
<1>2. F \in [A \X B -> A] /\ \A z \in A, b \in B : F[<<z, b>>] = op(z, b)
  BY CompressingIs
<1>3. s \in Seq(B) /\ <<>> \in A
  OBVIOUS
<1> HIDE DEF op, F, A, B
<1>4. PICK g \in [SUBSET DOMAIN s -> A] : Folds(g, F, <<>>, s)
  BY <1>2, <1>3, FoldsExists
<1>5. P(g)
  <2>1. ASSUME NEW t \in SUBSET DOMAIN s, t # {}
        PROVE  F[<<g[t \ {Max(t)}], s[Max(t)]>>] = op(g[t \ {Max(t)}], s[Max(t)])
    <3>1. s[Max(t)] \in B /\ g[t \ {Max(t)}] \in A
      BY <1>3, <2>1, LastOf
    <3>2. QED
      BY <1>2, <3>1
  <2>2. QED
    BY <1>4, <2>1 DEF Folds
<1>6. P(c)
  BY <1>5
<1> HIDE DEF c
<1>7. c[{}] = <<>>
  BY <1>6
<1>8. ASSUME NEW t \in SUBSET DOMAIN s, t # {}, c[t \ {Max(t)}] \in A
      PROVE  c[t] = F[<<c[t \ {Max(t)}], s[Max(t)]>>]
  <2>1. s[Max(t)] \in B
    BY <1>3, <1>8, LastOf
  <2>2. c[t] = op(c[t \ {Max(t)}], s[Max(t)])
    BY <1>6, <1>8
  <2>3. QED
    BY <1>2, <1>8, <2>1, <2>2
<1>9. GoesOn(c, A, F, s)
  BY <1>8, Zenon DEF GoesOn
<1> HIDE DEF P
<1>10. Folding(F, A, B)
  BY <1>2 DEF Folding
<1>11. c[DOMAIN s] = Fold(F, <<>>, s)
  BY <1>3, <1>7, <1>9, <1>10, FoldChosen
<1>12. QED
  BY <1>1, <1>11 DEF F

\* zlib makes a payload twice as long at most, but for the mark of its end.
LEMMA CompressedIs ==
  ASSUME NEW s \in Seq(Octet)
  PROVE  Compressed(s) \in Seq(Octet) /\ Len(Compressed(s)) <= 2 * Len(s) + 1
<1> DEFINE A == Seq(Octet)
           B == Octet
           F == Compressing
           f(r) == Fold(F, <<>>, r)
           T == {r \in Seq(B) : f(r) \in A /\ Len(f(r)) <= 2 * Len(r)}
<1>1. Folding(F, A, B) /\ <<>> \in A /\ <<>> \in Seq(B) /\ Len(<<>>) = 0
  BY CompressingIs DEF Folding
<1>2. /\ f(<<>>) = <<>>
      /\ \A r \in Seq(B) : f(r) \in A
      /\ \A r \in Seq(B), b \in B : f(Append(r, b)) = F[<<f(r), b>>]
  <2> HIDE DEF A, B, F
  <2>1. QED
    BY <1>1, FoldIs
<1> HIDE DEF f
<1>3. <<>> \in T
  <2>1. f(<<>>) = <<>> /\ <<>> \in A /\ <<>> \in Seq(B)
    BY <1>1, <1>2
  <2>2. Len(<<>>) <= 2 * Len(<<>>)
    OBVIOUS
  <2>3. QED
    BY <2>1, <2>2, Zenon
<1>4. ASSUME NEW r \in T, NEW b \in B
      PROVE  Append(r, b) \in T
  <2>1. r \in Seq(Octet) /\ f(r) \in Seq(Octet) /\ Len(f(r)) <= 2 * Len(r) /\ b \in Octet
    OBVIOUS
  <2>2. f(Append(r, b)) = Added(f(r), b)
    BY <1>2, <2>1, CompressingIs
  <2>3. f(Append(r, b)) \in Seq(Octet) /\ Len(f(Append(r, b))) <= Len(f(r)) + 2
    BY <2>1, <2>2, AddedIs
  <2>4. Append(r, b) \in Seq(Octet) /\ Len(Append(r, b)) = Len(r) + 1 /\ Len(r) \in Nat
        /\ Len(f(r)) \in Nat /\ Len(f(Append(r, b))) \in Nat
    BY <2>1, <2>3, AppendProperties
  <2>5. Len(f(Append(r, b))) <= 2 * Len(Append(r, b))
    BY <2>1, <2>3, <2>4
  <2>6. QED
    BY <2>3, <2>4, <2>5
<1>5. T = Seq(B)
  <2>1. T \in SUBSET Seq(B)
    OBVIOUS
  <2> HIDE DEF T, B
  <2>2. QED
    BY <1>3, <1>4, <2>1, InductSeq
<1>6. f(s) \in Seq(Octet) /\ Len(f(s)) <= 2 * Len(s)
  BY <1>5
<1>7. Compressed(s) = Append(f(s), 0) /\ 0 \in Octet
  BY CompressedFolds, VarIntAssumption DEF f, Octet, VarIntAssumption
<1>8. QED
  BY <1>6, <1>7, AppendProperties

\* What comes before a payload makes it longer by five bytes at most, and there is a
\* number for what comes out.
LEMMA BodyIs ==
  ASSUME NEW payload, Sendable(payload),
         NEW body \in {payload, Zipped(payload), Plain(payload)}
  PROVE  body \in Seq(Octet) /\ Len(body) \in VarInts
<1>1. /\ payload \in Seq(Octet) /\ 2 * Len(payload) + 6 \in VarInts /\ Len(payload) \in Nat
      /\ Len(payload) \in VarInts /\ 0 \in VarInts
  BY VarIntAssumption DEF Sendable, VarInts
<1>2. ASSUME NEW v \in VarInts
      PROVE  Sent(v) \in Seq(Octet) /\ Len(Sent(v)) \in Nat /\ Len(Sent(v)) <= 5
  <2>1. Sent(v) \in Seq(Octet) /\ Len(Sent(v)) = Size(v) /\ Size(v) \in 1 .. 5
    BY SentIs, SizeIs
  <2>2. QED
    BY <2>1
<1>3. ASSUME NEW n \in Nat, n <= 2 * Len(payload) + 6
      PROVE  n \in VarInts
  BY <1>1, <1>3, VarIntAssumption DEF VarInts
<1>4. CASE body = payload
  BY <1>1, <1>4
<1>5. CASE body = Zipped(payload)
  <2> DEFINE x == Sent(Len(payload))
             y == Compressed(payload)
  <2>1. /\ x \in Seq(Octet) /\ Len(x) \in Nat /\ Len(x) <= 5
        /\ y \in Seq(Octet) /\ Len(y) <= 2 * Len(payload) + 1
    BY <1>1, <1>2, CompressedIs
  <2>2. body = x \o y
    BY <1>5 DEF Zipped
  <2> HIDE DEF x, y
  <2>3. body \in Seq(Octet) /\ Len(body) = Len(x) + Len(y) /\ Len(y) \in Nat /\ Len(body) \in Nat
    BY <2>1, <2>2
  <2>4. Len(body) <= 2 * Len(payload) + 6
    <3> DEFINE n == Len(payload)
               k == Len(body)
               a == Len(x)
               b == Len(y)
    <3>1. n \in Nat /\ k \in Nat /\ a \in Nat /\ a <= 5 /\ b \in Nat
          /\ b <= 2 * n + 1 /\ k = a + b
      BY <1>1, <2>1, <2>3
    <3> HIDE DEF n, k, a, b
    <3>2. k <= 2 * n + 6
      BY <3>1
    <3>3. QED
      BY <3>2 DEF n, k
  <2>5. QED
    BY <1>3, <2>3, <2>4
<1>6. CASE body = Plain(payload)
  <2> DEFINE x == Sent(0)
  <2>1. x \in Seq(Octet) /\ Len(x) \in Nat /\ Len(x) <= 5
    BY <1>1, <1>2
  <2>2. body = x \o payload
    BY <1>6 DEF Plain
  <2> HIDE DEF x
  <2>3. body \in Seq(Octet) /\ Len(body) = Len(x) + Len(payload) /\ Len(body) \in Nat
    BY <1>1, <2>1, <2>2
  <2>4. Len(body) <= 2 * Len(payload) + 6
    <3> DEFINE n == Len(payload)
               k == Len(body)
               a == Len(x)
    <3>1. n \in Nat /\ k \in Nat /\ a \in Nat /\ a <= 5 /\ k = a + n
      BY <1>1, <2>1, <2>3
    <3> HIDE DEF n, k, a
    <3>2. k <= 2 * n + 6
      BY <3>1
    <3>3. QED
      BY <3>2 DEF n, k
  <2>5. QED
    BY <1>3, <2>3, <2>4
<1>7. QED
  BY <1>4, <1>5, <1>6
-----------------------------------------------------------------------------
(* A packet in the stream *)

\* Where the number at the beginning ends does not depend on what follows.
LEMMA WholeAgree ==
  ASSUME NEW p \in Seq(Octet), NEW q \in Seq(Octet), Len(p) <= Len(q),
         \A i \in 1 .. Len(p) : p[i] = q[i], Whole(p)
  PROVE  /\ Whole(q) /\ Used(q) = Used(p) /\ Received(q) = Received(p)
         /\ Used(p) \in 1 .. 5 /\ Used(p) <= Len(p) /\ Received(p) \in Nat
<1> DEFINE U == {i \in 1 .. Len(p) : p[i] < Group \/ i = 5}
<1>1. U \in SUBSET Nat /\ U # {}
  BY DEF Whole
<1>2. PICK n \in U : \A i \in U : n <= i
  BY <1>1, Least
<1>3. n \in 1 .. 5 /\ n <= Len(p)
  <2>1. Len(p) \in Nat /\ n \in 1 .. Len(p)
    OBVIOUS
  <2>2. n > 5 => 5 \in U
    BY <2>1
  <2>3. QED
    BY <1>2, <2>1, <2>2
<1>4. n = 5 \/ p[n] < Group
  OBVIOUS
<1>5. \A m \in 1 .. n - 1 : p[m] >= Group
  <2> TAKE m \in 1 .. n - 1
  <2>1. m \in 1 .. Len(p) /\ m \notin U /\ p[m] \in Octet
    BY <1>2, <1>3
  <2>2. p[m] \in Int
    BY <2>1, OctetIs, Zenon
  <2>3. Group \in Int
    BY VarIntAssumption DEF VarIntAssumption
  <2>4. ~(p[m] < Group)
    BY <2>1
  <2>5. QED
    BY <2>2, <2>3, <2>4
<1> HIDE DEF U
<1>6. Used(p) = n
  BY <1>3, <1>4, <1>5, UsedIs
<1>7. q[n] = p[n] /\ \A m \in 1 .. n - 1 : q[m] = p[m]
  BY <1>3
<1>8. Used(q) = n /\ Whole(q)
  <2>1. n <= Len(q) /\ (n = 5 \/ q[n] < Group) /\ \A m \in 1 .. n - 1 : q[m] >= Group
    BY <1>3, <1>4, <1>5, <1>7
  <2>2. QED
    BY <1>3, <2>1, UsedIs
<1> DEFINE g(s, i) == IF i <= Used(s) THEN s[i] % Group ELSE 0
<1>9. ASSUME NEW i \in 1 .. 5
      PROVE  g(q, i) = g(p, i) /\ g(p, i) \in Nat
  <2>1. CASE i <= n
    <3>1. i \in 1 .. Len(p) /\ q[i] = p[i] /\ p[i] \in Octet
      BY <1>3, <2>1
    <3>2. p[i] \in Nat /\ p[i] % Group \in 0 .. Group - 1
      BY <3>1, OctetIs, Division
    <3>3. QED
      BY <1>6, <1>8, <2>1, <3>1, <3>2, VarIntAssumption DEF VarIntAssumption
  <2>2. CASE ~(i <= n)
    BY <1>6, <1>8, <2>2
  <2>3. QED
    BY <2>1, <2>2
<1>10. \A s : Received(s) = g(s, 1) + Group * (g(s, 2) + Group * (g(s, 3)
                              + Group * (g(s, 4) + Group * g(s, 5))))
  BY Zenon DEF Received
<1> HIDE DEF g
<1>11. Received(q) = Received(p)
  <2>1. /\ g(q, 1) = g(p, 1) /\ g(q, 2) = g(p, 2) /\ g(q, 3) = g(p, 3) /\ g(q, 4) = g(p, 4)
        /\ g(q, 5) = g(p, 5)
    BY <1>9
  <2>2. QED
    BY <1>10, <2>1, Zenon
<1>12. Received(p) \in Nat
  <2>1. Group \in Nat /\ \A a, b \in Nat : a + Group * b \in Nat
    BY VarIntAssumption DEF VarIntAssumption
  <2>2. /\ g(p, 1) \in Nat /\ g(p, 2) \in Nat /\ g(p, 3) \in Nat /\ g(p, 4) \in Nat
        /\ g(p, 5) \in Nat
    BY <1>9
  <2>3. g(p, 4) + Group * g(p, 5) \in Nat
    BY <2>1, <2>2
  <2>4. g(p, 3) + Group * (g(p, 4) + Group * g(p, 5)) \in Nat
    BY <2>1, <2>2, <2>3, Zenon
  <2>5. g(p, 2) + Group * (g(p, 3) + Group * (g(p, 4) + Group * g(p, 5))) \in Nat
    BY <2>1, <2>2, <2>4, Zenon
  <2>6. QED
    BY <1>10, <2>1, <2>2, <2>5, Zenon
<1>13. QED
  BY <1>3, <1>6, <1>8, <1>11, <1>12

\* The bytes z are one packet, for a decryptor in state d; or less than one.
Frame(z, d) ==
  LET p == Decrypted(z, d) IN Whole(p) /\ Len(z) = Used(p) + Received(p)
Cut(z, d) ==
  LET p == Decrypted(z, d) IN Whole(p) => Len(z) < Used(p) + Received(p)

\* What a server sends whole is a packet, and what it cuts off is less than one.
LEMMA SentWhole ==
  ASSUME NEW payload, Sendable(payload), NEW d \in States,
         NEW z, z = Encrypted(ServerFramed(payload), d)
  PROVE  z \in Seq(Octet) /\ Frame(z, d) /\ Len(z) > 0
<1> DEFINE body == IF Zips(payload) THEN Zipped(payload)
                   ELSE IF sets = Off THEN payload ELSE Plain(payload)
           n == Sent(Len(body))
           q == n \o body
<1>1. body \in Seq(Octet) /\ Len(body) \in VarInts
  <2>1. body \in {payload, Zipped(payload), Plain(payload)}
    OBVIOUS
  <2> HIDE DEF body
  <2>2. QED
    BY <2>1, BodyIs
<1>2. ServerFramed(payload) = q
  BY DEF ServerFramed, Prefixed
<1> HIDE DEF body
<1>3. n \in Seq(Octet) /\ Len(n) \in 1 .. 5
  BY <1>1, SentIs, SizeIs
<1>4. Whole(q) /\ Used(q) = Len(n) /\ Received(q) = Len(body)
  BY <1>1, VarIntRoundTrip
<1> HIDE DEF n
<1>5. q \in Seq(Octet) /\ Len(q) = Len(n) + Len(body) /\ Len(body) \in Nat
  BY <1>1, <1>3
<1> HIDE DEF q
<1>6. z \in Seq(Octet) /\ Len(z) = Len(q) /\ Decrypted(z, d) = q
  BY <1>2, <1>5, CipherRoundTrip
<1>7. QED
  BY <1>3, <1>4, <1>5, <1>6 DEF Frame

LEMMA SentCut ==
  ASSUME NEW d \in States, NEW z \in Seq(Octet), Frame(z, d), Len(z) > 0, NEW t \in CutOff(z)
  PROVE  t \in Seq(Octet) /\ t # z /\ Cut(t, d)
<1>1. PICK n \in {1, Len(z) - 1} : t = SubSeq(z, 1, n)
  BY DEF CutOff
<1>2. Len(z) \in Nat /\ n \in 0 .. Len(z) /\ t # z
  BY DEF CutOff
<1>3. t \in Seq(Octet) /\ Len(t) = n /\ \A i \in 1 .. n : t[i] = z[i]
  BY <1>1, <1>2, SubSeqProperties
<1>4. Len(t) < Len(z)
  <2>1. SubSeq(z, 1, Len(z)) = z
    OBVIOUS
  <2>2. n # Len(z)
    BY <1>1, <1>2, <2>1, Zenon
  <2>3. QED
    BY <1>2, <1>3, <2>2
<1> DEFINE p == Decrypted(t, d)
           q == Decrypted(z, d)
<1>5. /\ p \in Seq(Octet) /\ Len(p) = Len(t) /\ q \in Seq(Octet) /\ Len(q) = Len(z)
      /\ \A i \in 1 .. Len(p) : p[i] = q[i]
  BY <1>2, <1>3, <1>4, DecryptedIs, DecryptedPart
<1>6. Len(z) = Used(q) + Received(q)
  BY DEF Frame
<1>7. Whole(p) => Used(q) = Used(p) /\ Received(q) = Received(p)
  <2> HIDE DEF p, q
  <2>1. Len(p) <= Len(q)
    BY <1>2, <1>3, <1>4, <1>5
  <2>2. QED
    BY <1>5, <2>1, WholeAgree
<1>8. QED
  BY <1>2, <1>3, <1>4, <1>6, <1>7 DEF Cut
-----------------------------------------------------------------------------
(* What the server says of itself *)

LEMMA SendIs ==
  /\ \A v : Send("VarInt", v) = Sent(v[1])
  /\ \A v : Send("String", v) = Sent(Len(v)) \o v
<1>1. /\ "VarInt" \notin DOMAIN Width \cup {"NBT", "Slot", NoDict}
      /\ "String" \notin DOMAIN Width \cup {"NBT", "Slot", NoDict}
  BY DEF Width, NoDict
<1>2. ASSUME NEW v PROVE Send("VarInt", v) = Sent(v[1])
  BY <1>1, Zenon DEF Send
<1>3. ASSUME NEW v PROVE Send("String", v) = Sent(Len(v)) \o v
  BY <1>1, Zenon DEF Send
<1>4. QED
  BY <1>2, <1>3

LEMMA SmallNumbers == 0 .. 31 \subseteq VarInts
<1>1. Group \in Nat /\ Group >= 2
  BY VarIntAssumption DEF VarIntAssumption
<1> DEFINE a == Group * Group
           b == Group * a
           c == Group * b
           e == Group * c
<1>2. a \in Nat /\ a >= 4
  BY <1>1
<1> HIDE DEF a
<1>3. b \in Nat /\ b >= 8
  BY <1>1, <1>2
<1> HIDE DEF b
<1>4. c \in Nat /\ c >= 16
  BY <1>1, <1>3
<1> HIDE DEF c
<1>5. e \in Nat /\ e >= 32
  BY <1>1, <1>4
<1>6. VarInts = 0 .. e - 1
  BY Zenon DEF VarInts, a, b, c, e
<1> HIDE DEF e
<1>7. QED
  BY <1>5, <1>6

\* The number 1 takes one byte, and no number more than five.
LEMMA SentSizes ==
  /\ \A v \in VarInts : Sent(v) \in Seq(Octet) /\ Len(Sent(v)) <= 5
  /\ Sent(1) \in Seq(Octet) /\ Len(Sent(1)) = 1
<1>1. ASSUME NEW v \in VarInts
      PROVE  Sent(v) \in Seq(Octet) /\ Len(Sent(v)) <= 5
  <2>1. Sent(v) \in Seq(Octet) /\ Len(Sent(v)) = Size(v) /\ Size(v) \in 1 .. 5
    BY SentIs, SizeIs
  <2>2. QED
    BY <2>1
<1>2. 1 \in VarInts
  BY SmallNumbers
<1>3. 1 \div Group = 0
  <2>1. /\ 1 \div Group \in Nat /\ 1 % Group \in 0 .. Group - 1
        /\ 1 = (1 % Group) + Group * (1 \div Group)
    BY Division
  <2> DEFINE q == 1 \div Group
             r == 1 % Group
  <2>2. q \in Nat /\ r \in Nat /\ 1 = r + Group * q /\ Group \in Nat /\ Group >= 2
    BY <2>1, VarIntAssumption DEF VarIntAssumption
  <2> HIDE DEF q, r
  <2>3. q >= 1 => Group * q >= 2
    BY <2>2
  <2>4. q = 0
    BY <2>2, <2>3
  <2>5. QED
    BY <2>4 DEF q
<1>4. Shifted(1)[2] = 0
  BY <1>3 DEF Shifted
<1>5. Size(1) = 1
  <2>1. Size(1) \in 1 .. 5 /\ \A m \in 1 .. Size(1) - 1 : Shifted(1)[m + 1] # 0
    BY SizeIs
  <2>2. ~(1 \in 1 .. Size(1) - 1)
    BY <1>4, <2>1
  <2>3. QED
    BY <2>1, <2>2
<1>6. Len(Sent(1)) = 1
  BY <1>2, <1>5, SentIs
<1>7. QED
  BY <1>1, <1>2, <1>6

LEMMA AppendOne ==
  ASSUME NEW R, NEW x \in R, NEW y \in R
  PROVE  Append(<<x>>, y) = <<x, y>>
<1> DEFINE a == Append(<<x>>, y)
           b == <<x, y>>
<1>1. b \in Seq(R) /\ Len(b) = 2 /\ b[1] = x /\ b[2] = y
  OBVIOUS
<1>2. <<x>> \in Seq(R) /\ Len(<<x>>) = 1
  OBVIOUS
<1>3. a \in Seq(R) /\ Len(a) = 2 /\ a[1] = x /\ a[2] = y
  BY <1>2, AppendProperties
<1> HIDE DEF a, b
<1>4. \A i \in 1 .. Len(a) : a[i] = b[i]
  BY <1>1, <1>3
<1>5. a = b
  BY <1>1, <1>3, <1>4, SeqEqual
<1>6. QED
  BY <1>5 DEF a, b

\* One or two sequences joined.
LEMMA FlattenFew ==
  ASSUME NEW S, NEW x \in Seq(S), NEW y \in Seq(S)
  PROVE  FlattenSeq(<<x>>) = x /\ FlattenSeq(<<x, y>>) = x \o y
<1> DEFINE R == Seq(S)
<1>1. x \in R /\ y \in R
  OBVIOUS
<1> HIDE DEF R
<1>2. /\ <<>> \in Seq(R) /\ <<x>> \in Seq(R)
      /\ Append(<<>>, x) = <<x>> /\ Append(<<x>>, y) = <<x, y>>
  <2>1. <<>> \in Seq(R) /\ <<x>> \in Seq(R)
    BY <1>1
  <2>2. Append(<<>>, x) = <<x>>
    OBVIOUS
  <2>3. Append(<<x>>, y) = <<x, y>>
    BY <1>1, AppendOne, Zenon
  <2>4. QED
    BY <2>1, <2>2, <2>3
<1>3. FlattenSeq(Append(<<>>, x)) = FlattenSeq(<<>>) \o x
  BY <1>2, FlattenAppend, Zenon DEF R
<1>4. <<>> \o x = x
  OBVIOUS
<1>5. FlattenSeq(<<x>>) = x
  BY <1>2, <1>3, <1>4, FlattenEmpty, Zenon
<1>6. FlattenSeq(Append(<<x>>, y)) = FlattenSeq(<<x>>) \o y
  BY <1>2, FlattenAppend, Zenon DEF R
<1>7. QED
  BY <1>2, <1>5, <1>6, Zenon

\* A text of one byte.
LEMMA TextIs ==
  ASSUME NEW o \in {1, 2}
  PROVE  Send("String", <<o>>) \in Seq(Octet) /\ Len(Send("String", <<o>>)) = 2
<1> DEFINE x == Sent(1)
           y == <<o>>
<1>1. x \in Seq(Octet) /\ Len(x) = 1
  BY SentSizes
<1>2. y \in Seq(Octet) /\ Len(y) = 1
  BY VarIntAssumption DEF VarIntAssumption, Octet
<1>3. Send("String", <<o>>) = x \o y
  BY <1>2, SendIs
<1> HIDE DEF x, y
<1>4. x \o y \in Seq(Octet) /\ Len(x \o y) = Len(x) + Len(y)
  BY <1>1, <1>2, ConcatProperties
<1> HIDE DEF x, y
<1>5. Len(x \o y) = 2
  BY <1>1, <1>2, <1>4
<1>6. QED
  BY <1>3, <1>4, <1>5, Zenon

\* What the server sends in the login state can be sent.
LEMMA ShortSendable ==
  ASSUME NEW id \in 0 .. 3, NEW t \in Seq(Octet), Len(t) <= 5
  PROVE  Sendable(Sent(id) \o t)
<1> DEFINE x == Sent(id)
           n == Len(x \o t)
<1>1. x \in Seq(Octet) /\ Len(x) <= 5
  <2>1. id \in VarInts
    <3>1. id \in 0 .. 31
      OBVIOUS
    <3>2. QED
      BY <3>1, SmallNumbers
  <2>2. QED
    BY <2>1, SentSizes, Zenon
<1> HIDE DEF x
<1>2. x \o t \in Seq(Octet) /\ Len(x \o t) = Len(x) + Len(t)
  BY <1>1, ConcatProperties, Zenon
<1>3. Len(x) \in Nat /\ Len(t) \in Nat
  BY <1>1
<1>4. n \in Nat /\ n <= 10
  <2> DEFINE a == Len(x)
             b == Len(t)
  <2>1. a \in Nat /\ b \in Nat /\ a <= 5 /\ b <= 5 /\ n = a + b
    BY <1>1, <1>2, <1>3
  <2> HIDE DEF a, b, n
  <2>2. QED
    BY <2>1
<1> HIDE DEF n
<1>5. 2 * n + 6 \in 0 .. 31
  BY <1>4
<1>6. 2 * n + 6 \in VarInts
  BY <1>5, SmallNumbers
<1>7. QED
  BY <1>2, <1>6, Zenon DEF Sendable, n, x

LEMMA LoginSendable ==
  /\ \A t \in Thresholds :
       Sendable(Payload(SetCompression, LoginClientbound[SetCompression + 1], <<<<t>>>>))
  /\ Sendable(Payload(LoginSuccess, LoginClientbound[LoginSuccess + 1], <<<<1>>, <<2>>>>))
  /\ Sendable(Payload(Disconnect, LoginClientbound[Disconnect + 1], <<<<1>>>>))
<1>1. ASSUME NEW t \in Thresholds
      PROVE  Sendable(Payload(SetCompression, LoginClientbound[SetCompression + 1], <<<<t>>>>))
  <2> DEFINE x == Sent(t)
  <2>1. x \in Seq(Octet) /\ Len(x) <= 5
    <3>1. t \in VarInts
      BY PacketAssumption DEF PacketAssumption
    <3>2. QED
      BY <3>1, SentSizes, Zenon
  <2>2. LoginClientbound[SetCompression + 1] = <<"VarInt">>
    BY DEF LoginClientbound, SetCompression
  <2>3. [i \in DOMAIN <<"VarInt">> |-> Send(<<"VarInt">>[i], <<<<t>>>>[i])] = <<x>>
    <3>1. Send("VarInt", <<t>>) = x
      BY SendIs
    <3> HIDE DEF x
    <3>2. QED
      BY <3>1
  <2> HIDE DEF x
  <2>4. Payload(SetCompression, LoginClientbound[SetCompression + 1], <<<<t>>>>) = Sent(3) \o x
    BY <2>1, <2>2, <2>3, FlattenFew, Zenon DEF Payload, SetCompression
  <2>5. Sendable(Sent(3) \o x)
    BY <2>1, ShortSendable
  <2>6. QED
    BY <2>4, <2>5, Zenon
<1>2. Sendable(Payload(LoginSuccess, LoginClientbound[LoginSuccess + 1], <<<<1>>, <<2>>>>))
  <2> DEFINE x == Send("String", <<1>>)
             y == Send("String", <<2>>)
  <2>1. x \in Seq(Octet) /\ Len(x) = 2 /\ y \in Seq(Octet) /\ Len(y) = 2
    BY TextIs
  <2>2. LoginClientbound[LoginSuccess + 1] = <<"String", "String">>
    BY DEF LoginClientbound, LoginSuccess
  <2>3. [i \in DOMAIN <<"String", "String">> |->
           Send(<<"String", "String">>[i], <<<<1>>, <<2>>>>[i])] = <<x, y>>
    OBVIOUS
  <2> HIDE DEF x, y
  <2>4. x \o y \in Seq(Octet) /\ Len(x \o y) <= 5
    <3>1. x \o y \in Seq(Octet) /\ Len(x \o y) = Len(x) + Len(y)
      BY <2>1, ConcatProperties, Zenon
    <3>2. QED
      BY <2>1, <3>1
  <2>5. Payload(LoginSuccess, LoginClientbound[LoginSuccess + 1], <<<<1>>, <<2>>>>)
          = Sent(2) \o (x \o y)
    <3>1. FlattenSeq(<<x, y>>) = x \o y
      BY <2>1, FlattenFew, Zenon
    <3>2. QED
      BY <2>2, <2>3, <3>1, Zenon DEF Payload, LoginSuccess
  <2>6. Sendable(Sent(2) \o (x \o y))
    <3> DEFINE z == x \o y
    <3>1. z \in Seq(Octet) /\ Len(z) <= 5
      BY <2>4
    <3> HIDE DEF z
    <3>2. Sendable(Sent(2) \o z)
      BY <3>1, ShortSendable
    <3>3. QED
      BY <3>2 DEF z
  <2>7. QED
    BY <2>5, <2>6, Zenon
<1>3. Sendable(Payload(Disconnect, LoginClientbound[Disconnect + 1], <<<<1>>>>))
  <2> DEFINE x == Send("String", <<1>>)
  <2>1. x \in Seq(Octet) /\ Len(x) = 2
    BY TextIs
  <2>2. LoginClientbound[Disconnect + 1] = <<"String">>
    BY DEF LoginClientbound, Disconnect
  <2>3. [i \in DOMAIN <<"String">> |-> Send(<<"String">>[i], <<<<1>>>>[i])] = <<x>>
    OBVIOUS
  <2> HIDE DEF x
  <2>4. Payload(Disconnect, LoginClientbound[Disconnect + 1], <<<<1>>>>) = Sent(0) \o x
    BY <2>1, <2>2, <2>3, FlattenFew, Zenon DEF Payload, Disconnect
  <2>5. Len(x) <= 5
    BY <2>1
  <2>6. Sendable(Sent(0) \o x)
    BY <2>1, <2>5, ShortSendable
  <2>7. QED
    BY <2>4, <2>6, Zenon
<1>4. QED
  BY <1>1, <1>2, <1>3
-----------------------------------------------------------------------------
(* The stream as the packets that were sent *)

\* A sequence taken apart, and what two joined begin with.
LEMMA Splits ==
  ASSUME NEW S, NEW s \in Seq(S), NEW n \in 0 .. Len(s)
  PROVE  /\ Took(n, s) \in Seq(S) /\ Left(n, s) \in Seq(S)
         /\ Len(Took(n, s)) = n /\ Len(Left(n, s)) = Len(s) - n
         /\ Took(n, s) \o Left(n, s) = s
<1>1. n \in Nat /\ n <= Len(s) /\ Len(s) \in Nat /\ \A i \in 1 .. Len(s) : s[i] \in S
  OBVIOUS
<1>2. Took(n, s) = SubSeq(s, 1, n) /\ Left(n, s) = SubSeq(s, n + 1, Len(s))
  BY <1>1 DEF Took, Left
<1>3. Took(n, s) \in Seq(S) /\ Len(Took(n, s)) = n
  BY <1>1, <1>2, SubSeqProperties
<1>4. Left(n, s) \in Seq(S) /\ Len(Left(n, s)) = Len(s) - n
  BY <1>1, <1>2, SubSeqProperties
<1>5. SubSeq(s, 1, n) \o SubSeq(s, n + 1, Len(s)) = SubSeq(s, 1, Len(s))
  <2>1. 1 \in 1 .. Len(s) + 1 /\ n \in 1 - 1 .. Len(s) /\ Len(s) \in n .. Len(s)
    BY <1>1
  <2>2. QED
    BY <2>1, ConcatAdjacentSubSeq, Zenon
<1>6. QED
  BY <1>2, <1>3, <1>4, <1>5, SubSeqFull

LEMMA JoinedApart ==
  ASSUME NEW S, NEW x \in Seq(S), NEW y \in Seq(S)
  PROVE  Took(Len(x), x \o y) = x /\ Left(Len(x), x \o y) = y
<1> DEFINE z == x \o y
           n == Len(x)
<1>1. z \in Seq(S) /\ Len(z) = n + Len(y) /\ n \in Nat /\ Len(y) \in Nat
      /\ \A i \in 1 .. n + Len(y) : z[i] = IF i <= n THEN x[i] ELSE y[i - n]
  BY ConcatProperties
<1>2. n \in 0 .. Len(z)
  BY <1>1
<1> HIDE DEF z
<1>3. Took(n, z) \in Seq(S) /\ Left(n, z) \in Seq(S) /\ Len(Took(n, z)) = n
      /\ Len(Left(n, z)) = Len(y)
  BY <1>1, <1>2, Splits
<1>4. \A i \in 1 .. Len(z) : z[i] \in S
  BY <1>1
<1>5. ASSUME NEW i \in 1 .. n PROVE Took(n, z)[i] = x[i]
  <2>1. Took(n, z) = SubSeq(z, 1, n)
    BY <1>1 DEF Took
  <2>2. Took(n, z)[i] = z[i]
    BY <1>1, <1>4, <2>1, SubSeqProperties
  <2>3. QED
    BY <1>1, <2>2
<1>6. ASSUME NEW i \in 1 .. Len(y) PROVE Left(n, z)[i] = y[i]
  <2>1. Left(n, z)[i] = z[n + i]
    BY <1>1, <1>4, SubSeqProperties DEF Left
  <2>2. QED
    BY <1>1, <2>1
<1>7. Took(n, z) = x
  BY <1>3, <1>5, SeqEqual
<1>8. Left(n, z) = y
  BY <1>3, <1>6, SeqEqual
<1>9. QED
  BY <1>7, <1>8 DEF z

LEMMA PartOfJoined ==
  ASSUME NEW S, NEW x \in Seq(S), NEW y \in Seq(S), NEW n \in 0 .. Len(x)
  PROVE  Took(n, x \o y) = Took(n, x) /\ Left(n, x \o y) = Left(n, x) \o y
<1> DEFINE a == Took(n, x)
           b == Left(n, x)
<1>1. a \in Seq(S) /\ b \in Seq(S) /\ Len(a) = n /\ a \o b = x
  BY Splits
<1> HIDE DEF a, b
<1>2. b \o y \in Seq(S) /\ (a \o b) \o y = a \o (b \o y)
  <2>1. b \o y \in Seq(S)
    BY <1>1, ConcatProperties, Zenon
  <2>2. (a \o b) \o y = a \o (b \o y)
    <3>1. a \in Seq(S) /\ b \in Seq(S) /\ y \in Seq(S)
      BY <1>1
    <3>2. Reassociates(S)
      BY Reassociate, Zenon
    <3>3. QED
      BY <3>1, <3>2, Zenon DEF Reassociates
  <2>3. QED
    BY <2>1, <2>2
<1> DEFINE c == b \o y
<1> HIDE DEF c
<1>3. x \o y = a \o c
  BY <1>1, <1>2, Zenon DEF c
<1>4. Took(n, a \o c) = a /\ Left(n, a \o c) = c
  BY <1>1, <1>2, JoinedApart, Zenon DEF c
<1>5. QED
  BY <1>3, <1>4, Zenon DEF a, b, c

\* One packet more is sent.
LEMMA PartsAppend ==
  ASSUME NEW S, NEW f \in Seq(Seq(S)), NEW b \in Seq(S), NEW m \in 0 .. Len(f)
  PROVE  /\ Before(Append(f, b), m) = Before(f, m)
         /\ Rest(Append(f, b), m) = Rest(f, m) \o b
<1> DEFINE R == Seq(S)
           g == Append(f, b)
           l == Len(f)
<1>1. f \in Seq(R) /\ b \in R
  OBVIOUS
<1> HIDE DEF R
<1>2. /\ l \in Nat /\ m \in Nat /\ m <= l /\ \A i \in 1 .. l : f[i] \in R
      /\ g \in Seq(R) /\ Len(g) = l + 1 /\ g[l + 1] = b /\ \A i \in 1 .. l : g[i] = f[i]
      /\ \A i \in 1 .. l + 1 : g[i] \in R
  BY <1>1
<1> HIDE DEF g, l
<1>3. SubSeq(g, 1, m) = SubSeq(f, 1, m)
  <2>1. /\ SubSeq(g, 1, m) \in Seq(R) /\ SubSeq(f, 1, m) \in Seq(R)
        /\ Len(SubSeq(g, 1, m)) = m /\ Len(SubSeq(f, 1, m)) = m
        /\ \A i \in 1 .. m : SubSeq(g, 1, m)[i] = g[i] /\ SubSeq(f, 1, m)[i] = f[i]
    BY <1>2, SubSeqProperties
  <2>2. QED
    BY <1>2, <2>1, SeqEqual
<1> DEFINE u == SubSeq(f, m + 1, l)
           v == SubSeq(g, m + 1, l + 1)
<1>4. v = Append(u, b)
  <2>1. /\ u \in Seq(R) /\ Len(u) = l - m /\ \A i \in 1 .. l - m : u[i] = f[m + i]
    <3>1. \A i \in m + 1 .. l : f[i] \in R
      BY <1>2
    <3>2. QED
      BY <1>2, <3>1, SubSeqProperties
  <2>2. /\ v \in Seq(R) /\ Len(v) = l + 1 - m /\ \A i \in 1 .. l + 1 - m : v[i] = g[m + i]
    <3>1. \A i \in m + 1 .. l + 1 : g[i] \in R
      BY <1>2
    <3>2. QED
      BY <1>2, <3>1, SubSeqProperties
  <2> HIDE DEF u, v
  <2> DEFINE w == Append(u, b)
  <2>3. /\ w \in Seq(R) /\ Len(w) = l + 1 - m /\ w[l + 1 - m] = b
        /\ \A i \in 1 .. l - m : w[i] = f[m + i]
    <3>1. /\ w \in Seq(R) /\ Len(w) = Len(u) + 1 /\ w[Len(u) + 1] = b
          /\ \A i \in 1 .. Len(u) : w[i] = u[i]
      BY <1>1, <2>1, AppendProperties
    <3> HIDE DEF w
    <3>2. l - m + 1 = l + 1 - m
      BY <1>2
    <3>3. QED
      BY <2>1, <3>1, <3>2
  <2> HIDE DEF w
  <2>4. ASSUME NEW i \in 1 .. l + 1 - m
        PROVE  v[i] = w[i]
    <3>1. v[i] = g[m + i]
      BY <2>2
    <3>2. CASE i = l + 1 - m
      <4>1. m + i = l + 1
        BY <1>2, <3>2
      <4>2. QED
        BY <1>2, <2>3, <3>1, <3>2, <4>1
    <3>3. CASE i # l + 1 - m
      <4>1. m + i \in 1 .. l /\ i \in 1 .. l - m
        BY <1>2, <3>3
      <4>2. QED
        BY <1>2, <2>3, <3>1, <4>1
    <3>4. QED
      BY <3>2, <3>3
  <2>5. v = w
    BY <2>2, <2>3, <2>4, SeqEqual
  <2>6. QED
    BY <2>5 DEF w
<1>5. u \in Seq(R)
  BY <1>2, SubSeqProperties
<1> HIDE DEF u, v
<1>6. FlattenSeq(v) = FlattenSeq(u) \o b
  BY <1>1, <1>4, <1>5, FlattenAppend, Zenon DEF R
<1>7. QED
  BY <1>2, <1>3, <1>6 DEF Before, Rest, g, u, v, l

\* The state of the cipher after the first m packets f, and s the bytes and c the state
\* of the decryptor after them, or inside the packet n with l of its bytes to come.
Seal(f, m, d) == AfterByte(Before(f, m), d)
Stands(f, d, m, s, c) == s = Rest(f, m) /\ c = Seal(f, m, d)
Inside(f, d, n, s, c, l) == \E u \in 0 .. Len(f[n]) :
  /\ u + l = Len(f[n]) /\ s = Left(u, f[n]) \o Rest(f, n)
  /\ c = AfterByte(Took(u, f[n]), Seal(f, n - 1, d))

\* Each of f is one packet; the last one can be cut off when the server has closed.
Good(f, d, k, shut) ==
  Frame(f[k], Seal(f, k - 1, d)) \/ (shut /\ k = Len(f) /\ Cut(f[k], Seal(f, k - 1, d)))
WellSent(f, d, shut) == f \in Seq(Seq(Octet)) /\ \A k \in 1 .. Len(f) : Good(f, d, k, shut)

LEMMA SealNext ==
  ASSUME NEW f \in Seq(Seq(Octet)), NEW d \in States
  PROVE  /\ Seal(f, 0, d) = d /\ \A m \in 0 .. Len(f) : Seal(f, m, d) \in States
         /\ \A n \in 1 .. Len(f) : Seal(f, n, d) = AfterByte(f[n], Seal(f, n - 1, d))
<1>1. Seal(f, 0, d) = d
  <2>1. Len(f) \in Nat
    OBVIOUS
  <2>2. Before(f, 0) = <<>>
    BY <2>1, PartsType
  <2>3. QED
    BY <2>2 DEF Seal, AfterByte
<1>2. ASSUME NEW m \in 0 .. Len(f) PROVE Seal(f, m, d) \in States
  BY PartsType, AfterType DEF Seal
<1>3. ASSUME NEW n \in 1 .. Len(f) PROVE Seal(f, n, d) = AfterByte(f[n], Seal(f, n - 1, d))
  <2>1. n - 1 \in 0 .. Len(f) /\ f[n] \in Seq(Octet)
    <3> DEFINE R == Seq(Octet)
    <3>1. f \in Seq(R)
      OBVIOUS
    <3> HIDE DEF R
    <3>2. f[n] \in R /\ n - 1 \in 0 .. Len(f)
      BY <3>1
    <3>3. QED
      BY <3>2 DEF R
  <2>2. Before(f, n - 1) \in Seq(Octet)
    BY <2>1, PartsType
  <2>3. Before(f, n) = Before(f, n - 1) \o f[n]
    BY PartsNext, Zenon
  <2>4. QED
    BY <2>1, <2>2, <2>3, AfterJoined, Zenon DEF Seal
<1>4. QED
  BY <1>1, <1>2, <1>3

\* The server sends one packet more.
LEMMA GrowsOn ==
  ASSUME NEW f, NEW d \in States, WellSent(f, d, FALSE), NEW b \in Seq(Octet), NEW shut \in BOOLEAN,
         Frame(b, Seal(f, Len(f), d)) \/ (shut /\ Cut(b, Seal(f, Len(f), d)))
  PROVE  /\ WellSent(Append(f, b), d, shut)
         /\ Seal(Append(f, b), Len(f) + 1, d) = AfterByte(b, Seal(f, Len(f), d))
         /\ \A m \in 0 .. Len(f) : \A s, c : Stands(f, d, m, s, c) =>
              Stands(Append(f, b), d, m, s \o b, c)
         /\ \A n \in 1 .. Len(f) : \A s, c, l : Inside(f, d, n, s, c, l) =>
              Inside(Append(f, b), d, n, s \o b, c, l)
<1> DEFINE g == Append(f, b)
           z == Len(f)
<1>1. /\ f \in Seq(Seq(Octet)) /\ z \in Nat /\ g \in Seq(Seq(Octet)) /\ Len(g) = z + 1
      /\ g[z + 1] = b /\ \A k \in 1 .. z : g[k] = f[k] /\ f[k] \in Seq(Octet)
  <2> DEFINE R == Seq(Octet)
  <2>1. f \in Seq(R) /\ b \in R
    BY DEF WellSent
  <2> HIDE DEF R
  <2>2. /\ f \in Seq(R) /\ z \in Nat /\ g \in Seq(R) /\ Len(g) = z + 1
        /\ g[z + 1] = b /\ \A k \in 1 .. z : g[k] = f[k] /\ f[k] \in R
    BY <2>1, AppendProperties
  <2>3. QED
    BY <2>2 DEF R
<1>2. ASSUME NEW m \in 0 .. z
      PROVE  Before(g, m) = Before(f, m) /\ Rest(g, m) = Rest(f, m) \o b /\ Seal(g, m, d) = Seal(f, m, d)
  <2>1. Before(g, m) = Before(f, m) /\ Rest(g, m) = Rest(f, m) \o b
    BY <1>1, PartsAppend, Zenon
  <2>2. QED
    BY <2>1, Zenon DEF Seal
<1> HIDE DEF g
<1>3. Seal(g, z + 1, d) = AfterByte(b, Seal(f, z, d))
  <2>1. PICK n : n = z + 1 /\ n \in 1 .. Len(g) /\ n - 1 = z /\ z \in 0 .. z
    BY <1>1
  <2>2. Seal(g, n, d) = AfterByte(g[n], Seal(g, n - 1, d))
    BY <1>1, <2>1, SealNext
  <2>3. g[n] = b /\ Seal(g, n - 1, d) = Seal(f, z, d)
    BY <1>1, <1>2, <2>1
  <2>4. QED
    BY <2>1, <2>2, <2>3
<1>4. ASSUME NEW k \in 1 .. Len(g)
      PROVE  Good(g, d, k, shut)
  <2>1. CASE k \in 1 .. z
    <3>1. Good(f, d, k, FALSE)
      BY <2>1 DEF WellSent
    <3>2. Frame(f[k], Seal(f, k - 1, d))
      BY <3>1 DEF Good
    <3>3. k - 1 \in 0 .. z /\ g[k] = f[k]
      BY <1>1, <2>1
    <3>4. Seal(g, k - 1, d) = Seal(f, k - 1, d)
      BY <1>2, <3>3
    <3>5. QED
      BY <3>2, <3>3, <3>4 DEF Good
  <2>2. CASE k = z + 1
    <3>1. k - 1 = z /\ z \in 0 .. z /\ g[k] = b /\ k = Len(g)
      BY <1>1, <2>2
    <3>2. Seal(g, k - 1, d) = Seal(f, z, d)
      BY <1>2, <3>1
    <3>3. QED
      BY <3>1, <3>2 DEF Good
  <2>3. QED
    BY <1>1, <2>1, <2>2
<1>5. WellSent(g, d, shut)
  BY <1>1, <1>4 DEF WellSent
<1>6. ASSUME NEW m \in 0 .. z, NEW s, NEW c, Stands(f, d, m, s, c)
      PROVE  Stands(g, d, m, s \o b, c)
  BY <1>2, <1>6, Zenon DEF Stands
<1>7. ASSUME NEW n \in 1 .. z, NEW s, NEW c, NEW l, Inside(f, d, n, s, c, l)
      PROVE  Inside(g, d, n, s \o b, c, l)
  <2>1. PICK u \in 0 .. Len(f[n]) :
          /\ u + l = Len(f[n]) /\ s = Left(u, f[n]) \o Rest(f, n)
          /\ c = AfterByte(Took(u, f[n]), Seal(f, n - 1, d))
    BY <1>7, Zenon DEF Inside
  <2>2. n \in 0 .. z /\ n - 1 \in 0 .. z /\ g[n] = f[n] /\ f[n] \in Seq(Octet)
    <3>1. g[n] = f[n] /\ f[n] \in Seq(Octet)
      BY <1>1, Zenon
    <3>2. z \in Nat
      BY <1>1
    <3> HIDE DEF z
    <3>3. n \in 0 .. z /\ n - 1 \in 0 .. z
      BY <3>2
    <3>4. QED
      BY <3>1, <3>3
  <2>3. Seal(g, n - 1, d) = Seal(f, n - 1, d) /\ Rest(g, n) = Rest(f, n) \o b
    BY <1>2, <2>2
  <2>4. s \o b = Left(u, f[n]) \o (Rest(f, n) \o b)
    <3> DEFINE x == Left(u, f[n])
               y == Rest(f, n)
    <3>1. x \in Seq(Octet) /\ y \in Seq(Octet) /\ b \in Seq(Octet)
      BY <1>1, <2>2, Splits, PartsType
    <3> HIDE DEF x, y
    <3>2. Reassociates(Octet)
      BY Reassociate, Zenon
    <3>3. (x \o y) \o b = x \o (y \o b)
      BY <3>1, <3>2, Zenon DEF Reassociates
    <3>4. s = x \o y
      BY <2>1, Zenon DEF x, y
    <3>5. QED
      BY <3>3, <3>4, Zenon DEF x, y
  <2>5. s \o b = Left(u, g[n]) \o Rest(g, n)
    BY <2>2, <2>3, <2>4, Zenon
  <2>6. QED
    BY <2>1, <2>2, <2>3, <2>5, Zenon DEF Inside
<1>8. QED
  BY <1>3, <1>5, <1>6, <1>7 DEF g

\* A byte of the packet, and a byte of a sequence that goes on, are deciphered alike.
LEMMA BeginsAlike ==
  ASSUME NEW z \in Seq(Octet), NEW r \in Seq(Octet), NEW c \in States
  PROVE  /\ Decrypted(z, c) \in Seq(Octet) /\ Decrypted(z \o r, c) \in Seq(Octet)
         /\ Len(Decrypted(z, c)) = Len(z) /\ Len(z) <= Len(Decrypted(z \o r, c))
         /\ \A i \in 1 .. Len(z) : Decrypted(z, c)[i] = Decrypted(z \o r, c)[i]
<1> DEFINE s == z \o r
<1>1. /\ s \in Seq(Octet) /\ Len(z) <= Len(s) /\ Len(s) \in Nat /\ Len(z) \in Nat
      /\ \A i \in 1 .. Len(z) : z[i] = s[i]
  BY ConcatProperties
<1> HIDE DEF s
<1>2. \A i \in 1 .. Len(z) : Decrypted(z, c)[i] = Decrypted(s, c)[i]
  BY <1>1, DecryptedPart
<1>3. /\ Decrypted(z, c) \in Seq(Octet) /\ Decrypted(s, c) \in Seq(Octet)
      /\ Len(Decrypted(z, c)) = Len(z) /\ Len(Decrypted(s, c)) = Len(s)
  BY <1>1, DecryptedIs
<1>4. QED
  BY <1>1, <1>2, <1>3 DEF s

\* The length of a packet is that of the packet, but of one that is cut off, of which
\* there is less.
LEMMA ReadsLength ==
  ASSUME NEW f, NEW d \in States, NEW shut \in BOOLEAN, WellSent(f, d, shut),
         NEW m \in 0 .. Len(f), NEW s, NEW c, Stands(f, d, m, s, c),
         NEW p, p = Decrypted(s, c), Whole(p)
  PROVE  /\ m < Len(f) /\ Received(p) \in Nat
         /\ \/ Inside(f, d, m + 1, Left(Used(p), s), AfterByte(Took(Used(p), s), c), Received(p))
            \/ shut /\ Len(Left(Used(p), s)) < Received(p)
<1>1. f \in Seq(Seq(Octet)) /\ Len(f) \in Nat
  BY DEF WellSent
<1>2. s = Rest(f, m) /\ c = Seal(f, m, d) /\ c \in States
  BY <1>1, SealNext DEF Stands
<1>3. m < Len(f)
  <2> SUFFICES ASSUME m = Len(f) PROVE FALSE
    BY <1>1
  <2>1. s = <<>>
    BY <1>1, <1>2, PartsType
  <2>2. p \in Seq(Octet) /\ Len(p) = 0
    <3>1. s \in Seq(Octet) /\ Len(s) = 0
      BY <2>1
    <3>2. Decrypted(s, c) \in Seq(Octet) /\ Len(Decrypted(s, c)) = Len(s)
      BY <1>2, <3>1, DecryptedIs
    <3>3. QED
      BY <3>1, <3>2
  <2>3. QED
    BY <2>2 DEF Whole
<1> DEFINE n == m + 1
           z == f[n]
           r == Rest(f, n)
           q == Decrypted(z, c)
<1>4. n \in 1 .. Len(f) /\ n - 1 = m /\ n \in 0 .. Len(f)
  BY <1>1, <1>3
<1>5. z \in Seq(Octet)
  <2> DEFINE R == Seq(Octet)
  <2>1. f \in Seq(R)
    BY <1>1
  <2> HIDE DEF R
  <2>2. z \in R
    BY <1>4, <2>1
  <2>3. QED
    BY <2>2 DEF R
<1>6. r \in Seq(Octet) /\ s = z \o r
  <2>1. Rest(f, n - 1) = f[n] \o Rest(f, n)
    BY <1>1, <1>4, PartsNext, Zenon
  <2>2. r \in Seq(Octet)
    BY <1>1, <1>4, PartsType
  <2>3. QED
    BY <1>2, <1>4, <2>1, <2>2
<1>7. Good(f, d, n, shut) /\ c = Seal(f, n - 1, d)
  BY <1>2, <1>4 DEF WellSent
<1> HIDE DEF n, z, r
<1>8. /\ q \in Seq(Octet) /\ p \in Seq(Octet) /\ Len(q) = Len(z) /\ Len(q) <= Len(p)
      /\ \A i \in 1 .. Len(q) : q[i] = p[i]
  <2>1. /\ Decrypted(z, c) \in Seq(Octet) /\ Decrypted(z \o r, c) \in Seq(Octet)
        /\ Len(Decrypted(z, c)) = Len(z) /\ Len(z) <= Len(Decrypted(z \o r, c))
        /\ \A i \in 1 .. Len(z) : Decrypted(z, c)[i] = Decrypted(z \o r, c)[i]
    BY <1>2, <1>5, <1>6, BeginsAlike
  <2>2. p = Decrypted(z \o r, c)
    BY <1>6, Zenon
  <2> HIDE DEF q
  <2>3. /\ q \in Seq(Octet) /\ p \in Seq(Octet) /\ Len(q) = Len(z) /\ Len(z) <= Len(p)
        /\ \A i \in 1 .. Len(z) : q[i] = p[i]
    BY <2>1, <2>2, Zenon DEF q
  <2>4. QED
    BY <2>3
<1> HIDE DEF q
<1>9. Whole(q) => /\ Used(p) = Used(q) /\ Received(p) = Received(q)
                  /\ Used(q) \in 1 .. 5 /\ Used(q) <= Len(q) /\ Received(q) \in Nat
  BY <1>8, WholeAgree
<1> DEFINE u == Used(p)
           l == Received(p)
<1>10. ASSUME Whole(q), Len(z) = Used(q) + Received(q)
       PROVE  l \in Nat /\ Inside(f, d, n, Left(u, s), AfterByte(Took(u, s), c), l)
  <2>1. u = Used(q) /\ l = Received(q) /\ u \in Nat /\ l \in Nat /\ u + l = Len(z)
    BY <1>9, <1>10
  <2> HIDE DEF u, l
  <2>2. u \in 0 .. Len(z)
    BY <2>1
  <2>3. Took(u, s) = Took(u, z) /\ Left(u, s) = Left(u, z) \o r
    BY <1>5, <1>6, <2>2, PartOfJoined, Zenon
  <2>4. QED
    BY <1>7, <2>1, <2>2, <2>3, Zenon DEF Inside, z, r
<1>11. CASE Frame(z, c)
  <2>1. Whole(q) /\ Len(z) = Used(q) + Received(q)
    BY <1>11 DEF Frame, q
  <2>2. QED
    BY <1>3, <1>10, <2>1, Zenon DEF n
<1>12. CASE ~Frame(z, c)
  <2>1. shut /\ n = Len(f) /\ (Whole(q) => Len(z) < Used(q) + Received(q))
    BY <1>7, <1>12 DEF Good, Cut, z, q
  <2>2. r = <<>>
    BY <1>1, <2>1, PartsType DEF r
  <2>3. s = z
    BY <1>5, <1>6, <2>2, ConcatEmptySeq
  <2>4. q = p
    BY <2>3 DEF q
  <2>5. u \in Nat /\ u <= Len(z) /\ l \in Nat /\ Len(z) < u + l /\ Len(z) \in Nat
    BY <1>5, <1>8, <1>9, <2>1, <2>4
  <2> HIDE DEF u, l
  <2>6. Len(Left(u, s)) = Len(z) - u
    BY <1>5, <2>3, <2>5, Splits
  <2>7. Len(Left(u, s)) < l
    BY <2>5, <2>6
  <2>8. QED
    BY <1>3, <2>1, <2>5, <2>7 DEF u, l
<1>13. QED
  BY <1>11, <1>12

\* The rest of the packet, of which all is there.
LEMMA ReadsBody ==
  ASSUME NEW f, NEW d \in States, NEW shut \in BOOLEAN, WellSent(f, d, shut),
         NEW n \in 1 .. Len(f), NEW s, NEW c, NEW l \in Nat, Inside(f, d, n, s, c, l)
  PROVE  Stands(f, d, n, Left(l, s), AfterByte(Took(l, s), c))
<1>1. f \in Seq(Seq(Octet)) /\ Len(f) \in Nat /\ n \in 0 .. Len(f) /\ n - 1 \in 0 .. Len(f)
  BY DEF WellSent
<1> DEFINE z == f[n]
           r == Rest(f, n)
<1>2. z \in Seq(Octet) /\ r \in Seq(Octet)
  <2> DEFINE R == Seq(Octet)
  <2>1. f \in Seq(R)
    BY <1>1
  <2> HIDE DEF R
  <2>2. z \in R
    BY <2>1
  <2>3. QED
    BY <1>1, <2>2, PartsType DEF R
<1>3. PICK u \in 0 .. Len(z) :
        /\ u + l = Len(z) /\ s = Left(u, z) \o r
        /\ c = AfterByte(Took(u, z), Seal(f, n - 1, d))
  BY Zenon DEF Inside
<1> HIDE DEF z, r
<1> DEFINE x == Took(u, z)
           y == Left(u, z)
<1>4. x \in Seq(Octet) /\ y \in Seq(Octet) /\ Len(y) = Len(z) - u /\ x \o y = z
  BY <1>2, Splits
<1>5. Len(y) = l
  BY <1>2, <1>3, <1>4
<1> HIDE DEF x, y
<1>6. Took(l, y \o r) = y /\ Left(l, y \o r) = r
  BY <1>2, <1>4, <1>5, JoinedApart, Zenon
<1>7. Took(l, s) = y /\ Left(l, s) = r
  BY <1>3, <1>6, Zenon DEF y
<1>8. AfterByte(y, c) = Seal(f, n, d)
  <2>1. Seal(f, n - 1, d) \in States
    BY <1>1, SealNext
  <2>2. AfterByte(x \o y, Seal(f, n - 1, d)) = AfterByte(y, AfterByte(x, Seal(f, n - 1, d)))
    BY <1>4, <2>1, AfterJoined, Zenon
  <2>3. Seal(f, n, d) = AfterByte(z, Seal(f, n - 1, d))
    BY <1>1, SealNext DEF z
  <2>4. QED
    BY <1>3, <1>4, <2>2, <2>3, Zenon DEF x
<1>9. QED
  BY <1>7, <1>8, Zenon DEF Stands, r
-----------------------------------------------------------------------------
(* The client stays in step with the packets *)

Frames == [k \in 1 .. Len(pushed) |-> pushed[k].bytes]
Start == IF sealing = Clear THEN Clear ELSE Fresh

AtPacket == {"waiting", "reacting", "listening"}
Ended == {"lost", "spinning", "broken", "failed"}

SentSoFar ==
  /\ sealing \in States /\ closed \in BOOLEAN /\ IsSeq(pushed)
  /\ WellSent(Frames, Start, closed) /\ sealing = Seal(Frames, Len(pushed), Start)

\* Where the client is, by its program counter.
Between == pc \in AtPacket =>
  Len(taken) <= Len(pushed) /\ Stands(Frames, Start, Len(taken), stream, decryptor)
Within == pc = "body" =>
  /\ Len(taken) < Len(pushed)
  /\ \/ Inside(Frames, Start, Len(taken) + 1, stream, decryptor, length)
     \/ closed /\ Len(stream) < length
Behind == pc = "parsing" =>
  Len(taken) < Len(pushed) /\ Stands(Frames, Start, Len(taken) + 1, stream, decryptor)

ReadInv ==
  /\ length \in Nat /\ IsSeq(taken)
  /\ pc \in AtPacket \cup Ended \cup {"body", "parsing"}
  /\ SentSoFar /\ Between /\ Within /\ Behind

LEMMA FramesAre ==
  ASSUME SentSoFar
  PROVE  /\ Frames \in Seq(Seq(Octet)) /\ Len(Frames) = Len(pushed) /\ Len(pushed) \in Nat
         /\ Start \in States
<1>1. Frames \in Seq(Seq(Octet)) /\ Len(pushed) \in Nat
  BY DEF SentSoFar, WellSent, IsSeq
<1>2. DOMAIN Frames = 1 .. Len(pushed)
  BY DEF Frames
<1> DEFINE R == Seq(Octet)
           f == Frames
<1> HIDE DEF R, f
<1>3. f \in Seq(R) /\ DOMAIN f = 1 .. Len(pushed)
  BY <1>1, <1>2 DEF R, f
<1>4. Len(f) = Len(pushed)
  BY <1>1, <1>3
<1>5. Start \in States
  BY OctetIs DEF Start, States
<1>6. QED
  BY <1>1, <1>4, <1>5 DEF f

LEMMA InitRead == Init => ReadInv
<1> SUFFICES ASSUME Init PROVE ReadInv
  OBVIOUS
<1>1. /\ sealing \in {Clear, Fresh} /\ closed = FALSE /\ pushed = <<>> /\ stream = <<>>
      /\ decryptor = sealing /\ pc = "waiting" /\ length = 0 /\ taken = <<>>
  BY DEF Init
<1>2. IsSeq(<<>>) /\ Len(<<>>) = 0 /\ <<>> \in Seq(Seq(Octet))
  <2>1. <<>> \in Seq(Int) /\ Len(<<>>) = 0 /\ <<>> \in Seq(Seq(Octet))
    BY EmptySeq
  <2>2. QED
    BY <2>1 DEF IsSeq
<1>3. Frames = <<>>
  BY <1>1, <1>2 DEF Frames
<1>4. Start = sealing /\ sealing \in States
  BY <1>1, OctetIs DEF Start, States
<1>5. WellSent(<<>>, Start, closed)
  BY <1>2 DEF WellSent
<1>6. Seal(<<>>, 0, Start) = Start
  BY <1>2, <1>4, SealNext
<1>7. Rest(<<>>, 0) = <<>>
  <2>1. PICK e : e = <<>>
    OBVIOUS
  <2>2. e \in Seq(Seq(Octet)) /\ Len(e) = 0
    BY <1>2, <2>1
  <2>3. Rest(e, Len(e)) = <<>>
    <3>1. 0 \in 0 .. Len(e)
      BY <2>2
    <3>2. QED
      BY <2>2, <3>1, PartsType
  <2>4. QED
    BY <2>1, <2>2, <2>3
<1>8. SentSoFar
  BY <1>1, <1>2, <1>3, <1>4, <1>5, <1>6 DEF SentSoFar
<1>9. Stands(<<>>, Start, 0, stream, decryptor)
  BY <1>1, <1>4, <1>6, <1>7 DEF Stands
<1>10. QED
  BY <1>1, <1>2, <1>3, <1>8, <1>9 DEF ReadInv, Between, Within, Behind, AtPacket

LEMMA InvInStep == ReadInv => InStep
<1> SUFFICES ASSUME ReadInv, pc = "waiting"
             PROVE  stream = FlattenSeq([k \in 1 .. Len(pushed) - Len(taken) |->
                                           pushed[Len(taken) + k].bytes])
  BY DEF InStep
<1> DEFINE m == Len(taken)
           l == Len(pushed)
           f == Frames
           s == SubSeq(f, m + 1, l)
           g == [k \in 1 .. l - m |-> pushed[m + k].bytes]
<1>1. m \in Nat /\ l \in Nat /\ m <= l /\ stream = Rest(f, m)
  <2>1. m \in Nat
    BY DEF ReadInv, IsSeq
  <2>2. m <= l /\ Stands(f, Start, m, stream, decryptor)
    BY DEF ReadInv, Between, AtPacket
  <2>3. QED
    BY <2>1, <2>2, FramesAre DEF ReadInv, Stands
<1>2. Len(f) = l /\ f \in Seq(Seq(Octet)) /\ \A k \in 1 .. l : f[k] = pushed[k].bytes
  BY FramesAre DEF ReadInv, Frames
<1>3. s = g
  <2> DEFINE R == Seq(Octet)
  <2> HIDE DEF f, l, m, R
  <2>1. f \in Seq(R) /\ \A k \in m + 1 .. l : f[k] \in R
    <3>1. f \in Seq(R)
      BY <1>2 DEF R
    <3>2. QED
      BY <1>1, <1>2, <3>1
  <2>2. s \in Seq(R) /\ Len(s) = l - m /\ \A k \in 1 .. l - m : s[k] = f[m + k]
    BY <1>1, <2>1, SubSeqProperties
  <2>3. \A k \in 1 .. l - m : m + k \in 1 .. l
    BY <1>1
  <2>4. \A k \in 1 .. l - m : s[k] = pushed[m + k].bytes
    BY <1>2, <2>2, <2>3
  <2> HIDE DEF s
  <2>5. s = [k \in 1 .. l - m |-> s[k]]
    BY <2>2, LenProperties
  <2>6. QED
    BY <2>4, <2>5
<1>4. Rest(f, m) = FlattenSeq(s)
  BY <1>2, Zenon DEF Rest
<1>5. QED
  BY <1>1, <1>3, <1>4, Zenon

\* The server sends a packet, or what is left of it when it closes.
LEMMA PushReads ==
  ASSUME ReadInv, NEW id, NEW payload, NEW values, NEW whole, Sendable(payload),
         Push(id, payload, values, whole), UNCHANGED client
  PROVE  ReadInv'
<1> DEFINE f == Frames
           d == Start
           l == Len(pushed)
           frame == Encrypted(ServerFramed(payload), sealing)
<1>1. UNCHANGED <<decryptor, pc, length, taken>>
  BY DEF client
<1>2. /\ f \in Seq(Seq(Octet)) /\ Len(f) = l /\ l \in Nat /\ d \in States
      /\ sealing \in States /\ IsSeq(pushed) /\ IsSeq(taken) /\ length \in Nat
      /\ WellSent(f, d, closed) /\ sealing = Seal(f, l, d) /\ Len(taken) \in Nat
  BY FramesAre DEF ReadInv, SentSoFar, IsSeq
<1>3. ~closed /\ closed = FALSE
  BY DEF Push, ReadInv, SentSoFar
<1>4. PICK bytes \in {frame} \cup CutOff(frame) :
        /\ \E e : pushed' = Append(pushed, e) /\ e.bytes = bytes
        /\ stream' = stream \o bytes /\ closed' = (bytes # frame)
        /\ sealing' = AfterByte(bytes, sealing)
  BY DEF Push
<1>5. frame \in Seq(Octet) /\ Frame(frame, sealing) /\ Len(frame) > 0
  BY <1>2, SentWhole
<1> HIDE DEF frame
<1>6. bytes \in Seq(Octet) /\ (Frame(bytes, sealing) \/ (closed' /\ Cut(bytes, sealing)))
  BY <1>2, <1>4, <1>5, SentCut
<1>7. PICK e : pushed' = Append(pushed, e) /\ e.bytes = bytes
  BY <1>4
<1>8. /\ IsSeq(pushed') /\ Len(pushed') = l + 1
      /\ Frames' = Append(f, bytes)
  <2>1. PICK S : pushed \in Seq(S)
    BY <1>2 DEF IsSeq
  <2> DEFINE R == S \cup {e}
  <2>2. pushed \in Seq(R) /\ e \in R
    BY <2>1
  <2> HIDE DEF R
  <2>3. /\ pushed' \in Seq(R) /\ Len(pushed') = l + 1 /\ pushed'[l + 1] = e
        /\ \A k \in 1 .. l : pushed'[k] = pushed[k]
    BY <1>7, <2>2, AppendProperties
  <2> DEFINE g == Append(f, bytes)
             T == Seq(Octet)
  <2>4. /\ g \in Seq(T) /\ Len(g) = l + 1 /\ g[l + 1] = bytes
        /\ \A k \in 1 .. l : g[k] = f[k]
    <3>1. f \in Seq(T) /\ bytes \in T /\ Len(f) = l
      BY <1>2, <1>6
    <3> HIDE DEF T, f, l
    <3>2. QED
      BY <3>1, AppendProperties
  <2>5. g = [k \in 1 .. l + 1 |-> g[k]]
    <3> HIDE DEF g, T
    <3>1. QED
      BY <2>4, LenProperties
  <2>6. Frames' = [k \in 1 .. l + 1 |-> pushed'[k].bytes]
    BY <2>3 DEF Frames
  <2>7. \A k \in 1 .. l : f[k] = pushed[k].bytes
    BY DEF Frames
  <2>8. ASSUME NEW k \in 1 .. l + 1 PROVE pushed'[k].bytes = g[k]
    <3>1. CASE k \in 1 .. l
      <4> HIDE DEF f, g, l
      <4>1. QED
        BY <2>3, <2>4, <2>7, <3>1
    <3>2. CASE k = l + 1
      <4> HIDE DEF f, g, l
      <4>1. QED
        BY <1>7, <2>3, <2>4, <3>2
    <3>3. QED
      BY <1>2, <3>1, <3>2
  <2> HIDE DEF f, g, l
  <2>9. Frames' = g
    BY <2>5, <2>6, <2>8
  <2>10. QED
    BY <2>3, <2>9 DEF g, IsSeq
<1>9. Start' = d
  <2>1. sealing' = Clear <=> sealing = Clear
    BY <1>2, <1>4, <1>6, AfterType
  <2>2. QED
    BY <2>1 DEF Start
<1> HIDE DEF f, d, l
<1>10. /\ WellSent(Append(f, bytes), d, closed')
       /\ Seal(Append(f, bytes), l + 1, d) = AfterByte(bytes, sealing)
       /\ \A m \in 0 .. l : \A s, c : Stands(f, d, m, s, c) =>
            Stands(Append(f, bytes), d, m, s \o bytes, c)
       /\ \A n \in 1 .. l : \A s, c, k : Inside(f, d, n, s, c, k) =>
            Inside(Append(f, bytes), d, n, s \o bytes, c, k)
  <2>1. closed' \in BOOLEAN /\ WellSent(f, d, FALSE)
    BY <1>2, <1>3, <1>4
  <2>2. Len(f) = l /\ sealing = Seal(f, Len(f), d)
    BY <1>2
  <2>3. QED
    BY <1>2, <1>6, <2>1, <2>2, GrowsOn
<1>11. SentSoFar'
  <2>1. sealing' \in States
    BY <1>2, <1>4, <1>6, AfterType
  <2>2. QED
    BY <1>4, <1>8, <1>9, <1>10, <2>1 DEF SentSoFar
<1>12. Between'
  <2> SUFFICES ASSUME pc \in AtPacket
               PROVE  /\ Len(taken) <= Len(pushed')
                      /\ Stands(Frames', Start', Len(taken), stream', decryptor)
    BY <1>1 DEF Between
  <2>1. Len(taken) <= l /\ Stands(f, d, Len(taken), stream, decryptor)
    BY DEF ReadInv, Between, f, d, l
  <2>2. Len(taken) \in 0 .. l
    BY <1>2, <2>1
  <2>3. QED
    BY <1>2, <1>4, <1>8, <1>9, <1>10, <2>1, <2>2
<1>13. Within'
  <2> SUFFICES ASSUME pc = "body"
               PROVE  /\ Len(taken) < Len(pushed')
                      /\ Inside(Frames', Start', Len(taken) + 1, stream', decryptor, length)
    BY <1>1 DEF Within
  <2>1. Len(taken) < l /\ Inside(f, d, Len(taken) + 1, stream, decryptor, length)
    BY <1>3 DEF ReadInv, Within, f, d, l
  <2>2. Len(taken) + 1 \in 1 .. l
    BY <1>2, <2>1
  <2>3. QED
    BY <1>2, <1>4, <1>8, <1>9, <1>10, <2>1, <2>2
<1>14. Behind'
  <2> SUFFICES ASSUME pc = "parsing"
               PROVE  /\ Len(taken) < Len(pushed')
                      /\ Stands(Frames', Start', Len(taken) + 1, stream', decryptor)
    BY <1>1 DEF Behind
  <2>1. Len(taken) < l /\ Stands(f, d, Len(taken) + 1, stream, decryptor)
    BY DEF ReadInv, Behind, f, d, l
  <2>2. Len(taken) + 1 \in 0 .. l
    BY <1>2, <2>1
  <2>3. QED
    BY <1>2, <1>4, <1>8, <1>9, <1>10, <2>1, <2>2
<1>15. QED
  BY <1>1, <1>2, <1>11, <1>12, <1>13, <1>14 DEF ReadInv

LEMMA ServerReads ==
  ASSUME ReadInv, Server
  PROVE  ReadInv'
<1>1. ASSUME ServerLogin PROVE ReadInv'
  <2>1. UNCHANGED client
    BY <1>1 DEF ServerLogin
  <2>2. ASSUME NEW id, NEW values, PushLogin(id, values),
               Sendable(Payload(id, LoginClientbound[id + 1], values))
        PROVE  ReadInv'
    BY <2>1, <2>2, PushReads DEF PushLogin
  <2>3. \/ \E t \in Thresholds : PushLogin(SetCompression, <<<<t>>>>)
        \/ PushLogin(LoginSuccess, <<<<1>>, <<2>>>>)
        \/ PushLogin(Disconnect, <<<<1>>>>)
    BY <1>1 DEF ServerLogin
  <2>4. QED
    BY <2>2, <2>3, LoginSendable
<1>2. ASSUME ServerPlay PROVE ReadInv'
  <2>1. UNCHANGED client
    BY <1>2 DEF ServerPlay
  <2>2. PICK samples \in {Core, Samples} : PushOneOf(samples)
    BY <1>2 DEF ServerPlay
  <2>3. PICK id \in DOMAIN samples : \E s \in samples[id] : Push(id, s.payload, s.values, s.whole)
    BY <2>2 DEF PushOneOf
  <2>4. PICK s \in samples[id] : Push(id, s.payload, s.values, s.whole)
    BY <2>3
  <2>5. Sendable(s.payload)
    BY PacketAssumption DEF PacketAssumption
  <2>6. QED
    BY <2>1, <2>4, <2>5, PushReads
<1>3. ASSUME ServerClose PROVE ReadInv'
  <2>1. closed = FALSE /\ closed' = TRUE
    BY <1>3 DEF ServerClose, ReadInv, SentSoFar
  <2>2. UNCHANGED <<sealing, pushed, stream, decryptor, pc, length, taken>>
    BY <1>3 DEF ServerClose, client
  <2>3. Frames' = Frames /\ Start' = Start
    BY <2>2 DEF Frames, Start
  <2>4. WellSent(Frames, Start, TRUE)
    <3>1. WellSent(Frames, Start, FALSE)
      BY <2>1 DEF ReadInv, SentSoFar
    <3>2. QED
      BY <3>1 DEF WellSent, Good
  <2>5. SentSoFar'
    BY <2>1, <2>2, <2>3, <2>4 DEF ReadInv, SentSoFar
  <2>6. Between' /\ Behind'
    BY <2>2, <2>3 DEF ReadInv, Between, Behind
  <2>7. Within'
    BY <2>1, <2>2, <2>3 DEF ReadInv, Within
  <2>8. QED
    BY <2>2, <2>5, <2>6, <2>7 DEF ReadInv
<1>4. QED
  BY <1>1, <1>2, <1>3 DEF Server

\* What the server has sent, and where the thread is, at steps that do not read.
LEMMA SentStays ==
  ASSUME ReadInv, UNCHANGED server
  PROVE  SentSoFar' /\ Frames' = Frames /\ Start' = Start
<1>1. UNCHANGED <<sealing, pushed, closed>>
  BY DEF server
<1>2. Frames' = Frames /\ Start' = Start
  BY <1>1 DEF Frames, Start
<1>3. QED
  BY <1>1, <1>2 DEF ReadInv, SentSoFar

LEMMA StaysThere ==
  ASSUME ReadInv, UNCHANGED <<server, stream, decryptor, length, taken>>,
         \/ pc' = pc
         \/ pc \in AtPacket /\ pc' \in AtPacket
         \/ pc' \in Ended
  PROVE  ReadInv'
<1>1. UNCHANGED <<sealing, pushed, closed>> /\ SentSoFar' /\ Frames' = Frames /\ Start' = Start
  BY SentStays DEF server
<1>2. Between' /\ Within' /\ Behind'
  BY <1>1 DEF ReadInv, Between, Within, Behind, AtPacket, Ended
<1>3. QED
  BY <1>1, <1>2 DEF ReadInv, IsSeq

LEMMA LengthReads ==
  ASSUME ReadInv, ReadLength
  PROVE  ReadInv'
<1>1. pc = "waiting" /\ UNCHANGED <<server, taken, pushed, closed>>
  BY DEF ReadLength, server
<1>2. CASE ~Whole(Plaintext)
  BY <1>2, StaysThere DEF ReadLength, Ended
<1>3. CASE Whole(Plaintext)
  <2> DEFINE p == Plaintext
             m == Len(taken)
             f == Frames
             d == Start
  <2>1. /\ pc' = "body" /\ length' = Received(p) /\ stream' = Left(Used(p), stream)
        /\ decryptor' = AfterByte(Took(Used(p), stream), decryptor)
    BY <1>3 DEF ReadLength, Consume
  <2>2. /\ m \in 0 .. Len(f) /\ Len(f) = Len(pushed) /\ Stands(f, d, m, stream, decryptor)
        /\ WellSent(f, d, closed) /\ closed \in BOOLEAN /\ d \in States
    <3>1. Len(f) = Len(pushed) /\ Len(pushed) \in Nat /\ d \in States
      BY FramesAre DEF ReadInv
    <3>2. m \in Nat /\ m <= Len(pushed) /\ Stands(f, d, m, stream, decryptor)
      BY <1>1 DEF ReadInv, Between, AtPacket, IsSeq
    <3>3. QED
      BY <3>1, <3>2 DEF ReadInv, SentSoFar
  <2>3. p = Decrypted(stream, decryptor)
    BY DEF Plaintext
  <2> HIDE DEF p, f, d, m
  <2>4. /\ m < Len(f) /\ Received(p) \in Nat
        /\ \/ Inside(f, d, m + 1, Left(Used(p), stream),
                     AfterByte(Took(Used(p), stream), decryptor), Received(p))
           \/ closed /\ Len(Left(Used(p), stream)) < Received(p)
    <3>1. Whole(p)
      BY <1>3 DEF p
    <3>2. QED
      BY <2>2, <2>3, <3>1, ReadsLength
  <2>5. SentSoFar' /\ Frames' = f /\ Start' = d /\ Len(taken') = m
    BY <1>1, SentStays DEF f, d, m
  <2>6. Within'
    BY <1>1, <2>1, <2>2, <2>4, <2>5 DEF Within
  <2>7. Between' /\ Behind'
    BY <2>1 DEF Between, Behind, AtPacket
  <2>8. IsSeq(taken') /\ length' \in Nat
    BY <1>1, <2>1, <2>4 DEF ReadInv, IsSeq
  <2>9. QED
    BY <2>1, <2>5, <2>6, <2>7, <2>8 DEF ReadInv
<1>4. QED
  BY <1>2, <1>3

LEMMA BodyReads ==
  ASSUME ReadInv, ReadBody
  PROVE  ReadInv'
<1>1. pc = "body" /\ UNCHANGED <<server, taken, pushed, length>>
  BY DEF ReadBody, server
<1>2. CASE pc' = "spinning"
  BY <1>2, StaysThere DEF ReadBody, Ended
<1>3. CASE pc' # "spinning"
  <2> DEFINE m == Len(taken)
             f == Frames
             d == Start
  <2>1. /\ pc' = "parsing" /\ Len(stream) >= length /\ stream' = Left(length, stream)
        /\ decryptor' = AfterByte(Took(length, stream), decryptor)
    BY <1>3 DEF ReadBody, Consume
  <2>2. m \in Nat /\ Len(pushed) \in Nat /\ m < Len(pushed) /\ Len(f) = Len(pushed) /\ d \in States
    BY <1>1, FramesAre DEF ReadInv, Within, IsSeq
  <2>3. ~(Len(stream) < length)
    BY <1>1, <2>1 DEF ReadInv, Within
  <2>4. Inside(f, d, m + 1, stream, decryptor, length) /\ WellSent(f, d, closed)
        /\ closed \in BOOLEAN /\ length \in Nat
    BY <1>1, <2>3 DEF ReadInv, Within, SentSoFar
  <2> HIDE DEF f, d, m
  <2>5. Stands(f, d, m + 1, stream', decryptor')
    <3>1. m + 1 \in 1 .. Len(f)
      BY <2>2
    <3>2. QED
      BY <2>1, <2>2, <2>4, <3>1, ReadsBody
  <2>6. SentSoFar' /\ Frames' = f /\ Start' = d /\ Len(taken') = m
    BY <1>1, SentStays DEF f, d, m
  <2>7. Behind'
    BY <1>1, <2>2, <2>5, <2>6 DEF Behind
  <2>8. Between' /\ Within'
    BY <2>1 DEF Between, Within, AtPacket
  <2>9. IsSeq(taken') /\ length' \in Nat
    BY <1>1 DEF ReadInv, IsSeq
  <2>10. QED
    BY <2>1, <2>6, <2>7, <2>8, <2>9 DEF ReadInv
<1>4. QED
  BY <1>2, <1>3

LEMMA ParseReads ==
  ASSUME ReadInv, Parse
  PROVE  ReadInv'
<1>1. pc = "parsing" /\ UNCHANGED <<server, stream, decryptor, pushed, length>>
  BY DEF Parse, server
<1>2. CASE pc' = "broken"
  BY <1>1, <1>2, StaysThere DEF Parse, Ended
<1>3. CASE pc' # "broken"
  <2> DEFINE m == Len(taken)
  <2>1. pc' = "reacting" /\ \E p : taken' = Append(taken, p)
    BY <1>3, Zenon DEF Parse
  <2>2. PICK p : taken' = Append(taken, p)
    BY <2>1
  <2>3. IsSeq(taken') /\ Len(taken') = m + 1
    <3>1. PICK S : taken \in Seq(S)
      BY DEF ReadInv, IsSeq
    <3> DEFINE R == S \cup {p}
    <3>2. taken \in Seq(R) /\ p \in R
      BY <3>1
    <3> HIDE DEF R
    <3>3. taken' \in Seq(R) /\ Len(taken') = m + 1
      BY <2>2, <3>2, AppendProperties
    <3>4. QED
      BY <3>3 DEF IsSeq
  <2>4. /\ m \in Nat /\ Len(pushed) \in Nat /\ m < Len(pushed)
        /\ Stands(Frames, Start, m + 1, stream, decryptor)
    BY <1>1, FramesAre DEF ReadInv, Behind, IsSeq
  <2>5. SentSoFar' /\ Frames' = Frames /\ Start' = Start
    BY <1>1, SentStays
  <2>6. Between'
    BY <1>1, <2>3, <2>4, <2>5 DEF Between
  <2>7. Within' /\ Behind'
    BY <2>1 DEF Within, Behind
  <2>8. QED
    BY <1>1, <2>1, <2>3, <2>5, <2>6, <2>7 DEF ReadInv, AtPacket
<1>4. QED
  BY <1>2, <1>3

LEMMA StepRead == ReadInv /\ [Next]_vars => ReadInv'
<1> SUFFICES ASSUME ReadInv, [Next]_vars
             PROVE  ReadInv'
  OBVIOUS
<1>1. CASE Server
  BY <1>1, ServerReads
<1>2. CASE ReadLength \/ ReadBody \/ Parse
  BY <1>2, LengthReads, BodyReads, ParseReads
<1>3. CASE React
  BY <1>3, StaysThere DEF React, AtPacket, Ended
<1>4. CASE Listen
  BY <1>4, StaysThere DEF Listen, AtPacket, Ended
<1>5. CASE Write \/ WriteRaises \/ Chat \/ Registering
  BY <1>5, StaysThere DEF Write, WriteRaises, Chat, Registering, client, AtPacket, Ended
<1>6. CASE UNCHANGED vars
  BY <1>6, StaysThere DEF vars, client
<1>7. QED
  BY <1>1, <1>2, <1>3, <1>4, <1>5, <1>6 DEF Next, Thread

\* connection.py:285-303, encryption.py: whenever the thread looks for a packet, what is
\* left of the stream is the packets it has not read, from the first byte of one on,
\* and its decryptor has seen all the bytes before: whatever became of the packets
\* before, compressed or not, and wherever the server has closed the connection.
THEOREM StaysInStep == Spec => []InStep
<1>1. Init => ReadInv
  BY InitRead
<1>2. ReadInv /\ [Next]_vars => ReadInv'
  BY StepRead
<1>3. ReadInv => InStep
  BY InvInStep
<1>4. QED
  BY <1>1, <1>2, <1>3, PTL DEF Spec

(* What zlib makes of what it has made *)

Unpacked(got, b) ==
  CASE got.ok -> got
    [] ~got.ok /\ got.times > 0 ->
         [got EXCEPT !.times = 0, !.value = @ \o [i \in 1 .. got.times |-> b]]
    [] ~got.ok /\ got.times = 0 -> [got EXCEPT !.times = b, !.ok = b = 0]

Unzipped == [ok : BOOLEAN, times : Nat, value : Seq(Octet)]
Unpacking == [p \in Unzipped \X Octet |-> Unpacked(p[1], p[2])]

\* Between two runs, with v behind; and a run.
Halfway(v) == [ok |-> FALSE, times |-> 0, value |-> v]
Run(n, b) == [i \in 1 .. n |-> b]

LEMMA RunIs ==
  ASSUME NEW n \in Nat, NEW b \in Octet
  PROVE  Run(n, b) \in Seq(Octet) /\ Len(Run(n, b)) = n /\ \A i \in 1 .. n : Run(n, b)[i] = b
BY DEF Run

LEMMA RunNext ==
  ASSUME NEW n \in Nat, NEW b \in Octet, NEW v \in Seq(Octet)
  PROVE  /\ v \o Run(n + 1, b) = Append(v \o Run(n, b), b)
         /\ v \o Run(1, b) = Append(v, b)
<1>1. ASSUME NEW m \in Nat
      PROVE  /\ v \o Run(m, b) \in Seq(Octet) /\ Len(v \o Run(m, b)) = Len(v) + m
             /\ \A i \in 1 .. Len(v) + m : (v \o Run(m, b))[i] = IF i <= Len(v) THEN v[i] ELSE b
  <2> DEFINE r == Run(m, b)
  <2>1. r \in Seq(Octet) /\ Len(r) = m /\ \A i \in 1 .. m : r[i] = b
    BY RunIs
  <2> HIDE DEF r
  <2>2. /\ v \o r \in Seq(Octet) /\ Len(v \o r) = Len(v) + m
        /\ \A i \in 1 .. Len(v) + m : (v \o r)[i] = IF i <= Len(v) THEN v[i] ELSE r[i - Len(v)]
    BY <2>1, ConcatProperties
  <2>3. \A i \in 1 .. Len(v) + m : ~(i <= Len(v)) => r[i - Len(v)] = b
    BY <2>1
  <2>4. QED
    BY <2>2, <2>3 DEF r
<1> DEFINE x == v \o Run(n, b)
           y == v \o Run(n + 1, b)
           z == v \o Run(1, b)
           l == Len(v)
<1>2. /\ n + 1 \in Nat /\ 1 \in Nat /\ l \in Nat
  OBVIOUS
<1>3. /\ x \in Seq(Octet) /\ Len(x) = l + n
      /\ \A i \in 1 .. l + n : x[i] = IF i <= l THEN v[i] ELSE b
  BY <1>1
<1>4. /\ y \in Seq(Octet) /\ Len(y) = l + (n + 1)
      /\ \A i \in 1 .. l + (n + 1) : y[i] = IF i <= l THEN v[i] ELSE b
  BY <1>1, <1>2
<1>5. /\ z \in Seq(Octet) /\ Len(z) = l + 1
      /\ \A i \in 1 .. l + 1 : z[i] = IF i <= l THEN v[i] ELSE b
  BY <1>1, <1>2
<1> HIDE DEF x, y, z
<1>6. y = Append(x, b)
  <2> DEFINE a == Append(x, b)
  <2>1. a \in Seq(Octet) /\ Len(a) = l + n + 1 /\ a[l + n + 1] = b
        /\ \A i \in 1 .. l + n : a[i] = x[i]
    BY <1>3, AppendProperties
  <2> HIDE DEF a, l
  <2>2. ASSUME NEW i \in 1 .. l + n + 1 PROVE y[i] = a[i]
    <3>1. i \in 1 .. l + (n + 1) /\ (i \in 1 .. l + n \/ (i = l + n + 1 /\ ~(i <= l)))
      BY <1>2
    <3>2. y[i] = IF i <= l THEN v[i] ELSE b
      BY <1>4, <3>1
    <3>3. CASE i \in 1 .. l + n
      BY <1>3, <2>1, <3>2, <3>3
    <3>4. CASE i = l + n + 1 /\ ~(i <= l)
      BY <2>1, <3>2, <3>4
    <3>5. QED
      BY <3>1, <3>3, <3>4
  <2>3. y = a
    BY <1>2, <1>4, <2>1, <2>2, SeqEqual
  <2>4. QED
    BY <2>3 DEF a
<1>7. z = Append(v, b)
  <2> DEFINE a == Append(v, b)
  <2>1. a \in Seq(Octet) /\ Len(a) = l + 1 /\ a[l + 1] = b /\ \A i \in 1 .. l : a[i] = v[i]
    BY AppendProperties
  <2> HIDE DEF a, l
  <2>2. \A i \in 1 .. l + 1 : z[i] = a[i]
    BY <1>2, <1>5, <2>1
  <2>3. z = a
    BY <1>2, <1>5, <2>1, <2>2, SeqEqual
  <2>4. QED
    BY <2>3 DEF a
<1>8. QED
  BY <1>6, <1>7 DEF x, y, z

LEMMA UnpackedIs ==
  ASSUME NEW got \in Unzipped, NEW b \in Octet
  PROVE  Unpacked(got, b) \in Unzipped
<1>1. b \in Nat /\ got.times \in Nat /\ got.value \in Seq(Octet) /\ got.ok \in BOOLEAN
  BY OctetIs DEF Unzipped
<1>2. CASE got.ok
  BY <1>2 DEF Unpacked
<1>3. CASE ~got.ok /\ got.times > 0
  <2> DEFINE r == [i \in 1 .. got.times |-> b]
             w == got.value \o r
  <2>1. r \in Seq(Octet)
    BY <1>1, RunIs DEF Run
  <2> HIDE DEF r
  <2>2. w \in Seq(Octet)
    BY <1>1, <2>1
  <2>3. Unpacked(got, b) = [got EXCEPT !.times = 0, !.value = w]
    BY <1>3 DEF Unpacked, r
  <2> HIDE DEF w
  <2>4. Unpacked(got, b) = [ok |-> FALSE, times |-> 0, value |-> w]
    BY <1>3, <2>3 DEF Unzipped
  <2>5. QED
    BY <2>2, <2>4 DEF Unzipped
<1>4. CASE ~got.ok /\ got.times = 0
  <2>1. Unpacked(got, b) = [got EXCEPT !.times = b, !.ok = b = 0]
    BY <1>4 DEF Unpacked
  <2>2. (b = 0) \in BOOLEAN
    OBVIOUS
  <2>3. QED
    BY <1>1, <2>1, <2>2 DEF Unzipped
<1>5. QED
  BY <1>1, <1>2, <1>3, <1>4

\* A run, from its number and its byte.
LEMMA UnpackedRun ==
  ASSUME NEW v \in Seq(Octet), NEW n \in 1 .. 2 * Group - 1, NEW b \in Octet
  PROVE  Unpacked(Unpacked(Halfway(v), n), b) = Halfway(v \o Run(n, b))
<1> DEFINE h == [ok |-> FALSE, times |-> n, value |-> v]
<1>1. n \in Nat /\ n > 0 /\ n # 0
  BY VarIntAssumption DEF VarIntAssumption
<1>2. Unpacked(Halfway(v), n) = h
  <2>1. Unpacked(Halfway(v), n) = [Halfway(v) EXCEPT !.times = n, !.ok = n = 0]
    BY DEF Unpacked, Halfway
  <2>2. (n = 0) = FALSE
    BY <1>1
  <2>3. QED
    BY <2>1, <2>2 DEF Halfway
<1>3. Unpacked(h, b) = Halfway(v \o Run(n, b))
  <2> DEFINE r == Run(n, b)
             w == v \o r
  <2>1. Unpacked(h, b) = [h EXCEPT !.times = 0, !.value = v \o r]
    BY <1>1 DEF Unpacked, Run
  <2> HIDE DEF r
  <2>2. Unpacked(h, b) = [h EXCEPT !.times = 0, !.value = w]
    BY <2>1
  <2> HIDE DEF w
  <2>3. Unpacked(h, b) = Halfway(w)
    BY <2>2 DEF Halfway
  <2>4. QED
    BY <2>3 DEF w, r
<1>4. QED
  BY <1>2, <1>3

LEMMA UnpackingIs ==
  /\ Folding(Unpacking, Unzipped, Octet)
  /\ \A got \in Unzipped, b \in Octet : Unpacking[<<got, b>>] = Unpacked(got, b)
<1> DEFINE op(got, b) == Unpacked(got, b)
<1>1. \A got \in Unzipped, b \in Octet : op(got, b) \in Unzipped
  BY UnpackedIs
<1>2. Unpacking = [p \in Unzipped \X Octet |-> op(p[1], p[2])]
  BY DEF Unpacking
<1> HIDE DEF op
<1>3. \A p \in Unzipped \X Octet : op(p[1], p[2]) \in Unzipped
  BY <1>1
<1>4. Unpacking \in [Unzipped \X Octet -> Unzipped]
  BY <1>2, <1>3
<1>5. \A got \in Unzipped, b \in Octet : Unpacking[<<got, b>>] = op(got, b)
  BY <1>2
<1>6. QED
  BY <1>4, <1>5 DEF op, Folding

Folded(z) == Fold(Unpacking, Halfway(<<>>), z)

LEMMA DecompressedFolds ==
  ASSUME NEW s \in Seq(Octet)
  PROVE  Decompressed(s) = Folded(s)
<1> DEFINE A == Unzipped
           B == Octet
           F == Unpacking
           base == Halfway(<<>>)
           op(z, b) == Unpacked(z, b)
           P(g) == g = [t \in SUBSET DOMAIN s |->
                          IF t = {} THEN base ELSE op(g[t \ {Max(t)}], s[Max(t)])]
           c == CHOOSE g : P(g)
<1>1. Decompressed(s) = c[DOMAIN s]
  BY DEF Decompressed, FoldLeft, MapThenFoldSet, Unpacked, Halfway
<1>2. F \in [A \X B -> A] /\ \A z \in A, b \in B : F[<<z, b>>] = op(z, b)
  BY UnpackingIs DEF Folding
<1>3. s \in Seq(B) /\ base \in A
  BY DEF Halfway, Unzipped
<1> HIDE DEF op, F, A, B, base
<1>4. PICK g \in [SUBSET DOMAIN s -> A] : Folds(g, F, base, s)
  BY <1>2, <1>3, FoldsExists
<1>5. P(g)
  <2>1. ASSUME NEW t \in SUBSET DOMAIN s, t # {}
        PROVE  F[<<g[t \ {Max(t)}], s[Max(t)]>>] = op(g[t \ {Max(t)}], s[Max(t)])
    <3>1. s[Max(t)] \in B /\ g[t \ {Max(t)}] \in A
      BY <1>3, <2>1, LastOf
    <3>2. QED
      BY <1>2, <3>1
  <2>2. QED
    BY <1>4, <2>1 DEF Folds
<1>6. P(c)
  BY <1>5
<1> HIDE DEF c
<1>7. c[{}] = base
  BY <1>6
<1>8. ASSUME NEW t \in SUBSET DOMAIN s, t # {}, c[t \ {Max(t)}] \in A
      PROVE  c[t] = F[<<c[t \ {Max(t)}], s[Max(t)]>>]
  <2>1. s[Max(t)] \in B
    BY <1>3, <1>8, LastOf
  <2>2. c[t] = op(c[t \ {Max(t)}], s[Max(t)])
    BY <1>6, <1>8
  <2>3. QED
    BY <1>2, <1>8, <2>1, <2>2
<1>9. GoesOn(c, A, F, s)
  BY <1>8, Zenon DEF GoesOn
<1> HIDE DEF P
<1>10. Folding(F, A, B)
  BY <1>2 DEF Folding
<1>11. c[DOMAIN s] = Fold(F, base, s)
  BY <1>3, <1>7, <1>9, <1>10, FoldChosen
<1>12. QED
  BY <1>1, <1>11 DEF F, base, Folded

LEMMA FoldedIs ==
  /\ \A z \in Seq(Octet) : Folded(z) \in Unzipped
  /\ Folded(<<>>) = Halfway(<<>>)
  /\ \A z \in Seq(Octet), b \in Octet : Folded(Append(z, b)) = Unpacked(Folded(z), b)
<1>1. Halfway(<<>>) \in Unzipped
  BY DEF Halfway, Unzipped
<1>2. /\ \A z \in Seq(Octet) : Folded(z) \in Unzipped
      /\ Folded(<<>>) = Halfway(<<>>)
      /\ \A z \in Seq(Octet), b \in Octet : Folded(Append(z, b)) = Unpacking[<<Folded(z), b>>]
  BY <1>1, UnpackingIs, FoldIs DEF Folded
<1>3. QED
  BY <1>2, UnpackingIs

\* The bytes z end with a run, before which they stand for v; together they stand for r.
Ends(z, r) == \E y, v \in Seq(Octet), n \in 1 .. 2 * Group - 1, b \in Octet :
  z = Append(Append(y, n), b) /\ Folded(y) = Halfway(v) /\ r = v \o Run(n, b)

LEMMA FoldedRun ==
  ASSUME NEW y \in Seq(Octet), NEW v \in Seq(Octet), Folded(y) = Halfway(v),
         NEW n \in 1 .. 2 * Group - 1, NEW b \in Octet
  PROVE  Folded(Append(Append(y, n), b)) = Halfway(v \o Run(n, b))
<1>1. n \in Octet
  BY VarIntAssumption DEF VarIntAssumption, Octet
<1>2. Append(y, n) \in Seq(Octet)
  BY <1>1, AppendProperties
<1>3. Folded(Append(y, n)) = Unpacked(Halfway(v), n)
  BY <1>1, FoldedIs
<1> DEFINE x == Append(y, n)
<1> HIDE DEF x
<1>4. Folded(Append(x, b)) = Unpacked(Folded(x), b)
  BY <1>2, FoldedIs DEF x
<1>5. Unpacked(Unpacked(Halfway(v), n), b) = Halfway(v \o Run(n, b))
  BY UnpackedRun, Zenon
<1>6. QED
  BY <1>3, <1>4, <1>5, Zenon DEF x

\* What Added makes of the last run.
LEMMA AddedTo ==
  ASSUME NEW y \in Seq(Octet), NEW n \in Octet, NEW b \in Octet, n < 2 * Group - 1
  PROVE  Added(Append(Append(y, n), b), b) = Append(Append(y, n + 1), b)
<1> DEFINE x == Append(y, n)
           z == Append(x, b)
           u == Append(y, n + 1)
           w == Append(u, b)
           l == Len(y)
<1>1. n + 1 \in Octet /\ l \in Nat
  BY VarIntAssumption DEF VarIntAssumption, Octet
<1>2. x \in Seq(Octet) /\ Len(x) = l + 1 /\ x[l + 1] = n /\ \A i \in 1 .. l : x[i] = y[i]
  BY AppendProperties
<1>3. u \in Seq(Octet) /\ Len(u) = l + 1 /\ u[l + 1] = n + 1 /\ \A i \in 1 .. l : u[i] = y[i]
  BY <1>1, AppendProperties
<1> HIDE DEF x, u, l
<1>4. z \in Seq(Octet) /\ Len(z) = l + 2 /\ z[l + 2] = b /\ \A i \in 1 .. l + 1 : z[i] = x[i]
  <2>1. z \in Seq(Octet) /\ Len(z) = Len(x) + 1 /\ z[Len(x) + 1] = b /\ \A i \in 1 .. Len(x) : z[i] = x[i]
    BY <1>2, AppendProperties
  <2>2. Len(x) + 1 = l + 2
    BY <1>1, <1>2
  <2>3. QED
    BY <1>2, <2>1, <2>2
<1>5. w \in Seq(Octet) /\ Len(w) = l + 2 /\ w[l + 2] = b /\ \A i \in 1 .. l + 1 : w[i] = u[i]
  <2>1. w \in Seq(Octet) /\ Len(w) = Len(u) + 1 /\ w[Len(u) + 1] = b /\ \A i \in 1 .. Len(u) : w[i] = u[i]
    BY <1>3, AppendProperties
  <2>2. Len(u) + 1 = l + 2
    BY <1>1, <1>3
  <2>3. QED
    BY <1>3, <2>1, <2>2
<1> HIDE DEF z, w
<1>6. z # <<>> /\ Len(z) - 1 = l + 1 /\ z[l + 1] = n
  BY <1>1, <1>2, <1>4
<1> DEFINE e == [z EXCEPT ![l + 1] = @ + 1]
<1>7. Added(z, b) = e
  BY <1>4, <1>6 DEF Added
<1>8. e = w
  <2>1. DOMAIN z = 1 .. l + 2 /\ DOMAIN w = 1 .. l + 2
    BY <1>4, <1>5
  <2>2. e = [i \in 1 .. l + 2 |-> IF i = l + 1 THEN n + 1 ELSE z[i]]
    BY <1>6, <2>1
  <2>3. w = [i \in 1 .. l + 2 |-> w[i]]
    BY <1>5, LenProperties
  <2>4. ASSUME NEW i \in 1 .. l + 2
        PROVE  w[i] = IF i = l + 1 THEN n + 1 ELSE z[i]
    <3>1. CASE i = l + 1
      BY <1>1, <1>3, <1>5, <3>1
    <3>2. CASE i = l + 2
      BY <1>1, <1>4, <1>5, <3>2
    <3>3. CASE i \in 1 .. l
      BY <1>1, <1>2, <1>3, <1>4, <1>5, <3>3
    <3>4. QED
      BY <1>1, <3>1, <3>2, <3>3
  <2> HIDE DEF e
  <2>5. QED
    BY <2>2, <2>3, <2>4
<1>9. QED
  BY <1>7, <1>8 DEF z, w, x, u

LEMMA AddedNew ==
  ASSUME NEW z \in Seq(Octet), NEW b \in Octet,
         ~(z # <<>> /\ z[Len(z)] = b /\ z[Len(z) - 1] < 2 * Group - 1)
  PROVE  Added(z, b) = Append(Append(z, 1), b)
<1>1. 1 \in Octet
  BY VarIntAssumption DEF VarIntAssumption, Octet
<1>2. Added(z, b) = z \o <<1, b>>
  BY Zenon DEF Added
<1> DEFINE l == Len(z)
           p == <<1, b>>
           s == z \o p
           x == Append(z, 1)
           t == Append(x, b)
<1>3. p \in Seq(Octet) /\ Len(p) = 2 /\ p[1] = 1 /\ p[2] = b /\ l \in Nat
  BY <1>1
<1> HIDE DEF p
<1>4. /\ s \in Seq(Octet) /\ Len(s) = l + 2
      /\ \A i \in 1 .. l + 2 : s[i] = IF i <= l THEN z[i] ELSE p[i - l]
  <2>1. /\ s \in Seq(Octet) /\ Len(s) = Len(z) + Len(p)
        /\ \A i \in 1 .. Len(z) + Len(p) : s[i] = IF i <= Len(z) THEN z[i] ELSE p[i - Len(z)]
    BY <1>3, ConcatProperties, Zenon
  <2>2. QED
    BY <1>3, <2>1, Zenon
<1>5. x \in Seq(Octet) /\ Len(x) = l + 1 /\ x[l + 1] = 1 /\ \A i \in 1 .. l : x[i] = z[i]
  BY <1>1, AppendProperties
<1> HIDE DEF x
<1>6. t \in Seq(Octet) /\ Len(t) = l + 2 /\ t[l + 2] = b /\ \A i \in 1 .. l + 1 : t[i] = x[i]
  <2>1. t \in Seq(Octet) /\ Len(t) = Len(x) + 1 /\ t[Len(x) + 1] = b /\ \A i \in 1 .. Len(x) : t[i] = x[i]
    BY <1>5, AppendProperties
  <2>2. Len(x) + 1 = l + 2
    BY <1>3, <1>5
  <2>3. QED
    BY <1>5, <2>1, <2>2
<1> HIDE DEF s, t, l
<1>7. ASSUME NEW i \in 1 .. l + 2 PROVE s[i] = t[i]
  <2>1. CASE i = l + 1
    <3>1. i - l = 1 /\ ~(i <= l) /\ i \in 1 .. l + 1
      BY <1>3, <2>1
    <3>2. QED
      BY <1>3, <1>4, <1>5, <1>6, <2>1, <3>1
  <2>2. CASE i = l + 2
    <3>1. i - l = 2 /\ ~(i <= l)
      BY <1>3, <2>2
    <3>2. QED
      BY <1>3, <1>4, <1>6, <2>2, <3>1
  <2>3. CASE i \in 1 .. l
    BY <1>3, <1>4, <1>5, <1>6, <2>3
  <2>4. QED
    BY <1>3, <2>1, <2>2, <2>3
<1>8. s = t
  BY <1>4, <1>6, <1>7, SeqEqual
<1>9. QED
  BY <1>2, <1>8, Zenon DEF s, t, x, p

\* decompress undoes compress.
LEMMA BeforeMark ==
  ASSUME NEW s \in Seq(Octet)
  PROVE  /\ Fold(Compressing, <<>>, s) \in Seq(Octet)
         /\ Folded(Fold(Compressing, <<>>, s)) = Halfway(s)
<1> DEFINE C(r) == Fold(Compressing, <<>>, r)
           T == {r \in Seq(Octet) : /\ Folded(C(r)) = Halfway(r)
                                    /\ C(r) # <<>> => Ends(C(r), r)}
<1>1. /\ C(<<>>) = <<>>
      /\ \A r \in Seq(Octet) : C(r) \in Seq(Octet)
      /\ \A r \in Seq(Octet), b \in Octet : C(Append(r, b)) = Added(C(r), b)
  <2>1. Folding(Compressing, Seq(Octet), Octet) /\ <<>> \in Seq(Octet)
    BY CompressingIs DEF Folding
  <2> DEFINE A == Seq(Octet)
  <2>2. Folding(Compressing, A, Octet) /\ <<>> \in A
    BY <2>1
  <2> HIDE DEF A
  <2>3. /\ C(<<>>) = <<>> /\ \A r \in Seq(Octet) : C(r) \in A
        /\ \A r \in Seq(Octet), b \in Octet : C(Append(r, b)) = Compressing[<<C(r), b>>]
    BY <2>2, FoldIs
  <2> HIDE DEF C
  <2>4. QED
    BY <2>3, CompressingIs DEF A
<1> HIDE DEF C
<1>2. <<>> \in T
  BY <1>1, FoldedIs
<1>3. ASSUME NEW r \in T, NEW e \in Octet
      PROVE  Append(r, e) \in T
  <2> DEFINE z == C(r)
             q == Append(r, e)
  <2>1. r \in Seq(Octet) /\ z \in Seq(Octet) /\ Folded(z) = Halfway(r) /\ q \in Seq(Octet)
    BY <1>1, AppendProperties
  <2>2. z # <<>> => Ends(z, r)
    OBVIOUS
  <2>3. C(q) = Added(z, e)
    BY <1>1, <2>1
  <2> HIDE DEF z
  <2>4. CASE z # <<>> /\ z[Len(z)] = e /\ z[Len(z) - 1] < 2 * Group - 1
    <3>1. PICK y \in Seq(Octet), v \in Seq(Octet), n \in 1 .. 2 * Group - 1, b \in Octet :
            z = Append(Append(y, n), b) /\ Folded(y) = Halfway(v) /\ r = v \o Run(n, b)
      BY <2>2, <2>4 DEF Ends
    <3>2. z[Len(z)] = b /\ z[Len(z) - 1] = n /\ n \in Octet
      <4> DEFINE x == Append(y, n)
                 l == Len(y)
      <4>1. n \in Octet
        BY VarIntAssumption DEF VarIntAssumption, Octet
      <4>2. x \in Seq(Octet) /\ Len(x) = l + 1 /\ x[l + 1] = n /\ l \in Nat
        BY <4>1, AppendProperties
      <4> HIDE DEF x, l
      <4>3. /\ Append(x, b) \in Seq(Octet) /\ Len(Append(x, b)) = Len(x) + 1
            /\ Append(x, b)[Len(x) + 1] = b /\ \A i \in 1 .. Len(x) : Append(x, b)[i] = x[i]
        BY <4>2, AppendProperties
      <4>4. z = Append(x, b)
        BY <3>1 DEF x
      <4>5. Len(z) = Len(x) + 1 /\ z[Len(x) + 1] = b /\ \A i \in 1 .. Len(x) : z[i] = x[i]
        BY <4>3, <4>4, Zenon
      <4>6. Len(z) = l + 2 /\ Len(z) - 1 = l + 1 /\ l + 1 \in 1 .. Len(x)
        BY <4>2, <4>5
      <4>7. QED
        BY <4>1, <4>2, <4>5, <4>6
    <3>3. e = b /\ n < 2 * Group - 1 /\ n + 1 \in 1 .. 2 * Group - 1 /\ n \in Nat
      BY <2>4, <3>2, VarIntAssumption DEF VarIntAssumption
    <3>4. C(q) = Append(Append(y, n + 1), b)
      BY <2>3, <3>1, <3>2, <3>3, AddedTo, Zenon
    <3>5. q = v \o Run(n + 1, b)
      BY <3>1, <3>3, RunNext, Zenon
    <3>6. Folded(C(q)) = Halfway(q)
      <4>1. Folded(Append(Append(y, n + 1), b)) = Halfway(v \o Run(n + 1, b))
        BY <3>1, <3>3, FoldedRun
      <4>2. QED
        BY <3>4, <3>5, <4>1, Zenon
    <3>7. Ends(C(q), q)
      BY <3>1, <3>3, <3>4, <3>5, Zenon DEF Ends
    <3>8. QED
      BY <2>1, <3>6, <3>7
  <2>5. CASE ~(z # <<>> /\ z[Len(z)] = e /\ z[Len(z) - 1] < 2 * Group - 1)
    <3>1. 1 \in 1 .. 2 * Group - 1
      BY VarIntAssumption DEF VarIntAssumption
    <3>2. C(q) = Append(Append(z, 1), e)
      BY <2>1, <2>3, <2>5, AddedNew, Zenon
    <3>3. q = r \o Run(1, e)
      <4>1. 1 \in Nat
        OBVIOUS
      <4>2. QED
        BY <2>1, <4>1, RunNext, Zenon
    <3>4. Folded(C(q)) = Halfway(q)
      <4>1. Folded(Append(Append(z, 1), e)) = Halfway(r \o Run(1, e))
        BY <2>1, <3>1, FoldedRun
      <4>2. QED
        BY <3>2, <3>3, <4>1, Zenon
    <3>5. Ends(C(q), q)
      BY <2>1, <3>1, <3>2, <3>3, Zenon DEF Ends
    <3>6. QED
      BY <2>1, <3>4, <3>5
  <2>6. QED
    BY <2>4, <2>5
<1>4. T = Seq(Octet)
  <2>1. T \in SUBSET Seq(Octet)
    OBVIOUS
  <2> HIDE DEF T
  <2>2. QED
    BY <1>2, <1>3, <2>1, InductSeq
<1>5. Folded(C(s)) = Halfway(s) /\ C(s) \in Seq(Octet)
  BY <1>1, <1>4
<1>6. QED
  BY <1>5 DEF C

LEMMA ZipRoundTrip ==
  ASSUME NEW s \in Seq(Octet)
  PROVE  Decompressed(Compressed(s)) = [ok |-> TRUE, times |-> 0, value |-> s]
<1> DEFINE C(r) == Fold(Compressing, <<>>, r)
<1>5. Folded(C(s)) = Halfway(s) /\ C(s) \in Seq(Octet)
  BY BeforeMark
<1> HIDE DEF C
<1>6. 0 \in Octet
  BY VarIntAssumption DEF VarIntAssumption, Octet
<1>7. Compressed(s) = Append(C(s), 0) /\ Compressed(s) \in Seq(Octet)
  BY CompressedFolds, CompressedIs DEF C
<1>8. Decompressed(Compressed(s)) = Unpacked(Halfway(s), 0)
  <2>1. Folded(Append(C(s), 0)) = Unpacked(Folded(C(s)), 0)
    BY <1>5, <1>6, FoldedIs
  <2>2. Decompressed(Compressed(s)) = Folded(Compressed(s))
    BY <1>7, DecompressedFolds
  <2>3. QED
    BY <1>5, <1>7, <2>1, <2>2, Zenon
<1>9. Unpacked(Halfway(s), 0) = [ok |-> TRUE, times |-> 0, value |-> s]
  <2>1. Unpacked(Halfway(s), 0) = [Halfway(s) EXCEPT !.times = 0, !.ok = 0 = 0]
    BY DEF Unpacked, Halfway
  <2>2. (0 = 0) = TRUE
    OBVIOUS
  <2>3. QED
    BY <2>1, <2>2 DEF Halfway
<1>10. QED
  BY <1>8, <1>9

-----------------------------------------------------------------------------
(* What is read of a packet *)

\* Sequences taken apart anywhere.
LEMMA PartsAnywhere ==
  ASSUME NEW S, NEW s \in Seq(S), NEW n \in Nat
  PROVE  /\ Took(n, s) \in Seq(S) /\ Left(n, s) \in Seq(S)
         /\ n <= Len(s) => Len(Took(n, s)) = n
<1>1. Len(s) \in Nat
  OBVIOUS
<1>2. CASE n <= Len(s)
  <2>1. n \in 0 .. Len(s)
    BY <1>1, <1>2
  <2>2. QED
    BY <2>1, Splits
<1>3. CASE ~(n <= Len(s))
  <2>1. Took(n, s) = SubSeq(s, 1, Len(s)) /\ Left(n, s) = SubSeq(s, n + 1, Len(s))
    BY <1>1, <1>3 DEF Took, Left
  <2>2. SubSeq(s, 1, Len(s)) = s
    BY SubSeqFull
  <2>3. SubSeq(s, n + 1, Len(s)) = <<>>
    <3>1. n + 1 \in Int /\ Len(s) \in Int /\ Len(s) < n + 1
      BY <1>1, <1>3
    <3>2. QED
      BY <3>1, SubSeqEmpty
  <2>4. <<>> \in Seq(S)
    OBVIOUS
  <2>5. QED
    BY <1>3, <2>1, <2>2, <2>3, <2>4, Zenon
<1>4. QED
  BY <1>2, <1>3

LEMMA Horner ==
  ASSUME NEW w \in Nat, NEW a \in 0 .. Group - 1, NEW b \in 0 .. w - 1
  PROVE  a + Group * b \in 0 .. Group * w - 1
<1>1. Group \in Nat /\ Group >= 1
  BY VarIntAssumption DEF VarIntAssumption
<1> DEFINE x == w - 1 - b
           y == Group * b
           z == Group * x
<1>2. x \in Nat /\ b \in Nat
  OBVIOUS
<1>3. y \in Nat /\ z \in Nat
  BY <1>1, <1>2
<1>4. Group * w = z + y + Group
  <2>1. w = x + b + 1
    OBVIOUS
  <2> HIDE DEF x
  <2>2. Group * (x + b + 1) = Group * x + Group * b + Group
    BY <1>1, <1>2
  <2>3. QED
    BY <2>1, <2>2
<1>5. a \in Nat /\ a <= Group - 1
  BY <1>1
<1> HIDE DEF y, z
<1>6. a + y \in 0 .. Group * w - 1
  BY <1>1, <1>3, <1>4, <1>5
<1>7. QED
  BY <1>6 DEF y

\* A number that is read is one that can be sent.
LEMMA ReceivedIs ==
  ASSUME NEW s \in Seq(Octet), Whole(s)
  PROVE  Received(s) \in VarInts /\ Used(s) \in 1 .. 5 /\ Used(s) <= Len(s)
<1>1. Used(s) \in 1 .. 5 /\ Used(s) <= Len(s)
  BY WholeAgree
<1> DEFINE g(i) == IF i <= Used(s) THEN s[i] % Group ELSE 0
<1>2. Group \in Nat /\ Group >= 1
  BY VarIntAssumption DEF VarIntAssumption
<1>3. ASSUME NEW i \in 1 .. 5
      PROVE  g(i) \in 0 .. Group - 1
  <2>1. CASE i <= Used(s)
    <3>1. i \in 1 .. Len(s)
      BY <1>1, <2>1
    <3>2. s[i] \in Octet
      BY <3>1
    <3>3. s[i] \in Nat
      BY <3>2, OctetIs, Zenon
    <3>4. QED
      BY <2>1, <3>3, Division
  <2>2. CASE ~(i <= Used(s))
    BY <1>2, <2>2
  <2>3. QED
    BY <2>1, <2>2
<1>4. Received(s) = g(1) + Group * (g(2) + Group * (g(3) + Group * (g(4) + Group * g(5))))
  BY Zenon DEF Received
<1>5. /\ g(1) \in 0 .. Group - 1 /\ g(2) \in 0 .. Group - 1 /\ g(3) \in 0 .. Group - 1
      /\ g(4) \in 0 .. Group - 1 /\ g(5) \in 0 .. Group - 1
  BY <1>3
<1> HIDE DEF g
<1> DEFINE w2 == Group * Group
           w3 == Group * w2
           w4 == Group * w3
           b4 == g(4) + Group * g(5)
           b3 == g(3) + Group * b4
           b2 == g(2) + Group * b3
<1>6. w2 \in Nat /\ w3 \in Nat /\ w4 \in Nat
  BY <1>2
<1>7. b4 \in 0 .. w2 - 1
  BY <1>2, <1>5, Horner
<1> HIDE DEF b4
<1>8. b3 \in 0 .. w3 - 1
  BY <1>5, <1>6, <1>7, Horner
<1> HIDE DEF b3
<1>9. b2 \in 0 .. w4 - 1
  BY <1>5, <1>6, <1>8, Horner
<1> HIDE DEF b2
<1>10. g(1) + Group * b2 \in 0 .. Group * w4 - 1
  BY <1>5, <1>6, <1>9, Horner
<1>11. Received(s) = g(1) + Group * b2
  BY <1>4, Zenon DEF b2, b3, b4
<1>12. VarInts = 0 .. Group * w4 - 1
  BY Zenon DEF VarInts, w2, w3, w4
<1>13. QED
  BY <1>1, <1>10, <1>11, <1>12, Zenon

Numbers == {<<v>> : v \in VarInts}

\* What reading a field gives: the value is in V, unless the reading has raised.
Reading(got, V) ==
  /\ got.ok \in BOOLEAN /\ got.rest \in Seq(Octet)
  /\ IF got.ok THEN got.value \in V ELSE got.value = <<>>

LEMMA ReadVarIntIs ==
  ASSUME NEW s \in Seq(Octet)
  PROVE  Reading(ReadVarInt(s), Numbers)
<1>1. <<>> \in Seq(Octet)
  OBVIOUS
<1>2. CASE Whole(s)
  <2> DEFINE u == Used(s)
             v == <<Received(s)>>
             r == Left(u, s)
  <2>1. v \in Numbers /\ u \in Nat
    BY <1>2, ReceivedIs DEF Numbers
  <2>2. r \in Seq(Octet)
    BY <2>1, PartsAnywhere
  <2>3. ReadVarInt(s) = Got(v, r)
    BY <1>2 DEF ReadVarInt
  <2> HIDE DEF u, v, r
  <2>4. QED
    BY <2>1, <2>2, <2>3 DEF Reading, Got
<1>3. CASE ~Whole(s)
  BY <1>1, <1>3 DEF ReadVarInt, Raised, Reading
<1>4. QED
  BY <1>2, <1>3

Words(n) == {v \in Seq(Octet) : Len(v) = n}

LEMMA ReadFixedIs ==
  ASSUME NEW n \in Nat, NEW s \in Seq(Octet)
  PROVE  Reading(ReadFixed(n, s), Words(n))
<1>1. <<>> \in Seq(Octet) /\ Len(s) \in Nat
  OBVIOUS
<1>2. CASE Len(s) < n
  BY <1>1, <1>2 DEF ReadFixed, Raised, Reading
<1>3. CASE ~(Len(s) < n)
  <2> DEFINE v == Took(n, s)
             r == Left(n, s)
  <2>1. n <= Len(s)
    BY <1>1, <1>3
  <2>2. v \in Seq(Octet) /\ Len(v) = n /\ r \in Seq(Octet)
    BY <2>1, PartsAnywhere
  <2>3. ReadFixed(n, s) = Got(v, r)
    BY <1>3 DEF ReadFixed
  <2> HIDE DEF v, r
  <2>4. QED
    BY <2>2, <2>3 DEF Reading, Got, Words
<1>4. QED
  BY <1>2, <1>3

\* The fields of the packets a reactor answers, and their values.
Simple == DOMAIN Width \cup {"VarInt"}
ValuesOf(type) == IF type = "VarInt" THEN Numbers ELSE Words(Width[type])

LEMMA WidthIs == "VarInt" \notin DOMAIN Width /\ \A type \in DOMAIN Width : Width[type] \in 1 .. 8
BY DEF Width

LEMMA ReadSimple ==
  ASSUME NEW type \in Simple, NEW s \in Seq(Octet)
  PROVE  Reading(Read(type, s), ValuesOf(type))
<1>1. CASE type = "VarInt"
  <2>1. Read("VarInt", s) = ReadVarInt(s)
    BY WidthIs, Zenon DEF Read
  <2>2. QED
    BY <1>1, <2>1, ReadVarIntIs DEF ValuesOf
<1>2. CASE type \in DOMAIN Width
  <2>1. type # "VarInt" /\ Width[type] \in Nat
    BY <1>2, WidthIs
  <2>2. Read(type, s) = ReadFixed(Width[type], s)
    <3>1. type \notin {"VarInt", "String", "VarIntPrefixedByteArray", "NBT", "Slot", "SlotArray",
                       "TripleByteArray", "RecordArray"}
      BY <1>2 DEF Width
    <3>2. QED
      BY <1>2, <3>1, Zenon DEF Read
  <2>3. QED
    BY <2>1, <2>2, ReadFixedIs DEF ValuesOf
<1>3. QED
  BY <1>1, <1>2 DEF Simple

\* Packet.read, field by field.
Attributes == [ok : BOOLEAN, value : Numbers \cup Seq(Octet)]
Fields == [set : Seq(Attributes), rest : Seq(Octet)]

FieldRead(got, type) ==
  LET one == Read(type, got.rest) IN
  [set |-> Append(got.set, [ok |-> one.ok, value |-> one.value]), rest |-> one.rest]
FieldReading == [p \in Fields \X Simple |-> FieldRead(p[1], p[2])]

LEMMA FieldReadIs ==
  ASSUME NEW got \in Fields, NEW type \in Simple
  PROVE  /\ FieldRead(got, type) \in Fields
         /\ \E a \in Attributes : /\ FieldRead(got, type).set = Append(got.set, a)
                                  /\ a.ok => a.value \in ValuesOf(type)
<1> DEFINE one == Read(type, got.rest)
           a == [ok |-> one.ok, value |-> one.value]
<1>1. got.set \in Seq(Attributes) /\ got.rest \in Seq(Octet)
  BY DEF Fields
<1>2. Reading(one, ValuesOf(type))
  BY <1>1, ReadSimple
<1>3. FieldRead(got, type) = [set |-> Append(got.set, a), rest |-> one.rest]
  BY DEF FieldRead
<1> HIDE DEF one
<1>4. one.ok \in BOOLEAN /\ one.rest \in Seq(Octet) /\ (one.ok => one.value \in ValuesOf(type))
  BY <1>2 DEF Reading
<1>5. one.value \in Numbers \cup Seq(Octet)
  <2>1. ValuesOf(type) \subseteq Numbers \cup Seq(Octet)
    BY DEF ValuesOf, Words
  <2>2. <<>> \in Seq(Octet)
    OBVIOUS
  <2>3. QED
    BY <1>2, <2>1, <2>2, Zenon DEF Reading
<1>6. a \in Attributes /\ (a.ok => a.value \in ValuesOf(type))
  BY <1>4, <1>5 DEF Attributes
<1> HIDE DEF a
<1> DEFINE b == Append(got.set, a)
<1>7. b \in Seq(Attributes)
  BY <1>1, <1>6, AppendProperties
<1>8. FieldRead(got, type) = [set |-> b, rest |-> one.rest]
  BY <1>3
<1>9. FieldRead(got, type).set = b
  BY <1>8
<1> HIDE DEF b
<1>10. FieldRead(got, type) \in Fields
  BY <1>4, <1>7, <1>8 DEF Fields
<1>11. QED
  BY <1>6, <1>9, <1>10 DEF b

LEMMA FieldReadingIs ==
  /\ Folding(FieldReading, Fields, Simple)
  /\ \A got \in Fields, type \in Simple : FieldReading[<<got, type>>] = FieldRead(got, type)
<1> DEFINE op(got, type) == FieldRead(got, type)
<1>1. \A got \in Fields, type \in Simple : op(got, type) \in Fields
  BY FieldReadIs
<1>2. FieldReading = [p \in Fields \X Simple |-> op(p[1], p[2])]
  BY DEF FieldReading
<1> HIDE DEF op
<1>3. \A p \in Fields \X Simple : op(p[1], p[2]) \in Fields
  BY <1>1
<1>4. FieldReading \in [Fields \X Simple -> Fields]
  BY <1>2, <1>3
<1>5. \A got \in Fields, type \in Simple : FieldReading[<<got, type>>] = op(got, type)
  BY <1>2
<1>6. QED
  BY <1>4, <1>5 DEF op, Folding

Unread(s) == [set |-> <<>>, rest |-> s]

LEMMA ReadFieldsFolds ==
  ASSUME NEW f \in Seq(Simple), NEW s \in Seq(Octet)
  PROVE  ReadFields(f, s) = Fold(FieldReading, Unread(s), f) /\ Unread(s) \in Fields
<1> DEFINE A == Fields
           B == Simple
           F == FieldReading
           base == Unread(s)
           op(z, b) == FieldRead(z, b)
           P(g) == g = [t \in SUBSET DOMAIN f |->
                          IF t = {} THEN base ELSE op(g[t \ {Max(t)}], f[Max(t)])]
           c == CHOOSE g : P(g)
<1>1. ReadFields(f, s) = c[DOMAIN f]
  BY DEF ReadFields, FoldLeft, MapThenFoldSet, FieldRead, Unread
<1>2. F \in [A \X B -> A] /\ \A z \in A, b \in B : F[<<z, b>>] = op(z, b)
  BY FieldReadingIs DEF Folding
<1>3. f \in Seq(B) /\ base \in A
  <2>1. <<>> \in Seq(Attributes)
    OBVIOUS
  <2>2. QED
    BY <2>1 DEF Unread, Fields
<1> HIDE DEF op, F, A, B, base
<1>4. PICK g \in [SUBSET DOMAIN f -> A] : Folds(g, F, base, f)
  BY <1>2, <1>3, FoldsExists
<1>5. P(g)
  <2>1. ASSUME NEW t \in SUBSET DOMAIN f, t # {}
        PROVE  F[<<g[t \ {Max(t)}], f[Max(t)]>>] = op(g[t \ {Max(t)}], f[Max(t)])
    <3>1. f[Max(t)] \in B /\ g[t \ {Max(t)}] \in A
      BY <1>3, <2>1, LastOf
    <3>2. QED
      BY <1>2, <3>1
  <2>2. QED
    BY <1>4, <2>1 DEF Folds
<1>6. P(c)
  BY <1>5
<1> HIDE DEF c
<1>7. c[{}] = base
  BY <1>6
<1>8. ASSUME NEW t \in SUBSET DOMAIN f, t # {}, c[t \ {Max(t)}] \in A
      PROVE  c[t] = F[<<c[t \ {Max(t)}], f[Max(t)]>>]
  <2>1. f[Max(t)] \in B
    BY <1>3, <1>8, LastOf
  <2>2. c[t] = op(c[t \ {Max(t)}], f[Max(t)])
    BY <1>6, <1>8
  <2>3. QED
    BY <1>2, <1>8, <2>1, <2>2
<1>9. GoesOn(c, A, F, f)
  BY <1>8, Zenon DEF GoesOn
<1> HIDE DEF P
<1>10. Folding(F, A, B)
  BY <1>2 DEF Folding
<1>11. c[DOMAIN f] = Fold(F, base, f)
  BY <1>3, <1>7, <1>9, <1>10, FoldChosen
<1>12. QED
  BY <1>1, <1>3, <1>11 DEF F, base, A

\* What is in the attributes of a packet, as far as they are set.
Filled(set, f) ==
  /\ DOMAIN set = 1 .. Len(f)
  /\ \A i \in 1 .. Len(f) : set[i].ok => set[i].value \in ValuesOf(f[i])

LEMMA FieldsRead ==
  ASSUME NEW f \in Seq(Simple), NEW s \in Seq(Octet)
  PROVE  Filled(ReadFields(f, s).set, f)
<1> DEFINE R(q) == Fold(FieldReading, Unread(s), q)
           T == {q \in Seq(Simple) : Filled(R(q).set, q)}
<1>1. /\ \A q \in Seq(Simple) : R(q) \in Fields
      /\ R(<<>>) = Unread(s)
      /\ \A q \in Seq(Simple), type \in Simple :
           R(Append(q, type)) = FieldRead(R(q), type)
  <2> DEFINE A == Fields
             B == Simple
             base == Unread(s)
  <2>1. Folding(FieldReading, A, B) /\ base \in A
    BY FieldReadingIs, ReadFieldsFolds
  <2> HIDE DEF A, B, base
  <2>2. /\ \A q \in Seq(B) : Fold(FieldReading, base, q) \in A
        /\ Fold(FieldReading, base, <<>>) = base
        /\ \A q \in Seq(B), type \in B :
             Fold(FieldReading, base, Append(q, type))
               = FieldReading[<<Fold(FieldReading, base, q), type>>]
    BY <2>1, FoldIs
  <2>3. QED
    BY <2>2, FieldReadingIs DEF A, B, base
<1> HIDE DEF R
<1>2. <<>> \in T
  <2>1. R(<<>>).set = <<>> /\ <<>> \in Seq(Simple) /\ Len(<<>>) = 0 /\ DOMAIN <<>> = 1 .. 0
    BY <1>1 DEF Unread
  <2>2. QED
    BY <2>1 DEF Filled
<1>3. ASSUME NEW q \in T, NEW type \in Simple
      PROVE  Append(q, type) \in T
  <2> DEFINE r == Append(q, type)
             x == R(q).set
             y == R(r).set
             n == Len(q)
  <2>1. /\ q \in Seq(Simple) /\ R(q) \in Fields /\ R(r) = FieldRead(R(q), type)
        /\ Filled(x, q)
    BY <1>1
  <2>2. PICK a \in Attributes : y = Append(x, a) /\ (a.ok => a.value \in ValuesOf(type))
    BY <2>1, FieldReadIs
  <2>3. x \in Seq(Attributes) /\ n \in Nat
    BY <2>1 DEF Fields
  <2>4. /\ r \in Seq(Simple) /\ Len(r) = n + 1 /\ r[n + 1] = type
        /\ \A i \in 1 .. n : r[i] = q[i]
    BY <2>1, AppendProperties
  <2> HIDE DEF x, r, n
  <2>5. DOMAIN x = 1 .. n /\ \A i \in 1 .. n : x[i].ok => x[i].value \in ValuesOf(q[i])
    BY <2>1 DEF Filled, n
  <2>6. Len(x) = n
    BY <2>3, <2>5
  <2>7. y \in Seq(Attributes) /\ Len(y) = n + 1 /\ y[n + 1] = a /\ \A i \in 1 .. n : y[i] = x[i]
    BY <2>2, <2>3, <2>6, AppendProperties
  <2> HIDE DEF y
  <2>8. \A i \in 1 .. n + 1 : y[i].ok => y[i].value \in ValuesOf(r[i])
    <3> TAKE i \in 1 .. n + 1
    <3>1. CASE i = n + 1
      BY <2>2, <2>4, <2>7, <3>1, Zenon
    <3>2. CASE i \in 1 .. n
      BY <2>4, <2>5, <2>7, <3>2, Zenon
    <3>3. QED
      BY <2>3, <3>1, <3>2
  <2>9. DOMAIN y = 1 .. n + 1
    BY <2>3, <2>7
  <2>10. Filled(y, r)
    BY <2>4, <2>8, <2>9 DEF Filled
  <2>11. QED
    BY <2>4, <2>10 DEF y, r
<1>4. T = Seq(Simple)
  <2>1. T \in SUBSET Seq(Simple)
    OBVIOUS
  <2> HIDE DEF T
  <2>2. QED
    BY <1>2, <1>3, <2>1, InductSeq
<1>5. Filled(R(f).set, f)
  BY <1>4
<1>6. QED
  BY <1>5, ReadFieldsFolds DEF R

\* The table of the play state, put together from its parts.
Listed(s, n) == s = [i \in 1 .. n |-> s[i]]

LEMMA ListedSeq ==
  ASSUME NEW s, NEW n \in Nat, Listed(s, n), NEW S, \A i \in 1 .. n : s[i] \in S
  PROVE  s \in Seq(S) /\ Len(s) = n
BY DEF Listed

\* r is s and t, of n and m elements, joined.
Continues(r, s, t, n, m) ==
  /\ Listed(r, n + m)
  /\ \A i \in 1 .. n : r[i] = s[i]
  /\ \A i \in 1 .. m : r[n + i] = t[i]

LEMMA ListedJoined ==
  ASSUME NEW n \in Nat, NEW m \in Nat, NEW s, NEW t, Listed(s, n), Listed(t, m)
  PROVE  Continues(s \o t, s, t, n, m)
<1> DEFINE S == {s[i] : i \in 1 .. n} \cup {t[i] : i \in 1 .. m}
           r == s \o t
<1>1. (\A i \in 1 .. n : s[i] \in S) /\ (\A i \in 1 .. m : t[i] \in S)
  OBVIOUS
<1> HIDE DEF S
<1>2. s \in Seq(S) /\ Len(s) = n /\ t \in Seq(S) /\ Len(t) = m
  BY <1>1, ListedSeq
<1>3. /\ r \in Seq(S) /\ Len(r) = Len(s) + Len(t)
      /\ \A i \in 1 .. Len(s) + Len(t) : r[i] = IF i <= Len(s) THEN s[i] ELSE t[i - Len(s)]
  BY <1>2, ConcatProperties, Zenon
<1> HIDE DEF r
<1>4. /\ Len(r) = n + m /\ n + m \in Nat
      /\ \A i \in 1 .. n + m : r[i] = IF i <= n THEN s[i] ELSE t[i - n]
  BY <1>2, <1>3
<1>5. Listed(r, n + m)
  BY <1>3, <1>4, LenProperties DEF Listed
<1>6. \A i \in 1 .. n : r[i] = s[i]
  BY <1>4
<1>7. \A i \in 1 .. m : r[n + i] = t[i]
  <2> TAKE i \in 1 .. m
  <2>1. n + i \in 1 .. n + m /\ ~(n + i <= n) /\ (n + i) - n = i
    OBVIOUS
  <2>2. QED
    BY <1>4, <2>1
<1>8. QED
  BY <1>5, <1>6, <1>7 DEF r, Continues

LEMMA EntriesAre ==
  /\ PlayingClientbound[KeepAlive + 1] = <<"VarInt">>
  /\ PlayingClientbound[PositionAndLook + 1]
       = <<"Double", "Double", "Double", "Float", "Float", "Byte", "VarInt">>
  /\ PlayingClientbound[ChatMessage + 1] = <<"String", "Byte">>
  /\ PlayingClientbound[DisconnectPlay + 1] = <<"String">>
  /\ LoginClientbound[SetCompression + 1] = <<"VarInt">>
  /\ LoginClientbound[Disconnect + 1] = <<"String">>
<1>1. Listed(Spawning, 6)
  BY DEF Listed, Spawning
<1>2. Listed(Blocks, 7)
  BY DEF Listed, Blocks
<1>3. Listed(Windows, 12)
  BY DEF Listed, Windows
<1>4. Listed(Effects, 10)
  BY DEF Listed, Effects
<1>5. Listed(Moves, 12)
  BY DEF Listed, Moves
<1>6. Listed(Entities, 13)
  BY DEF Listed, Entities
<1>7. Listed(Scores, 11)
  BY DEF Listed, Scores
<1>8. Listed(Others, 6)
  BY DEF Listed, Others
<1>9. /\ Effects[7] = <<"VarInt">>
      /\ Moves[12] = <<"Double", "Double", "Double", "Float", "Float", "Byte", "VarInt">>
      /\ Windows[3] = <<"String", "Byte">> /\ Effects[2] = <<"String">>
  BY DEF Windows, Effects, Moves
<1> DEFINE p1 == Spawning \o Blocks
           p2 == p1 \o Windows
           p3 == p2 \o Effects
           p4 == p3 \o Moves
           p5 == p4 \o Entities
           p6 == p5 \o Scores
           p7 == p6 \o Others
<1>10. PlayingClientbound = p7
  BY DEF PlayingClientbound
<1>11. Listed(p1, 13)
  <2>1. 6 \in Nat /\ 7 \in Nat
    OBVIOUS
  <2>2. Continues(p1, Spawning, Blocks, 6, 7)
    BY <1>2, <1>1, <2>1, ListedJoined, Zenon
  <2> HIDE DEF p1
  <2>3. QED
    BY <2>2 DEF Continues
<1> HIDE DEF p1
<1>12. Listed(p2, 25) /\ p2[16] = Windows[3]
  <2>1. 13 \in Nat /\ 12 \in Nat
    OBVIOUS
  <2>2. Continues(p2, p1, Windows, 13, 12)
    BY <1>3, <1>11, <2>1, ListedJoined, Zenon
  <2> HIDE DEF p2
  <2>3. QED
    BY <2>2 DEF Continues
<1> HIDE DEF p2
<1>13. Listed(p3, 35) /\ p3[32] = Effects[7] /\ p3[27] = Effects[2] /\ p3[16] = p2[16]
  <2>1. 25 \in Nat /\ 10 \in Nat
    OBVIOUS
  <2>2. Continues(p3, p2, Effects, 25, 10)
    BY <1>4, <1>12, <2>1, ListedJoined, Zenon
  <2> HIDE DEF p3
  <2>3. QED
    BY <2>2 DEF Continues
<1> HIDE DEF p3
<1>14. /\ Listed(p4, 47) /\ p4[32] = p3[32] /\ p4[47] = Moves[12]
       /\ p4[27] = p3[27] /\ p4[16] = p3[16]
  <2>1. 35 \in Nat /\ 12 \in Nat
    OBVIOUS
  <2>2. Continues(p4, p3, Moves, 35, 12)
    BY <1>5, <1>13, <2>1, ListedJoined, Zenon
  <2> HIDE DEF p4
  <2>3. QED
    BY <2>2 DEF Continues
<1> HIDE DEF p4
<1>15. Listed(p5, 60) /\ \A i \in 1 .. 47 : p5[i] = p4[i]
  <2>1. 47 \in Nat /\ 13 \in Nat
    OBVIOUS
  <2>2. Continues(p5, p4, Entities, 47, 13)
    BY <1>6, <1>14, <2>1, ListedJoined, Zenon
  <2> HIDE DEF p5
  <2>3. QED
    BY <2>2 DEF Continues
<1> HIDE DEF p5
<1>16. Listed(p6, 71) /\ \A i \in 1 .. 60 : p6[i] = p5[i]
  <2>1. 60 \in Nat /\ 11 \in Nat
    OBVIOUS
  <2>2. Continues(p6, p5, Scores, 60, 11)
    BY <1>7, <1>15, <2>1, ListedJoined, Zenon
  <2> HIDE DEF p6
  <2>3. QED
    BY <2>2 DEF Continues
<1> HIDE DEF p6
<1>17. Listed(p7, 77) /\ \A i \in 1 .. 71 : p7[i] = p6[i]
  <2>1. 71 \in Nat /\ 6 \in Nat
    OBVIOUS
  <2>2. Continues(p7, p6, Others, 71, 6)
    BY <1>8, <1>16, <2>1, ListedJoined, Zenon
  <2> HIDE DEF p7
  <2>3. QED
    BY <2>2 DEF Continues
<1> HIDE DEF p7
<1>18. p7[32] = Effects[7] /\ p7[47] = Moves[12] /\ p7[16] = Windows[3] /\ p7[27] = Effects[2]
  BY <1>12, <1>13, <1>14, <1>15, <1>16, <1>17
<1>19. /\ KeepAlive + 1 = 32 /\ PositionAndLook + 1 = 47
       /\ ChatMessage + 1 = 16 /\ DisconnectPlay + 1 = 27
  BY DEF KeepAlive, PositionAndLook, ChatMessage, DisconnectPlay
<1>20. /\ LoginClientbound[SetCompression + 1] = <<"VarInt">>
       /\ LoginClientbound[Disconnect + 1] = <<"String">>
  BY DEF LoginClientbound, SetCompression, Disconnect
<1>21. QED
  BY <1>9, <1>10, <1>18, <1>19, <1>20, Zenon

\* What a reactor reads, of the packets it does something with.
Answerable == {<<"login", SetCompression>>, <<"play", KeepAlive>>, <<"play", PositionAndLook>>}
FieldsOf(state, id) == ClientboundPackets[state][id + 1]
Answers(p) ==
  <<p.table, p.id>> \in Answerable => Filled(p.set, FieldsOf(p.table, p.id))

LEMMA AnswerableIs ==
  ASSUME NEW state, NEW id, <<state, id>> \in Answerable
  PROVE  FieldsOf(state, id) \in Seq(Simple)
<1>1. <<"VarInt">> \in Seq(Simple)
  BY DEF Simple
<1>2. <<"Double", "Double", "Double", "Float", "Float", "Byte", "VarInt">> \in Seq(Simple)
  BY DEF Simple, Width
<1>3. ClientboundPackets["play"] = PlayingClientbound /\ ClientboundPackets["login"] = LoginClientbound
  BY DEF ClientboundPackets
<1>4. CASE state = "login" /\ id = SetCompression
  BY <1>1, <1>3, <1>4, EntriesAre DEF FieldsOf
<1>5. CASE state = "play" /\ id = KeepAlive
  BY <1>1, <1>3, <1>5, EntriesAre DEF FieldsOf
<1>6. CASE state = "play" /\ id = PositionAndLook
  BY <1>2, <1>3, <1>6, EntriesAre DEF FieldsOf
<1>7. QED
  BY <1>4, <1>5, <1>6 DEF Answerable

LEMMA ParsedAnswers ==
  ASSUME NEW payload \in Seq(Octet), NEW state, Parsed(payload, state).ok
  PROVE  Answers(Parsed(payload, state).packet)
<1> DEFINE n == ReadVarInt(payload)
           id == n.value[1]
           f == ClientboundPackets[state][id + 1]
           base == [table |-> state, id |-> -1, set |-> <<>>]
           full == [table |-> state, id |-> id, set |-> ReadFields(f, n.rest).set]
           got == Parsed(payload, state)
<1>1. n.rest \in Seq(Octet)
  BY ReadVarIntIs DEF Reading
<1>2. got.packet \in {base, full}
  <2> HIDE DEF base, full
  <2>1. \/ got = [ok |-> FALSE, packet |-> base]
        \/ got = [ok |-> TRUE, packet |-> base]
        \/ got = [ok |-> TRUE, packet |-> full]
    BY Zenon DEF Parsed, base, full
  <2>2. QED
    BY <2>1
<1>3. Answers(base)
  <2>1. base.id = -1
    OBVIOUS
  <2>2. <<base.table, base.id>> \notin Answerable
    BY <2>1 DEF Answerable, SetCompression, KeepAlive, PositionAndLook
  <2>3. QED
    BY <2>2 DEF Answers
<1>4. Answers(full)
  <2> SUFFICES ASSUME <<full.table, full.id>> \in Answerable
               PROVE  Filled(full.set, FieldsOf(full.table, full.id))
    BY DEF Answers
  <2>1. full.table = state /\ full.id = id /\ full.set = ReadFields(f, n.rest).set
    OBVIOUS
  <2> HIDE DEF full, n
  <2>2. f = FieldsOf(state, id)
    BY DEF FieldsOf
  <2>3. f \in Seq(Simple)
    BY <2>1, <2>2, AnswerableIs
  <2> HIDE DEF f, id
  <2>4. Filled(ReadFields(f, n.rest).set, f)
    BY <1>1, <2>3, FieldsRead
  <2>5. QED
    BY <2>1, <2>2, <2>4
<1>5. QED
  BY <1>2, <1>3, <1>4, Zenon

\* The payload in the data of a packet.
LEMMA UnwrappedIs ==
  ASSUME NEW z \in Seq(Octet), NEW enabled \in BOOLEAN, Unwrapped(z, enabled).ok
  PROVE  Unwrapped(z, enabled).value \in Seq(Octet)
<1> DEFINE size == ReadVarInt(z)
           t == Took(size.value[1], size.rest)
           zipped == Decompressed(t)
<1>1. size.rest \in Seq(Octet) /\ (size.ok => size.value \in Numbers)
  BY ReadVarIntIs DEF Reading
<1>2. CASE ~enabled
  BY <1>2 DEF Unwrapped, Got
<1>3. CASE enabled /\ size.ok /\ size.value[1] = 0
  <2>1. Unwrapped(z, enabled) = Got(size.rest, <<>>)
    BY <1>3, Zenon DEF Unwrapped
  <2>2. QED
    BY <1>1, <2>1 DEF Got
<1>4. CASE enabled /\ size.ok /\ size.value[1] # 0
  <2>1. size.value[1] \in Nat
    <3> HIDE DEF size
    <3>1. PICK v \in VarInts : size.value = <<v>>
      BY <1>1, <1>4 DEF Numbers
    <3>2. QED
      BY <3>1 DEF VarInts
  <2>2. t \in Seq(Octet)
    BY <1>1, <2>1, PartsAnywhere
  <2>3. zipped.value \in Seq(Octet)
    <3>1. zipped \in Unzipped
      BY <2>2, DecompressedFolds, FoldedIs
    <3>2. QED
      BY <3>1 DEF Unzipped
  <2>4. Unwrapped(z, enabled) = [ok |-> zipped.ok, value |-> zipped.value, rest |-> <<>>]
    BY <1>4, Zenon DEF Unwrapped
  <2>5. QED
    BY <2>3, <2>4
<1>5. CASE enabled /\ ~size.ok
  <2>1. Unwrapped(z, enabled) = size
    BY <1>5, Zenon DEF Unwrapped
  <2>2. QED
    BY <1>5, <2>1
<1>6. QED
  BY <1>2, <1>3, <1>4, <1>5

-----------------------------------------------------------------------------
(* What the client writes *)

LEMMA Numerous == 0 .. 242 \subseteq VarInts
<1>1. Group \in Nat /\ Group >= 3
  BY VarIntAssumption, PacketAssumption DEF VarIntAssumption, PacketAssumption
<1> DEFINE a == Group * Group
           b == Group * a
           c == Group * b
           e == Group * c
<1>2. a \in Nat /\ a >= 9
  BY <1>1
<1> HIDE DEF a
<1>3. b \in Nat /\ b >= 27
  BY <1>1, <1>2
<1> HIDE DEF b
<1>4. c \in Nat /\ c >= 81
  BY <1>1, <1>3
<1> HIDE DEF c
<1>5. e \in Nat /\ e >= 243
  BY <1>1, <1>4
<1>6. VarInts = 0 .. e - 1
  BY Zenon DEF VarInts, a, b, c, e
<1> HIDE DEF e
<1>7. QED
  BY <1>5, <1>6

LEMMA AnswerSendable ==
  ASSUME NEW id \in 0 .. 31, NEW t \in Seq(Octet), Len(t) <= 48
  PROVE  Sendable(Sent(id) \o t)
<1> DEFINE x == Sent(id)
           n == Len(x \o t)
           a == Len(x)
           b == Len(t)
<1>1. x \in Seq(Octet) /\ a <= 5
  <2>1. id \in VarInts
    BY SmallNumbers
  <2>2. QED
    BY <2>1, SentSizes, Zenon
<1> HIDE DEF x
<1>2. x \o t \in Seq(Octet) /\ n = a + b
  BY <1>1, ConcatProperties, Zenon
<1>3. a \in Nat /\ b \in Nat /\ b <= 48
  BY <1>1
<1> HIDE DEF n, a, b
<1>4. 2 * n + 6 \in 0 .. 242
  BY <1>1, <1>2, <1>3
<1>5. 2 * n + 6 \in VarInts
  BY <1>4, Numerous
<1>6. QED
  BY <1>2, <1>5, Zenon DEF Sendable, n, x

\* As many sequences of up to eight bytes as there are.
LEMMA FlattenShort ==
  ASSUME NEW s \in Seq(Seq(Octet)), \A i \in 1 .. Len(s) : Len(s[i]) <= 8
  PROVE  FlattenSeq(s) \in Seq(Octet) /\ Len(FlattenSeq(s)) <= 8 * Len(s)
<1> DEFINE R == Seq(Octet)
           E == {e \in R : Len(e) <= 8}
           T == {q \in Seq(E) : q \in Seq(R) /\ Len(FlattenSeq(q)) <= 8 * Len(q)}
<1>1. <<>> \in T
  <2>1. FlattenSeq(<<>>) = <<>> /\ Len(<<>>) = 0
    BY FlattenEmpty
  <2>2. <<>> \in Seq(E) /\ <<>> \in Seq(R)
    OBVIOUS
  <2> HIDE DEF R, E
  <2>3. Len(FlattenSeq(<<>>)) <= 8 * Len(<<>>)
    BY <2>1
  <2>4. QED
    BY <2>2, <2>3
<1>2. ASSUME NEW q \in T, NEW e \in E
      PROVE  Append(q, e) \in T
  <2> DEFINE r == Append(q, e)
             f == FlattenSeq(q)
             n == Len(q)
             m == Len(f)
             k == Len(e)
  <2>1. q \in Seq(E) /\ q \in Seq(R) /\ m <= 8 * n /\ e \in R /\ k <= 8
    OBVIOUS
  <2>2. f \in Seq(Octet) /\ FlattenSeq(r) = f \o e
    BY <2>1, FlattenType, FlattenAppend, Zenon DEF R
  <2>3. e \in Seq(Octet)
    BY <2>1
  <2> HIDE DEF R, E
  <2>4. r \in Seq(E) /\ r \in Seq(R) /\ Len(r) = n + 1
    BY <2>1, AppendProperties
  <2> HIDE DEF f
  <2>5. Len(f \o e) = m + k
    BY <2>2, <2>3, ConcatProperties, Zenon
  <2>6. m \in Nat /\ k \in Nat /\ n \in Nat
    BY <2>1, <2>2, <2>3
  <2> DEFINE l == Len(f \o e)
  <2>7. l = m + k
    BY <2>5
  <2> HIDE DEF l, m, k, n
  <2>8. l <= 8 * (n + 1)
    BY <2>1, <2>6, <2>7
  <2>9. Len(FlattenSeq(r)) <= 8 * Len(r)
    <3>1. Len(FlattenSeq(r)) = l /\ Len(r) = n + 1
      BY <2>2, <2>4, Zenon DEF l
    <3>2. QED
      BY <2>8, <3>1, Zenon
  <2>10. QED
    BY <2>4, <2>9
<1>3. T = Seq(E)
  <2>1. T \in SUBSET Seq(E)
    OBVIOUS
  <2> HIDE DEF T, E
  <2>2. QED
    BY <1>1, <1>2, <2>1, InductSeq
<1>4. s \in Seq(E)
  <2>1. Len(s) \in Nat /\ DOMAIN s = 1 .. Len(s)
    OBVIOUS
  <2>2. s = [i \in 1 .. Len(s) |-> s[i]]
    BY <2>1, LenProperties
  <2>3. \A i \in 1 .. Len(s) : s[i] \in E
    BY <2>1
  <2> HIDE DEF E
  <2>4. QED
    BY <2>1, <2>2, <2>3
<1>5. QED
  BY <1>3, <1>4, FlattenType

\* The answers: a number, or the fields of a position; and chats.
Built(kind, values) ==
  Payload(ServerboundPackets[kind].id, ServerboundPackets[kind].fields, values)

LEMMA KindsAre ==
  /\ ServerboundPackets["keep_alive"] = [id |-> 11, fields |-> <<"VarInt">>]
  /\ ServerboundPackets["teleport_confirm"] = [id |-> 0, fields |-> <<"VarInt">>]
  /\ ServerboundPackets["position_and_look"] =
       [id |-> 6, fields |-> <<"Double", "Double", "Double", "Float", "Float", "Boolean">>]
  /\ DOMAIN ServerboundPackets = {"keep_alive", "teleport_confirm", "position_and_look", "chat"}
BY DEF ServerboundPackets

LEMMA SeqNat == \A s \in Seq(Octet) : s \in Seq(Nat)
<1> TAKE s \in Seq(Octet)
<1>1. \A i \in 1 .. Len(s) : s[i] \in Octet
  OBVIOUS
<1>2. \A i \in 1 .. Len(s) : s[i] \in Nat
  BY <1>1, OctetIs, Zenon
<1>3. Len(s) \in Nat /\ s = [i \in 1 .. Len(s) |-> s[i]]
  BY LenProperties
<1>4. QED
  BY <1>2, <1>3

LEMMA NumberBuilt ==
  ASSUME NEW v \in Numbers, NEW kind \in {"keep_alive", "teleport_confirm"}
  PROVE  <<v>> \in Values /\ Sendable(Built(kind, <<v>>))
<1>1. PICK n \in VarInts : v = <<n>>
  BY DEF Numbers
<1>2. <<v>> \in Values
  <2>1. n \in Nat
    BY DEF VarInts
  <2>2. QED
    BY <1>1, <2>1 DEF Values
<1> DEFINE x == Sent(n)
<1>3. x \in Seq(Octet) /\ Len(x) <= 48
  BY SentSizes
<1>4. Send("VarInt", v) = x
  BY <1>1, SendIs
<1> HIDE DEF x
<1>5. [i \in DOMAIN <<"VarInt">> |-> Send(<<"VarInt">>[i], <<v>>[i])] = <<x>>
  BY <1>4
<1>6. FlattenSeq(<<x>>) = x
  BY <1>3, FlattenFew, Zenon
<1>7. \A id : Payload(id, <<"VarInt">>, <<v>>) = Sent(id) \o x
  BY <1>5, <1>6, Zenon DEF Payload
<1>8. Sendable(Sent(0) \o x) /\ Sendable(Sent(11) \o x)
  BY <1>3, AnswerSendable
<1>9. \/ Built(kind, <<v>>) = Payload(0, <<"VarInt">>, <<v>>)
      \/ Built(kind, <<v>>) = Payload(11, <<"VarInt">>, <<v>>)
  BY KindsAre DEF Built
<1>10. QED
  BY <1>2, <1>7, <1>8, <1>9, Zenon

LEMMA PositionBuilt ==
  ASSUME NEW vs, vs = [i \in 1 .. 6 |-> vs[i]],
         \A i \in 1 .. 6 : vs[i] \in Seq(Octet) /\ Len(vs[i]) <= 8
  PROVE  vs \in Values /\ Sendable(Built("position_and_look", vs))
<1> DEFINE f == <<"Double", "Double", "Double", "Float", "Float", "Boolean">>
           R == Seq(Octet)
<1>1. vs \in Seq(R) /\ Len(vs) = 6
  <2>1. \A i \in 1 .. 6 : vs[i] \in R
    OBVIOUS
  <2> HIDE DEF R
  <2>2. QED
    BY <2>1
<1>2. vs \in Values
  <2> DEFINE N == Seq(Nat)
  <2>1. \A i \in 1 .. 6 : vs[i] \in N
    BY SeqNat
  <2> HIDE DEF N
  <2>2. vs \in Seq(N)
    BY <2>1
  <2>3. QED
    BY <2>2 DEF Values, N
<1>3. [i \in DOMAIN f |-> Send(f[i], vs[i])] = vs
  <2>1. DOMAIN f = 1 .. 6 /\ \A i \in 1 .. 6 : f[i] \in DOMAIN Width
    BY DEF Width
  <2>2. \A type \in DOMAIN Width : \A v : Send(type, v) = v
    <3> TAKE type \in DOMAIN Width
    <3> TAKE v
    <3>1. type \notin {"VarInt", "String", "VarIntPrefixedByteArray", "SlotArray",
                       "TripleByteArray", "RecordArray"}
      BY DEF Width
    <3>2. QED
      BY <3>1, Zenon DEF Send
  <2> HIDE DEF f
  <2>3. \A i \in 1 .. 6 : Send(f[i], vs[i]) = vs[i]
    BY <2>1, <2>2, Zenon
  <2>4. QED
    BY <2>1, <2>3
<1> DEFINE x == FlattenSeq(vs)
<1>4. x \in Seq(Octet) /\ Len(x) <= 48
  <2>1. \A i \in 1 .. Len(vs) : Len(vs[i]) <= 8
    BY <1>1
  <2>2. x \in Seq(Octet) /\ Len(x) <= 8 * Len(vs)
    BY <1>1, <2>1, FlattenShort
  <2> HIDE DEF x, R
  <2>3. QED
    BY <1>1, <2>2
<1>5. Built("position_and_look", vs) = Sent(6) \o x
  <2>1. Built("position_and_look", vs) = Payload(6, f, vs)
    BY KindsAre DEF Built
  <2> HIDE DEF f
  <2>2. QED
    BY <1>3, <2>1, Zenon DEF Payload
<1>6. Sendable(Sent(6) \o x)
  <2> HIDE DEF x
  <2>1. QED
    BY <1>4, AnswerSendable
<1>7. QED
  BY <1>2, <1>5, <1>6, Zenon

LEMMA ChatBuilt ==
  ASSUME NEW m \in Messages
  PROVE  <<m>> \in Values /\ Sendable(Built("chat", <<m>>))
<1>1. m \in Seq(Nat)
  BY PacketAssumption, SeqNat DEF PacketAssumption
<1>2. <<m>> \in Values
  BY <1>1 DEF Values
<1>3. Sendable(Built("chat", <<m>>))
  <2>1. /\ ServerboundPackets["chat"].id = ServerboundPackets.chat.id
        /\ ServerboundPackets["chat"].fields = ServerboundPackets.chat.fields
    OBVIOUS
  <2>2. QED
    BY <2>1, PacketAssumption, Zenon DEF PacketAssumption, Built
<1>4. QED
  BY <1>2, <1>3

\* What the server makes of the bytes of a packet, with its decryptor in state d.
Taken(w, d) ==
  LET plain == Decrypted(w.bytes, d)
      body == Left(Used(plain), plain)
      size == ReadVarInt(body)
  IN  /\ Len(body) = Received(plain)
      /\ IF w.threshold = Off THEN body = w.payload
         ELSE \/ size.value = <<0>> /\ size.rest = w.payload
              \/ /\ size.value = <<Len(w.payload)>> /\ Len(w.payload) >= w.threshold
                 /\ Decompressed(size.rest).value = w.payload

\* A number in front is read as it was sent, and what follows is left.
LEMMA NumberFirst ==
  ASSUME NEW v \in VarInts, NEW z \in Seq(Octet)
  PROVE  ReadVarInt(Sent(v) \o z) = Got(<<v>>, z)
<1> DEFINE x == Sent(v)
           s == x \o z
<1>1. x \in Seq(Octet)
  BY SentIs
<1>2. Whole(s) /\ Used(s) = Len(x) /\ Received(s) = v
  BY VarIntRoundTrip
<1> HIDE DEF x
<1>3. Left(Len(x), s) = z
  BY <1>1, JoinedApart
<1> HIDE DEF s
<1>4. ReadVarInt(s) = Got(<<v>>, z)
  BY <1>2, <1>3 DEF ReadVarInt
<1>5. QED
  BY <1>4 DEF s, x

LEMMA FramedTaken ==
  ASSUME NEW w, Sendable(w.payload), w.threshold \in VarInts \cup {Off}, NEW d \in States,
         w.bytes = Encrypted(Framed(w.payload, w.threshold), d)
  PROVE  w.bytes \in Seq(Octet) /\ w.bytes # <<>> /\ Taken(w, d)
<1> DEFINE p == w.payload
           t == w.threshold
           off == t = Off
           long == Len(p) > t
           body == CASE off -> p
                     [] ~off /\ long -> Zipped(p)
                     [] OTHER -> Plain(p)
           x == Sent(Len(body))
           q == x \o body
<1>1. p \in Seq(Octet) /\ Len(p) \in VarInts /\ 0 \in VarInts
  <2>1. p \in {p, Zipped(p), Plain(p)}
    OBVIOUS
  <2>2. p \in Seq(Octet) /\ Len(p) \in VarInts
    BY <2>1, BodyIs
  <2>3. 0 \in VarInts
    BY SmallNumbers
  <2> HIDE DEF p
  <2>4. QED
    BY <2>2, <2>3
<1>2. Framed(p, t) = q
  BY DEF Framed, Prefixed
<1>3. body \in {p, Zipped(p), Plain(p)}
  OBVIOUS
<1>4. (off => body = p) /\ (~off => body = IF long THEN Zipped(p) ELSE Plain(p))
  OBVIOUS
<1> HIDE DEF body, off, long
<1>5. body \in Seq(Octet) /\ Len(body) \in VarInts
  BY <1>3, BodyIs
<1>6. Whole(q) /\ Used(q) = Len(x) /\ Received(q) = Len(body)
  BY <1>5, VarIntRoundTrip
<1>7. x \in Seq(Octet) /\ Len(x) \in 1 .. 5
  BY <1>5, SentIs, SizeIs
<1> HIDE DEF x
<1>8. q \in Seq(Octet) /\ Len(q) = Len(x) + Len(body) /\ Left(Len(x), q) = body
  BY <1>5, <1>7, JoinedApart, ConcatProperties, Zenon
<1> HIDE DEF q
<1>9. w.bytes \in Seq(Octet) /\ Len(w.bytes) = Len(q) /\ Decrypted(w.bytes, d) = q
  BY <1>2, <1>8, CipherRoundTrip
<1>10. w.bytes # <<>>
  <2> DEFINE z == w.bytes
             n == Len(z)
             a == Len(x)
             b == Len(body)
  <2>1. n = a + b /\ a \in 1 .. 5 /\ b \in Nat
    BY <1>5, <1>7, <1>8, <1>9
  <2> HIDE DEF a, b, n
  <2>2. n # 0
    BY <2>1
  <2> HIDE DEF z
  <2>3. z # <<>>
    BY <2>2 DEF n
  <2>4. QED
    BY <2>3 DEF z
<1>11. IF t = Off THEN body = p
       ELSE LET size == ReadVarInt(body) IN
            \/ size.value = <<0>> /\ size.rest = p
            \/ /\ size.value = <<Len(p)>> /\ Len(p) >= t /\ Decompressed(size.rest).value = p
  <2>1. CASE off
    BY <1>4, <2>1 DEF off
  <2>2. CASE ~off /\ long
    <3> DEFINE z == Compressed(p)
    <3>1. z \in Seq(Octet)
      BY <1>1, CompressedIs
    <3>2. body = Sent(Len(p)) \o z
      BY <1>4, <2>2 DEF Zipped
    <3>3. Decompressed(z).value = p
      BY <1>1, ZipRoundTrip
    <3> HIDE DEF z
    <3>4. ReadVarInt(body) = Got(<<Len(p)>>, z)
      BY <1>1, <3>1, <3>2, NumberFirst
    <3>5. Len(p) >= t
      <4>1. t \in VarInts
        BY <2>2 DEF off
      <4>2. t \in Int /\ Len(p) \in Int
        BY <1>1, <4>1 DEF VarInts
      <4> HIDE DEF t
      <4>3. QED
        BY <2>2, <4>2 DEF long
    <3>6. ReadVarInt(body).value = <<Len(p)>> /\ ReadVarInt(body).rest = z
      BY <3>4 DEF Got
    <3>7. QED
      BY <2>2, <3>3, <3>5, <3>6, Zenon DEF off
  <2>3. CASE ~off /\ ~long
    <3>1. body = Sent(0) \o p
      BY <1>4, <2>3 DEF Plain
    <3>2. ReadVarInt(body) = Got(<<0>>, p)
      BY <1>1, <3>1, NumberFirst
    <3>3. ReadVarInt(body).value = <<0>> /\ ReadVarInt(body).rest = p
      BY <3>2 DEF Got
    <3>4. QED
      BY <2>3, <3>3, Zenon DEF off
  <2>4. QED
    BY <2>1, <2>2, <2>3
<1>12. Taken(w, d)
  BY <1>6, <1>8, <1>9, <1>11, Zenon DEF Taken
<1>13. QED
  BY <1>9, <1>10, <1>12

\* The answers can be sent.
Queuable == {q \in [kind : DOMAIN ServerboundPackets, values : Values] :
               Sendable(Built(q.kind, q.values))}

LEMMA AnswerQueuable ==
  ASSUME Answers(packet), \A i \in Reads : Has(i)
  PROVE  Answer \in Seq(Queuable)
<1>1. ASSUME NEW state, NEW id, Is(state, id), <<state, id>> \in Answerable,
             NEW i \in Reads, Has(i)
      PROVE  packet.set[i].value \in ValuesOf(FieldsOf(state, id)[i])
  <2>1. Filled(packet.set, FieldsOf(state, id))
    BY <1>1 DEF Answers, Is
  <2>2. i \in DOMAIN packet.set /\ packet.set[i].ok
    BY <1>1 DEF Has
  <2>3. QED
    BY <2>1, <2>2, Zenon DEF Filled
<1>2. /\ ClientboundPackets["play"] = PlayingClientbound
      /\ <<"play", KeepAlive>> \in Answerable /\ <<"play", PositionAndLook>> \in Answerable
  BY DEF ClientboundPackets, Answerable
<1>3. ASSUME NEW kind \in {"keep_alive", "teleport_confirm"}, NEW v \in Numbers,
             Answer = <<[kind |-> kind, values |-> <<v>>]>>
      PROVE  Answer \in Seq(Queuable)
  <2> DEFINE q == [kind |-> kind, values |-> <<v>>]
  <2>1. <<v>> \in Values /\ Sendable(Built(kind, <<v>>)) /\ kind \in DOMAIN ServerboundPackets
    BY NumberBuilt, KindsAre
  <2>2. q \in Queuable
    BY <2>1 DEF Queuable
  <2> HIDE DEF q
  <2>3. <<q>> \in Seq(Queuable)
    BY <2>2
  <2>4. QED
    BY <1>3, <2>3 DEF q
<1>4. CASE Is("play", KeepAlive)
  <2>1. Reads = {1}
    <3>1. ~Is("login", Disconnect)
      BY <1>4 DEF Is
    <3>2. ~Is("play", PositionAndLook)
      BY <1>4 DEF Is, KeepAlive, PositionAndLook
    <3>3. QED
      BY <1>4, <3>1, <3>2, Zenon DEF Reads
  <2>2. FieldsOf("play", KeepAlive) = <<"VarInt">>
    BY <1>2, EntriesAre DEF FieldsOf
  <2>3. packet.set[1].value \in Numbers
    <3>1. packet.set[1].value \in ValuesOf(<<"VarInt">>[1])
      BY <1>1, <1>2, <1>4, <2>1, <2>2
    <3>2. QED
      BY <3>1 DEF ValuesOf
  <2>4. Answer = <<[kind |-> "keep_alive", values |-> <<packet.set[1].value>>]>>
    <3>1. ~Is("play", PositionAndLook)
      BY <1>4 DEF Is, KeepAlive, PositionAndLook
    <3>2. QED
      BY <1>4, <3>1, Zenon DEF Answer
  <2>5. QED
    BY <1>3, <2>3, <2>4
<1>5. CASE Is("play", PositionAndLook)
  <2> DEFINE f == <<"Double", "Double", "Double", "Float", "Float", "Byte", "VarInt">>
  <2>1. Reads = 1 .. 5 \cup {7}
    <3>1. ~Is("login", Disconnect) /\ ~Is("login", SetCompression)
      BY <1>5 DEF Is
    <3>2. ~Is("play", KeepAlive) /\ ~Is("play", DisconnectPlay)
      BY <1>5 DEF Is, KeepAlive, PositionAndLook, DisconnectPlay
    <3>3. QED
      BY <1>5, <3>1, <3>2, Zenon DEF Reads
  <2>2. FieldsOf("play", PositionAndLook) = f
    BY <1>2, EntriesAre DEF FieldsOf
  <2>3. ASSUME NEW i \in 1 .. 5 \cup {7}
        PROVE  packet.set[i].value \in ValuesOf(f[i])
    BY <1>1, <1>2, <1>5, <2>1, <2>2
  <2>4. packet.set[7].value \in Numbers
    <3>1. packet.set[7].value \in ValuesOf(f[7])
      BY <2>3
    <3>2. f[7] = "VarInt"
      OBVIOUS
    <3>3. QED
      BY <3>1, <3>2 DEF ValuesOf
  <2>5. \A i \in 1 .. 5 : packet.set[i].value \in Seq(Octet) /\ Len(packet.set[i].value) <= 8
    <3> TAKE i \in 1 .. 5
    <3>1. packet.set[i].value \in ValuesOf(f[i])
      BY <2>3
    <3>2. f[i] \in {"Double", "Float"}
      OBVIOUS
    <3> DEFINE type == f[i]
               v == packet.set[i].value
    <3>3. type # "VarInt" /\ Width[type] <= 8 /\ v \in ValuesOf(type)
      BY <3>1, <3>2 DEF Width
    <3> HIDE DEF type, v
    <3>4. v \in Seq(Octet) /\ Len(v) <= 8
      BY <3>3 DEF ValuesOf, Words
    <3>5. QED
      BY <3>4 DEF v
  <2>6. ~Is("play", KeepAlive)
    BY <1>5 DEF Is, KeepAlive, PositionAndLook
  <2>7. CASE packet.set[7].value # <<0>>
    <3>1. Answer = <<[kind |-> "teleport_confirm", values |-> <<packet.set[7].value>>]>>
      BY <1>5, <2>6, <2>7, Zenon DEF Answer
    <3>2. QED
      BY <1>3, <2>4, <3>1
  <2>8. CASE packet.set[7].value = <<0>>
    <3> DEFINE vs == [i \in 1 .. 6 |-> IF i < 6 THEN packet.set[i].value ELSE <<1>>]
               q == [kind |-> "position_and_look", values |-> vs]
    <3>1. Answer = <<q>>
      BY <1>5, <2>6, <2>8, Zenon DEF Answer
    <3>2. \A i \in 1 .. 6 : vs[i] \in Seq(Octet) /\ Len(vs[i]) <= 8
      <4>1. <<1>> \in Seq(Octet) /\ Len(<<1>>) <= 8
        BY VarIntAssumption DEF VarIntAssumption, Octet
      <4>2. QED
        BY <2>5, <4>1
    <3>3. vs = [i \in 1 .. 6 |-> vs[i]]
      OBVIOUS
    <3> HIDE DEF vs
    <3>4. vs \in Values /\ Sendable(Built("position_and_look", vs))
      BY <3>2, <3>3, PositionBuilt
    <3>5. q \in Queuable
      BY <3>4, KindsAre DEF Queuable
    <3> HIDE DEF q
    <3>6. QED
      BY <3>1, <3>5
  <2>9. QED
    BY <2>7, <2>8
<1>6. CASE ~Is("play", KeepAlive) /\ ~Is("play", PositionAndLook)
  <2>1. Answer = <<>>
    BY <1>6, Zenon DEF Answer
  <2>2. QED
    BY <2>1
<1>7. QED
  BY <1>4, <1>5, <1>6

\* The encryptor before the i-th packet written, of which the last byte is all it
\* goes on from.
SealedBy(i) ==
  IF encryptor = Clear THEN Clear
  ELSE IF i = 1 THEN Fresh ELSE Last(written[i - 1].bytes)

Writings == [kind : DOMAIN ServerboundPackets, values : Values, payload : Seq(Octet),
             threshold : VarInts \cup {Off}, bytes : Seq(Octet)]

WellWritten(w, d) ==
  /\ Sendable(w.payload) /\ w.bytes # <<>>
  /\ w.bytes = Encrypted(Framed(w.payload, w.threshold), d)

\* What has been written, to the last byte.
WrittenSoFar ==
  /\ encryptor \in States /\ written \in Seq(Writings)
  /\ \A i \in 1 .. Len(written) : WellWritten(written[i], SealedBy(i))
  /\ encryptor = SealedBy(Len(written) + 1)

\* What is on its way to be written.
Typed ==
  /\ stage \in {"login", "play", "kicked"} /\ sets \in VarInts \cup {Off} /\ closed \in BOOLEAN
  /\ stream \in Seq(Octet) /\ data \in Seq(Octet)
  /\ table \in {"login", "play"} /\ threshold \in VarInts \cup {Off}
  /\ pc \in {"waiting", "body", "parsing", "reacting", "listening",
             "lost", "spinning", "broken", "failed"}
  /\ sealing \in States /\ decryptor \in States
  /\ length \in Nat /\ chats \in Nat
  /\ queue \in Seq(Queuable) /\ unsent \in Seq(Queuable)
  /\ pc = "reacting" => Answers(packet)

WriteInv == Typed /\ WrittenSoFar

LEMMA InvTypeOK == ListenInv /\ WriteInv => TypeOK
<1> SUFFICES ASSUME ListenInv, WriteInv PROVE TypeOK
  OBVIOUS
<1>1. VarInts \subseteq Nat
  BY DEF VarInts
<1>2. sets \in Nat \cup {Off} /\ threshold \in Nat \cup {Off}
  BY <1>1 DEF WriteInv, Typed
<1>3. {sealing, encryptor, decryptor} \subseteq Octet \cup {Clear}
  BY DEF WriteInv, Typed, WrittenSoFar, States
<1>4. at \in Nat \X Nat /\ since \in Seq(Nat) /\ Len(since) = Len(packet_listeners)
  BY DEF ListenInv, ListenersOK
<1>5. ASSUME NEW w \in Range(queue)
      PROVE  w.kind \in DOMAIN ServerboundPackets /\ w.values \in Values
  <2>1. w \in Queuable
    BY DEF WriteInv, Typed, Range
  <2>2. QED
    BY <2>1 DEF Queuable
<1>8. ASSUME NEW w \in Range(unsent)
      PROVE  w.kind \in DOMAIN ServerboundPackets /\ w.values \in Values
  <2>1. w \in Queuable
    BY DEF WriteInv, Typed, Range
  <2>2. QED
    BY <2>1 DEF Queuable
<1>6. ASSUME NEW w \in Range(written)
      PROVE  w.kind \in DOMAIN ServerboundPackets /\ w.values \in Values /\ w.bytes \in Seq(Octet)
  <2>1. w \in Writings
    BY DEF WriteInv, WrittenSoFar, Range
  <2>2. QED
    BY <2>1 DEF Writings
<1>7. QED
  BY <1>2, <1>3, <1>4, <1>5, <1>6, <1>8 DEF WriteInv, Typed, TypeOK

LEMMA SealedIs ==
  ASSUME WrittenSoFar, NEW i \in 1 .. Len(written) + 1
  PROVE  SealedBy(i) \in States
<1>1. Clear \in States /\ Fresh \in States /\ written \in Seq(Writings)
  BY OctetIs DEF States, WrittenSoFar
<1>2. CASE i # 1
  <2>1. i - 1 \in 1 .. Len(written)
    BY <1>1, <1>2
  <2> DEFINE z == written[i - 1].bytes
  <2>2. z \in Seq(Octet) /\ z # <<>>
    <3>1. written[i - 1] \in Writings
      BY <1>1, <2>1
    <3>2. WellWritten(written[i - 1], SealedBy(i - 1))
      BY <2>1 DEF WrittenSoFar
    <3>3. QED
      BY <3>1, <3>2 DEF WellWritten, Writings
  <2> HIDE DEF z
  <2>3. Last(z) \in Octet
    BY <2>2 DEF Last
  <2>4. QED
    BY <1>1, <2>3 DEF SealedBy, States, z
<1>3. QED
  BY <1>1, <1>2 DEF SealedBy

LEMMA InvTakes == WriteInv => ServerTakes
<1> SUFFICES ASSUME WriteInv, NEW i \in DOMAIN written
             PROVE  Taken(written[i], SealedBy(i))
  BY DEF ServerTakes, Taken, SealedBy
<1> DEFINE w == written[i]
           d == SealedBy(i)
<1>1. written \in Seq(Writings) /\ i \in 1 .. Len(written)
  BY DEF WriteInv, WrittenSoFar
<1>2. w.threshold \in VarInts \cup {Off} /\ WellWritten(w, d)
  <2>1. w \in Writings
    BY <1>1
  <2>2. WellWritten(w, d)
    BY <1>1 DEF WriteInv, WrittenSoFar
  <2>3. QED
    BY <2>1, <2>2 DEF Writings
<1>3. d \in States
  BY <1>1, SealedIs DEF WriteInv
<1> HIDE DEF w, d
<1>4. Taken(w, d)
  BY <1>2, <1>3, FramedTaken DEF WellWritten
<1>5. QED
  BY <1>4 DEF w, d

LEMMA InitWrite == Init => WriteInv
<1> SUFFICES ASSUME Init PROVE WriteInv
  OBVIOUS
<1>1. <<>> \in Seq(Octet) /\ <<>> \in Seq(Queuable) /\ <<>> \in Seq(Writings) /\ Len(<<>>) = 0
  OBVIOUS
<1>2. sealing \in States /\ encryptor = sealing /\ decryptor = sealing
      /\ (encryptor # Clear => encryptor = Fresh)
  BY OctetIs DEF Init, States
<1>3. Typed
  BY <1>1, <1>2 DEF Init, Typed
<1>4. written = <<>>
  BY DEF Init
<1>5. encryptor = SealedBy(1)
  BY <1>2 DEF SealedBy
<1>6. Len(written) + 1 = 1 /\ 1 .. Len(written) = {}
  BY <1>1, <1>4
<1>7. WrittenSoFar
  BY <1>1, <1>2, <1>4, <1>5, <1>6 DEF WrittenSoFar
<1>8. QED
  BY <1>3, <1>7 DEF WriteInv

\* A step that writes nothing.
LEMMA WrittenStays ==
  ASSUME WriteInv, UNCHANGED <<written, encryptor>>
  PROVE  WrittenSoFar'
<1>1. \A i : SealedBy(i)' = SealedBy(i)
  BY DEF SealedBy
<1>2. QED
  BY <1>1 DEF WriteInv, WrittenSoFar

\* What the server sends are bytes.
LEMMA PushBytes ==
  ASSUME ReadInv, NEW id, NEW payload, NEW values, NEW whole, Sendable(payload),
         Push(id, payload, values, whole)
  PROVE  \E bytes \in Seq(Octet) :
           stream' = stream \o bytes /\ sealing' = AfterByte(bytes, sealing) /\ closed' \in BOOLEAN
<1> DEFINE frame == Encrypted(ServerFramed(payload), sealing)
<1>1. sealing \in States
  BY DEF ReadInv, SentSoFar
<1>2. PICK bytes \in {frame} \cup CutOff(frame) :
        /\ stream' = stream \o bytes /\ closed' = (bytes # frame)
        /\ sealing' = AfterByte(bytes, sealing)
  BY DEF Push
<1>3. frame \in Seq(Octet) /\ Frame(frame, sealing) /\ Len(frame) > 0
  BY <1>1, SentWhole
<1> HIDE DEF frame
<1>4. bytes \in Seq(Octet)
  BY <1>1, <1>2, <1>3, SentCut
<1>5. closed' \in BOOLEAN
  BY <1>2
<1>6. QED
  BY <1>2, <1>4, <1>5

LEMMA ServerBytes ==
  ASSUME ReadInv, stream \in Seq(Octet), Server
  PROVE  \E bytes \in Seq(Octet) :
           stream' = stream \o bytes /\ sealing' = AfterByte(bytes, sealing) /\ closed' \in BOOLEAN
<1> DEFINE Goal == \E bytes \in Seq(Octet) :
              stream' = stream \o bytes /\ sealing' = AfterByte(bytes, sealing)
              /\ closed' \in BOOLEAN
<1>1. ASSUME ServerLogin PROVE Goal
  <2>1. ASSUME NEW id, NEW values, PushLogin(id, values),
               Sendable(Payload(id, LoginClientbound[id + 1], values))
        PROVE  Goal
    BY <2>1, PushBytes DEF PushLogin
  <2> HIDE DEF Goal
  <2>2. \/ \E t \in Thresholds : PushLogin(SetCompression, <<<<t>>>>)
        \/ PushLogin(LoginSuccess, <<<<1>>, <<2>>>>)
        \/ PushLogin(Disconnect, <<<<1>>>>)
    BY <1>1 DEF ServerLogin
  <2>3. QED
    BY <2>1, <2>2, LoginSendable
<1>2. ASSUME ServerPlay PROVE Goal
  <2>1. PICK samples \in {Core, Samples} : PushOneOf(samples)
    BY <1>2 DEF ServerPlay
  <2>2. PICK id \in DOMAIN samples : \E s \in samples[id] : Push(id, s.payload, s.values, s.whole)
    BY <2>1 DEF PushOneOf
  <2>3. PICK s \in samples[id] : Push(id, s.payload, s.values, s.whole)
    BY <2>2
  <2>4. Sendable(s.payload)
    BY PacketAssumption DEF PacketAssumption
  <2>5. QED
    BY <2>3, <2>4, PushBytes
<1>3. ASSUME ServerClose PROVE Goal
  <2>1. <<>> \in Seq(Octet)
    OBVIOUS
  <2>2. stream' = stream \o <<>>
    BY <1>3 DEF ServerClose
  <2>3. sealing' = AfterByte(<<>>, sealing) /\ closed' \in BOOLEAN
    BY <1>3 DEF ServerClose, AfterByte
  <2>4. QED
    BY <2>1, <2>2, <2>3
<1>4. QED
  BY <1>1, <1>2, <1>3 DEF Server

LEMMA ServerWrites == ReadInv /\ WriteInv /\ Server => WriteInv'
<1> SUFFICES ASSUME ReadInv, WriteInv, Server PROVE WriteInv'
  OBVIOUS
<1>1. UNCHANGED <<client, writing>>
  BY DEF Server, ServerLogin, ServerPlay, ServerClose
<1>2. PICK bytes \in Seq(Octet) :
        stream' = stream \o bytes /\ sealing' = AfterByte(bytes, sealing) /\ closed' \in BOOLEAN
  BY ServerBytes DEF WriteInv, Typed
<1>3. stage' \in {"login", "play", "kicked"} /\ sets' \in VarInts \cup {Off}
  <2>1. stage \in {"login", "play", "kicked"} /\ sets \in VarInts \cup {Off}
    BY DEF WriteInv, Typed
  <2>2. \/ UNCHANGED <<stage, sets>>
        \/ stage' \in {"play", "kicked"} /\ sets' = sets
        \/ stage' = stage /\ sets' \in Thresholds
    BY DEF Server, ServerLogin, ServerPlay, ServerClose
  <2>3. QED
    BY <2>1, <2>2, PacketAssumption DEF PacketAssumption
<1>4. stream' \in Seq(Octet)
  <2>1. stream \in Seq(Octet)
    BY DEF WriteInv, Typed
  <2>2. QED
    BY <1>2, <2>1, ConcatProperties
<1>5. sealing' \in States
  BY <1>2, AfterType DEF WriteInv, Typed
<1>6. Typed'
  BY <1>1, <1>2, <1>3, <1>4, <1>5 DEF WriteInv, Typed, client, writing
<1>7. WrittenSoFar'
  BY <1>1, WrittenStays DEF writing
<1>8. QED
  BY <1>6, <1>7 DEF WriteInv

\* Reading takes the stream from its beginning.
LEMMA ConsumeTyped ==
  ASSUME NEW n \in Nat, Consume(n), stream \in Seq(Octet), decryptor \in States
  PROVE  /\ stream' \in Seq(Octet) /\ decryptor' \in States
         /\ Took(n, Plaintext) \in Seq(Octet)
<1>1. Took(n, stream) \in Seq(Octet) /\ Left(n, stream) \in Seq(Octet)
  BY PartsAnywhere
<1>2. Plaintext \in Seq(Octet)
  BY DecryptedIs DEF Plaintext
<1>3. Took(n, Plaintext) \in Seq(Octet)
  BY <1>2, PartsAnywhere
<1>4. QED
  BY <1>1, <1>3, AfterType DEF Consume

LEMMA LengthWrites == WriteInv /\ ReadLength => WriteInv'
<1> SUFFICES ASSUME WriteInv, ReadLength PROVE WriteInv'
  OBVIOUS
<1>1. stream \in Seq(Octet) /\ decryptor \in States /\ length \in Nat
  BY DEF WriteInv, Typed
<1>2. stream' \in Seq(Octet) /\ decryptor' \in States /\ length' \in Nat /\ pc' \in {"body", "lost"}
  <2>1. CASE Whole(Plaintext)
    <3>1. Consume(Used(Plaintext)) /\ length' = Received(Plaintext) /\ pc' = "body"
      BY <2>1 DEF ReadLength
    <3>2. Plaintext \in Seq(Octet)
      BY <1>1, DecryptedIs DEF Plaintext
    <3>3. Received(Plaintext) \in Nat /\ Used(Plaintext) \in Nat
      <4>1. Received(Plaintext) \in VarInts /\ Used(Plaintext) \in 1 .. 5
        BY <2>1, <3>2, ReceivedIs
      <4>2. QED
        BY <4>1 DEF VarInts
    <3>4. QED
      BY <1>1, <3>1, <3>3, ConsumeTyped
  <2>2. CASE ~Whole(Plaintext)
    BY <1>1, <2>2 DEF ReadLength
  <2>3. QED
    BY <2>1, <2>2
<1>3. Typed'
  BY <1>2 DEF WriteInv, Typed, ReadLength, server, writing
<1>4. WrittenSoFar'
  BY WrittenStays DEF ReadLength, writing
<1>5. QED
  BY <1>3, <1>4 DEF WriteInv

LEMMA BodyWrites == WriteInv /\ ReadBody => WriteInv'
<1> SUFFICES ASSUME WriteInv, ReadBody PROVE WriteInv'
  OBVIOUS
<1>1. stream \in Seq(Octet) /\ decryptor \in States /\ length \in Nat /\ data \in Seq(Octet)
  BY DEF WriteInv, Typed
<1>2. /\ stream' \in Seq(Octet) /\ decryptor' \in States /\ data' \in Seq(Octet)
      /\ pc' \in {"parsing", "spinning"}
  <2>1. CASE Consume(length) /\ data' = Took(length, Plaintext) /\ pc' = "parsing"
    BY <1>1, <2>1, ConsumeTyped
  <2>2. CASE UNCHANGED <<data, stream, decryptor>> /\ pc' = "spinning"
    BY <1>1, <2>2
  <2>3. QED
    BY <2>1, <2>2 DEF ReadBody
<1>3. Typed'
  BY <1>2 DEF WriteInv, Typed, ReadBody, server, writing
<1>4. WrittenSoFar'
  BY WrittenStays DEF ReadBody, writing
<1>5. QED
  BY <1>3, <1>4 DEF WriteInv

LEMMA ParseWrites == WriteInv /\ Parse => WriteInv'
<1> SUFFICES ASSUME WriteInv, Parse PROVE WriteInv'
  OBVIOUS
<1> DEFINE body == Unwrapped(data, threshold # Off)
           got == Parsed(body.value, table)
<1>1. pc' \in {"reacting", "broken"} /\ (pc' = "reacting" => Answers(packet'))
  <2>1. CASE body.ok /\ got.ok
    <3>1. pc' = "reacting" /\ packet' = got.packet
      BY <2>1 DEF Parse
    <3>2. data \in Seq(Octet) /\ (threshold # Off) \in BOOLEAN
      BY DEF WriteInv, Typed
    <3>3. body.value \in Seq(Octet)
      BY <2>1, <3>2, UnwrappedIs
    <3>4. Answers(got.packet)
      BY <2>1, <3>3, ParsedAnswers
    <3>5. QED
      BY <3>1, <3>4
  <2>2. CASE ~(body.ok /\ got.ok)
    BY <2>2 DEF Parse
  <2>3. QED
    BY <2>1, <2>2
<1> HIDE DEF body, got
<1>2. UNCHANGED <<server, stream, table, threshold, decryptor, length, data, writing>>
  BY DEF Parse
<1>3. Typed'
  BY <1>1, <1>2 DEF WriteInv, Typed, server, writing
<1>4. WrittenSoFar'
  BY <1>2, WrittenStays DEF writing
<1>5. QED
  BY <1>3, <1>4 DEF WriteInv

\* What the reactor takes the threshold from.
LEMMA ThresholdIs ==
  ASSUME Answers(packet), Is("login", SetCompression), \A i \in Reads : Has(i)
  PROVE  packet.set[1].value[1] \in VarInts
<1>1. 1 \in Reads
  <2>1. ~Is("login", Disconnect) /\ ~Is("play", DisconnectPlay) /\ ~Is("play", PositionAndLook)
    BY DEF Is, SetCompression, Disconnect
  <2>2. Reads = {1}
    BY <2>1, Zenon DEF Reads
  <2>3. QED
    BY <2>2
<1>2. 1 \in DOMAIN packet.set /\ packet.set[1].ok
  BY <1>1 DEF Has
<1>3. Filled(packet.set, FieldsOf("login", SetCompression))
  BY DEF Answers, Answerable, Is
<1>4. FieldsOf("login", SetCompression) = <<"VarInt">>
  BY EntriesAre DEF FieldsOf, ClientboundPackets
<1>5. packet.set[1].value \in ValuesOf(<<"VarInt">>[1])
  BY <1>2, <1>3, <1>4, Zenon DEF Filled
<1>6. packet.set[1].value \in Numbers
  BY <1>5 DEF ValuesOf
<1>7. QED
  BY <1>6 DEF Numbers

LEMMA ReactWrites == WriteInv /\ React => WriteInv'
<1> SUFFICES ASSUME WriteInv, React PROVE WriteInv'
  OBVIOUS
<1>1. pc = "reacting" /\ Answers(packet) /\ queue \in Seq(Queuable)
      /\ threshold \in VarInts \cup {Off} /\ table \in {"login", "play"}
  BY DEF WriteInv, Typed, React
<1>2. UNCHANGED <<server, stream, decryptor, length, data, packet, written, unsent, encryptor,
                  chats>>
  BY DEF React
<1>3. /\ pc' \in {"listening", "broken"} /\ queue' \in Seq(Queuable)
      /\ threshold' \in VarInts \cup {Off} /\ table' \in {"login", "play"}
  <2>1. CASE \A i \in Reads : Has(i)
    <3>1. /\ pc' = "listening" /\ queue' = queue \o Answer
          /\ table' = IF Is("login", LoginSuccess) THEN "play" ELSE table
          /\ threshold' = IF Is("login", SetCompression) THEN packet.set[1].value[1]
                          ELSE threshold
      BY <2>1 DEF React
    <3>2. Answer \in Seq(Queuable)
      BY <1>1, <2>1, AnswerQueuable
    <3>3. queue' \in Seq(Queuable)
      BY <1>1, <3>1, <3>2, ConcatProperties
    <3>4. Is("login", SetCompression) => packet.set[1].value[1] \in VarInts
      BY <1>1, <2>1, ThresholdIs
    <3>5. QED
      BY <1>1, <3>1, <3>3, <3>4
  <2>2. CASE ~(\A i \in Reads : Has(i))
    BY <1>1, <2>2 DEF React
  <2>3. QED
    BY <2>1, <2>2
<1>4. Typed'
  BY <1>2, <1>3 DEF WriteInv, Typed, server
<1>5. WrittenSoFar'
  BY <1>2, WrittenStays
<1>6. QED
  BY <1>4, <1>5 DEF WriteInv

LEMMA ListenWrites == WriteInv /\ Listen => WriteInv'
<1> SUFFICES ASSUME WriteInv, Listen PROVE WriteInv'
  OBVIOUS
<1>1. UNCHANGED <<server, stream, table, threshold, decryptor, length, data, packet, writing>>
  BY DEF Listen
<1>2. pc' \in {"waiting", "listening", "broken"}
  BY DEF Listen
<1>3. Typed'
  BY <1>1, <1>2 DEF WriteInv, Typed, server, writing
<1>4. WrittenSoFar'
  BY <1>1, WrittenStays DEF writing
<1>5. QED
  BY <1>3, <1>4 DEF WriteInv

LEMMA ChatWrites == WriteInv /\ Chat => WriteInv'
<1> SUFFICES ASSUME WriteInv, Chat PROVE WriteInv'
  OBVIOUS
<1>1. UNCHANGED <<server, stream, client, written, unsent, encryptor>> /\ chats' = chats + 1
  BY DEF Chat
<1>2. PICK m \in Messages : queue' = Append(queue, [kind |-> "chat", values |-> <<m>>])
  BY DEF Chat
<1> DEFINE q == [kind |-> "chat", values |-> <<m>>]
<1>3. q \in Queuable
  <2>1. <<m>> \in Values /\ Sendable(Built("chat", <<m>>)) /\ "chat" \in DOMAIN ServerboundPackets
    BY ChatBuilt, KindsAre
  <2>2. QED
    BY <2>1 DEF Queuable
<1>4. queue \in Seq(Queuable) /\ chats' \in Nat
  BY <1>1 DEF WriteInv, Typed
<1>5. queue' = Append(queue, q)
  BY <1>2
<1> HIDE DEF q
<1>6. queue' \in Seq(Queuable)
  BY <1>3, <1>4, <1>5, AppendProperties
<1>7. Typed'
  BY <1>1, <1>4, <1>6 DEF WriteInv, Typed, server, client
<1>8. WrittenSoFar'
  BY <1>1, WrittenStays
<1>9. QED
  BY <1>7, <1>8 DEF WriteInv

\* The bytes of the packet at the head of the queue follow those before.
LEMMA WriteWrites == WriteInv /\ Write => WriteInv'
<1> SUFFICES ASSUME WriteInv, Write PROVE WriteInv'
  OBVIOUS
<1> DEFINE q == Head(queue)
           payload == Built(q.kind, q.values)
           bytes == Encrypted(Framed(payload, threshold), encryptor)
           w == [kind |-> q.kind, values |-> q.values, payload |-> payload,
                 threshold |-> threshold, bytes |-> bytes]
<1>0. PICK n : n = Len(written)
  OBVIOUS
<1>1. /\ queue # <<>> /\ queue' = Tail(queue) /\ written' = Append(written, w)
      /\ encryptor' = AfterByte(bytes, encryptor)
      /\ UNCHANGED <<server, stream, client, unsent, chats>>
  BY DEF Write, Built
<1>2. /\ queue \in Seq(Queuable) /\ threshold \in VarInts \cup {Off} /\ encryptor \in States
      /\ written \in Seq(Writings) /\ n \in Nat /\ encryptor = SealedBy(n + 1)
      /\ \A i \in 1 .. n : WellWritten(written[i], SealedBy(i))
  BY <1>0 DEF WriteInv, Typed, WrittenSoFar
<1>3. q \in Queuable /\ queue' \in Seq(Queuable)
  BY <1>1, <1>2, HeadTailProperties
<1>4. q.kind \in DOMAIN ServerboundPackets /\ q.values \in Values /\ Sendable(payload)
  BY <1>3 DEF Queuable
<1>5. bytes \in Seq(Octet) /\ bytes # <<>>
  <2>1. w.payload = payload /\ w.threshold = threshold /\ w.bytes = bytes
    OBVIOUS
  <2> HIDE DEF w, payload
  <2>2. QED
    BY <1>2, <1>4, <2>1, FramedTaken
<1>6. payload \in Seq(Octet)
  BY <1>4 DEF Sendable
<1> HIDE DEF payload, q
<1>7. WellWritten(w, encryptor)
  BY <1>4, <1>5 DEF WellWritten
<1>8. w \in Writings /\ w.bytes = bytes
  BY <1>2, <1>4, <1>5, <1>6 DEF Writings
<1> HIDE DEF w, bytes
<1>9. /\ encryptor' \in States /\ (encryptor' = Clear <=> encryptor = Clear)
      /\ (encryptor' = IF encryptor = Clear THEN Clear ELSE Last(bytes))
  BY <1>1, <1>2, <1>5, AfterType DEF AfterByte, Last
<1>10. /\ written' \in Seq(Writings) /\ Len(written') = n + 1 /\ written'[n + 1] = w
       /\ \A i \in 1 .. n : written'[i] = written[i]
  BY <1>0, <1>1, <1>2, <1>8, AppendProperties
<1>11. ASSUME NEW i \in 1 .. n + 1
       PROVE  SealedBy(i)' = SealedBy(i)
  <2>1. i # 1 => written'[i - 1] = written[i - 1]
    BY <1>2, <1>10
  <2>2. QED
    BY <1>9, <2>1 DEF SealedBy
<1>12. SealedBy(n + 2)' = encryptor'
  <2>1. n + 2 # 1 /\ (n + 2) - 1 = n + 1
    BY <1>2
  <2>2. QED
    BY <1>8, <1>9, <1>10, <2>1 DEF SealedBy
<1>13. ASSUME NEW i \in 1 .. n + 1
       PROVE  WellWritten(written'[i], SealedBy(i)')
  <2>1. CASE i = n + 1
    BY <1>2, <1>7, <1>10, <1>11, <2>1
  <2>2. CASE i # n + 1
    <3>1. i \in 1 .. n
      BY <1>2, <2>2
    <3>2. QED
      BY <1>2, <1>10, <1>11, <3>1
  <2>3. QED
    BY <2>1, <2>2
<1>14. WrittenSoFar'
  <2>1. (n + 1) + 1 = n + 2
    BY <1>2
  <2>2. QED
    BY <1>9, <1>10, <1>12, <1>13, <2>1 DEF WrittenSoFar
<1>15. Typed'
  BY <1>1, <1>3 DEF WriteInv, Typed, server, client
<1>16. QED
  BY <1>14, <1>15 DEF WriteInv

\* A packet that raises is only taken from the queue.
LEMMA RaisesWrites == WriteInv /\ WriteRaises => WriteInv'
<1> SUFFICES ASSUME WriteInv, WriteRaises PROVE WriteInv'
  OBVIOUS
<1>1. /\ queue # <<>> /\ queue' = Tail(queue) /\ unsent' = <<Head(queue)>> /\ pc' = "failed"
      /\ UNCHANGED <<server, stream, table, decryptor, threshold, length, data, packet,
                     written, encryptor, chats>>
  BY DEF WriteRaises
<1>2. queue \in Seq(Queuable)
  BY DEF WriteInv, Typed
<1>3. Head(queue) \in Queuable /\ queue' \in Seq(Queuable)
  BY <1>1, <1>2, HeadTailProperties
<1>4. unsent' \in Seq(Queuable)
  BY <1>1, <1>3
<1>5. Typed'
  BY <1>1, <1>3, <1>4 DEF WriteInv, Typed, server
<1>6. WrittenSoFar'
  BY <1>1, WrittenStays
<1>7. QED
  BY <1>5, <1>6 DEF WriteInv

LEMMA StepWrite == ReadInv /\ WriteInv /\ [Next]_vars => WriteInv'
<1> SUFFICES ASSUME ReadInv, WriteInv, [Next]_vars PROVE WriteInv'
  OBVIOUS
<1>1. CASE Server
  BY <1>1, ServerWrites
<1>2. CASE ReadLength \/ ReadBody \/ Parse
  BY <1>2, LengthWrites, BodyWrites, ParseWrites
<1>3. CASE React \/ Listen \/ Write \/ WriteRaises
  BY <1>3, ReactWrites, ListenWrites, WriteWrites, RaisesWrites
<1>4. CASE Chat
  BY <1>4, ChatWrites
<1>5. CASE Registering \/ UNCHANGED vars
  <2>1. UNCHANGED <<server, stream, client, writing>>
    BY <1>5 DEF Registering, vars
  <2>2. Typed'
    BY <2>1 DEF WriteInv, Typed, server, client, writing
  <2>3. WrittenSoFar'
    BY <2>1, WrittenStays DEF writing
  <2>4. QED
    BY <2>2, <2>3 DEF WriteInv
<1>6. QED
  BY <1>1, <1>2, <1>3, <1>4, <1>5 DEF Next, Thread

\* connection.py:209-347: whatever the server sends and the application writes and
\* registers, the variables of the thread keep their types: what is read is made of
\* bytes, and what the reactor queues in answer can be written.
THEOREM PacketTyping == Spec => []TypeOK
<1> DEFINE Inv == ListenInv /\ ReadInv /\ WriteInv
<1>1. Init => Inv
  BY InitListen, InitRead, InitWrite
<1>2. Inv /\ [Next]_vars => Inv'
  BY StepListen, StepRead, StepWrite
<1>3. Inv => TypeOK
  BY InvTypeOK
<1>4. QED
  BY <1>1, <1>2, <1>3, PTL DEF Spec

\* Packet.write (packets.py) and encryption.py: the server, whose decryptor goes on from the
\* packet before, takes every packet as it was written, whatever the threshold was when
\* it left: it finds the payload in it, and the size it has been given.
THEOREM ServerReadsWritten == Spec => []ServerTakes
<1> DEFINE Inv == ReadInv /\ WriteInv
<1>1. Init => Inv
  BY InitRead, InitWrite
<1>2. Inv /\ [Next]_vars => Inv'
  BY StepRead, StepWrite
<1>3. Inv => ServerTakes
  BY InvTakes
<1>4. QED
  BY <1>1, <1>2, <1>3, PTL DEF Spec
-----------------------------------------------------------------------------
(* What is in a packet, and what the client makes of it *)

\* What a server puts into a packet when it has set the threshold t, and the packet.
Inner(payload, t) ==
  IF t # Off /\ Len(payload) >= t THEN Zipped(payload)
  ELSE IF t = Off THEN payload ELSE Plain(payload)
Wrapped(payload, t, d) == Encrypted(Prefixed(Inner(payload, t)), d)

LEMMA ServerPacks == \A payload, d : Encrypted(ServerFramed(payload), d) = Wrapped(payload, sets, d)
BY DEF ServerFramed, Wrapped, Inner, Zips

LEMMA InnerIs ==
  ASSUME NEW payload, Sendable(payload), NEW t
  PROVE  /\ payload \in Seq(Octet) /\ Len(payload) \in VarInts
         /\ Inner(payload, t) \in Seq(Octet) /\ Len(Inner(payload, t)) \in VarInts
<1>1. Inner(payload, t) \in {payload, Zipped(payload), Plain(payload)}
  BY DEF Inner
<1>2. QED
  BY <1>1, BodyIs DEF Sendable

\* The bytes of a packet, and what a decryptor in the state d makes of them.
LEMMA PackedIs ==
  ASSUME NEW payload, Sendable(payload), NEW t, NEW d \in States
  PROVE  LET body == Inner(payload, t)
             z == Wrapped(payload, t, d)
         IN  /\ z \in Seq(Octet) /\ Decrypted(z, d) = Sent(Len(body)) \o body
             /\ Sent(Len(body)) \in Seq(Octet) /\ Len(Sent(Len(body))) \in 1 .. 5
             /\ Len(z) = Len(Sent(Len(body))) + Len(body)
             /\ Whole(Decrypted(z, d)) /\ Received(Decrypted(z, d)) = Len(body)
             /\ Used(Decrypted(z, d)) = Len(Sent(Len(body)))
<1> DEFINE body == Inner(payload, t)
           n == Sent(Len(body))
           q == n \o body
           z == Wrapped(payload, t, d)
<1>1. body \in Seq(Octet) /\ Len(body) \in VarInts
  BY InnerIs
<1>2. z = Encrypted(q, d)
  BY DEF Wrapped, Prefixed
<1> HIDE DEF body
<1>3. n \in Seq(Octet) /\ Len(n) \in 1 .. 5
  BY <1>1, SentIs, SizeIs
<1>4. Whole(q) /\ Used(q) = Len(n) /\ Received(q) = Len(body)
  BY <1>1, VarIntRoundTrip
<1> HIDE DEF n
<1>5. q \in Seq(Octet) /\ Len(q) = Len(n) + Len(body)
  BY <1>1, <1>3, ConcatProperties, Zenon
<1> HIDE DEF q, z
<1>6. z \in Seq(Octet) /\ Len(z) = Len(q) /\ Decrypted(z, d) = q
  BY <1>2, <1>5, CipherRoundTrip
<1>7. QED
  BY <1>3, <1>4, <1>5, <1>6 DEF q, n, body, z

\* The length of a packet, whatever follows it.
LEMMA LengthOf ==
  ASSUME NEW z \in Seq(Octet), NEW r \in Seq(Octet), NEW d \in States, Whole(Decrypted(z, d))
  PROVE  /\ Received(Decrypted(z \o r, d)) = Received(Decrypted(z, d))
         /\ Used(Decrypted(z \o r, d)) = Used(Decrypted(z, d))
<1> DEFINE p == Decrypted(z, d)
           q == Decrypted(z \o r, d)
<1>1. /\ p \in Seq(Octet) /\ q \in Seq(Octet) /\ Len(p) = Len(z) /\ Len(z) <= Len(q)
      /\ \A i \in 1 .. Len(z) : p[i] = q[i]
  BY BeginsAlike, Zenon
<1>2. Whole(p)
  OBVIOUS
<1> HIDE DEF p, q
<1>3. Received(q) = Received(p) /\ Used(q) = Used(p)
  BY <1>1, <1>2, WholeAgree
<1>4. QED
  BY <1>3, Zenon DEF p, q

LEMMA JoinBegins ==
  ASSUME NEW S, NEW x \in Seq(S), NEW y \in Seq(S)
  PROVE  /\ x \o y \in Seq(S) /\ Len(x \o y) \in Nat /\ Len(x) <= Len(x \o y)
         /\ \A i \in 1 .. Len(x) : (x \o y)[i] = x[i]
<1> DEFINE s == x \o y
<1>1. /\ s \in Seq(S) /\ Len(s) = Len(x) + Len(y)
      /\ \A i \in 1 .. Len(x) + Len(y) : s[i] = IF i <= Len(x) THEN x[i] ELSE y[i - Len(x)]
  BY ConcatProperties
<1>2. Len(x) \in Nat /\ Len(y) \in Nat
  OBVIOUS
<1> HIDE DEF s
<1>3. /\ s \in Seq(S) /\ Len(s) \in Nat /\ Len(x) <= Len(s)
      /\ \A i \in 1 .. Len(x) : s[i] = x[i]
  BY <1>1, <1>2
<1>4. QED
  BY <1>3 DEF s

\* The rest of a packet, deciphered from a byte on.
LEMMA BodyOf ==
  ASSUME NEW z \in Seq(Octet), NEW r \in Seq(Octet), NEW d \in States,
         NEW u \in 1 .. Len(z), NEW l \in Nat, u + l = Len(z)
  PROVE  Took(l, Decrypted(Left(u, z) \o r, AfterByte(Took(u, z), d))) = Left(u, Decrypted(z, d))
<1> DEFINE x == Took(u, z)
           y == Left(u, z)
<1>1. u \in 0 .. Len(z) /\ Len(z) \in Nat /\ u \in Nat
  OBVIOUS
<1>2. /\ x \in Seq(Octet) /\ y \in Seq(Octet) /\ Len(x) = u /\ Len(y) = l
  <2>1. x \in Seq(Octet) /\ y \in Seq(Octet) /\ Len(x) = u /\ Len(y) = Len(z) - u
    BY <1>1, Splits
  <2>2. QED
    BY <1>1, <2>1
<1>3. x[u] = z[u] /\ \A i \in 1 .. l : y[i] = z[u + i]
  <2>1. x = SubSeq(z, 1, u) /\ y = SubSeq(z, u + 1, Len(z))
    BY <1>1 DEF Took, Left
  <2>2. (\A i \in 1 .. u : z[i] \in Octet) /\ (\A i \in u + 1 .. Len(z) : z[i] \in Octet)
    BY <1>1
  <2>3. x[u] = z[u]
    BY <1>1, <2>1, <2>2, SubSeqProperties
  <2>4. \A i \in 1 .. Len(z) - u : SubSeq(z, u + 1, Len(z))[i] = z[u + i]
    BY <1>1, <2>2, SubSeqProperties
  <2>5. Len(z) - u = l
    BY <1>1
  <2>6. QED
    BY <2>1, <2>3, <2>4, <2>5
<1> HIDE DEF x, y
<1>4. PICK s : /\ s = y \o r /\ s \in Seq(Octet) /\ Len(s) \in Nat /\ l <= Len(s)
               /\ \A i \in 1 .. l : s[i] = y[i]
  <2>1. y \in Seq(Octet) /\ r \in Seq(Octet)
    BY <1>2
  <2>2. /\ y \o r \in Seq(Octet) /\ Len(y \o r) \in Nat /\ Len(y) <= Len(y \o r)
        /\ \A i \in 1 .. Len(y) : (y \o r)[i] = y[i]
    BY <2>1, JoinBegins
  <2>3. QED
    BY <1>2, <2>2, Zenon
<1> DEFINE c == AfterByte(x, d)
           p == Decrypted(s, c)
           q == Decrypted(z, d)
<1>5. c \in States /\ (c = Clear <=> d = Clear) /\ (c = IF d = Clear THEN Clear ELSE z[u])
  <2>1. c \in States /\ (c = Clear <=> d = Clear)
    BY <1>2, AfterType
  <2>2. x # <<>> /\ x[Len(x)] = z[u]
    BY <1>2, <1>3
  <2>3. AfterByte(x, d) = IF d = Clear THEN Clear ELSE z[u]
    BY <2>2, Zenon DEF AfterByte
  <2>4. QED
    BY <2>1, <2>3
<1> HIDE DEF c
<1>6. p \in Seq(Octet) /\ Len(p) = Len(s) /\ q \in Seq(Octet) /\ Len(q) = Len(z)
  BY <1>4, <1>5, DecryptedIs
<1>7. ASSUME NEW i \in 1 .. l
      PROVE  p[i] = q[u + i]
  <2>1. i \in 1 .. Len(s) /\ u + i \in 1 .. Len(z) /\ s[i] = z[u + i]
    <3>1. i \in 1 .. Len(s) /\ u + i \in 1 .. Len(z)
      BY <1>1, <1>4
    <3>2. s[i] = y[i] /\ y[i] = z[u + i]
      BY <1>3, <1>4
    <3>3. QED
      BY <3>1, <3>2
  <2>2. i # 1 => s[i - 1] = z[(u + i) - 1]
    <3> SUFFICES ASSUME i # 1 PROVE s[i - 1] = z[(u + i) - 1]
      OBVIOUS
    <3>1. i - 1 \in 1 .. l /\ u + (i - 1) = (u + i) - 1
      BY <1>1
    <3>2. s[i - 1] = y[i - 1] /\ y[i - 1] = z[u + (i - 1)]
      BY <1>3, <1>4, <3>1
    <3>3. QED
      BY <3>1, <3>2
  <2>3. i = 1 => (u + i) - 1 = u /\ u + i # 1
    BY <1>1
  <2>4. u + i # 1
    BY <1>1
  <2>5. CASE d = Clear
    BY <1>5, <2>1, <2>5 DEF Decrypted
  <2>6. CASE d # Clear
    <3>1. p[i] = (s[i] - Mask(IF i = 1 THEN c ELSE s[i - 1])) % (2 * Group)
      BY <1>5, <2>1, <2>6 DEF Decrypted
    <3>2. q[u + i] = (z[u + i] - Mask(IF u + i = 1 THEN d ELSE z[(u + i) - 1])) % (2 * Group)
      BY <2>1, <2>6 DEF Decrypted
    <3>3. (IF i = 1 THEN c ELSE s[i - 1]) = (IF u + i = 1 THEN d ELSE z[(u + i) - 1])
      BY <1>5, <2>2, <2>3, <2>4, <2>6
    <3>4. QED
      BY <2>1, <3>1, <3>2, <3>3
  <2>7. QED
    BY <2>5, <2>6
<1> HIDE DEF p, q
<1>8. /\ Took(l, p) \in Seq(Octet) /\ Len(Took(l, p)) = l
      /\ \A i \in 1 .. l : Took(l, p)[i] = p[i]
  <2>1. Took(l, p) = SubSeq(p, 1, l)
    BY <1>4, <1>6 DEF Took
  <2>2. \A i \in 1 .. l : p[i] \in Octet
    BY <1>4, <1>6
  <2>3. QED
    BY <1>4, <1>6, <2>1, <2>2, SubSeqProperties
<1>9. /\ Left(u, q) \in Seq(Octet) /\ Len(Left(u, q)) = l
      /\ \A i \in 1 .. l : Left(u, q)[i] = q[u + i]
  <2>1. Left(u, q) = SubSeq(q, u + 1, Len(q))
    BY DEF Left
  <2>2. \A i \in u + 1 .. Len(q) : q[i] \in Octet
    BY <1>1, <1>6
  <2>3. Len(q) - u = l
    BY <1>1, <1>6
  <2>4. /\ Left(u, q) \in Seq(Octet) /\ Len(Left(u, q)) = Len(q) - u
        /\ \A i \in 1 .. Len(q) - u : Left(u, q)[i] = q[u + i]
    BY <1>1, <1>6, <2>1, <2>2, SubSeqProperties
  <2>5. QED
    BY <2>3, <2>4
<1>10. \A i \in 1 .. l : Took(l, p)[i] = Left(u, q)[i]
  BY <1>7, <1>8, <1>9
<1>11. Took(l, p) = Left(u, q)
  BY <1>8, <1>9, <1>10, SeqEqual
<1>12. QED
  BY <1>4, <1>11 DEF p, q, c, x, y

\* What decompress makes of what has lost its end.
LEMMA EndStays ==
  ASSUME NEW x \in Seq(Octet), Folded(x).ok, NEW y \in Seq(Octet)
  PROVE  Folded(x \o y).ok
<1> DEFINE T == {t \in Seq(Octet) : Folded(x \o t).ok}
<1>1. <<>> \in T
  BY ConcatEmptySeq
<1>2. ASSUME NEW t \in T, NEW b \in Octet
      PROVE  Append(t, b) \in T
  <2> DEFINE z == x \o t
  <2>1. t \in Seq(Octet) /\ z \in Seq(Octet) /\ Folded(z).ok
    BY ConcatProperties, Zenon
  <2>2. x \o Append(t, b) = Append(z, b)
    BY <2>1, Regroup, Zenon
  <2> HIDE DEF z
  <2>3. Folded(Append(z, b)) = Unpacked(Folded(z), b)
    BY <2>1, FoldedIs
  <2>4. Unpacked(Folded(z), b) = Folded(z)
    BY <2>1, Zenon DEF Unpacked
  <2>5. Append(t, b) \in Seq(Octet)
    BY <2>1, AppendProperties
  <2>6. QED
    BY <2>1, <2>2, <2>3, <2>4, <2>5
<1>3. T \in SUBSET Seq(Octet)
  OBVIOUS
<1> HIDE DEF T
<1>4. y \in T
  BY <1>1, <1>2, <1>3, InductSeq
<1>5. QED
  BY <1>4 DEF T

LEMMA ZipCut ==
  ASSUME NEW s \in Seq(Octet), NEW n \in Nat, n < Len(Compressed(s))
  PROVE  ~Decompressed(Took(n, Compressed(s))).ok
<1>1. PICK x : /\ x = Fold(Compressing, <<>>, s) /\ x \in Seq(Octet) /\ Folded(x) = Halfway(s)
               /\ Compressed(s) = Append(x, 0)
  BY BeforeMark, CompressedFolds, Zenon
<1>2. 0 \in Octet /\ Len(x) \in Nat
  BY <1>1, VarIntAssumption DEF VarIntAssumption, Octet
<1>3. Append(x, 0) = x \o <<0>> /\ <<0>> \in Seq(Octet) /\ Len(Append(x, 0)) = Len(x) + 1
  BY <1>1, <1>2
<1>4. n \in 0 .. Len(x)
  BY <1>1, <1>2, <1>3
<1>5. Took(n, Compressed(s)) = Took(n, x)
  <2>1. PICK m : m = <<0>> /\ m \in Seq(Octet) /\ Compressed(s) = x \o m
    BY <1>1, <1>3
  <2>2. Took(n, x \o m) = Took(n, x)
    BY <1>1, <1>4, <2>1, PartOfJoined
  <2>3. QED
    BY <2>1, <2>2, Zenon
<1>6. PICK y, z : /\ y = Took(n, x) /\ y \in Seq(Octet) /\ z \in Seq(Octet) /\ y \o z = x
  <2>1. /\ Took(n, x) \in Seq(Octet) /\ Left(n, x) \in Seq(Octet)
        /\ Took(n, x) \o Left(n, x) = x
    BY <1>1, <1>4, Splits
  <2>2. QED
    BY <2>1, Zenon
<1>7. ~Folded(y).ok
  <2> SUFFICES ASSUME Folded(y).ok PROVE FALSE
    OBVIOUS
  <2>1. Folded(y \o z).ok
    BY <1>6, EndStays
  <2>2. Folded(x).ok
    BY <1>6, <2>1, Zenon
  <2>3. QED
    BY <1>1, <2>2 DEF Halfway
<1>8. Decompressed(y) = Folded(y)
  BY <1>6, DecompressedFolds
<1>9. QED
  BY <1>5, <1>6, <1>7, <1>8, Zenon

\* What the client makes of the inside of a packet.
LEMMA UnwrapSent ==
  ASSUME NEW p, Sendable(p), p # <<>>, NEW t \in VarInts \cup {Off},
         NEW got, got = Unwrapped(Inner(p, t), t # Off)
  PROVE  /\ got.ok => got.value = p
         /\ ~got.ok => t # Off /\ Len(p) >= t /\ Len(Compressed(p)) > Len(p)
<1>1. p \in Seq(Octet) /\ Len(p) \in VarInts /\ 0 \in VarInts
  <2>1. p \in Seq(Octet) /\ Len(p) \in VarInts
    BY InnerIs, Zenon
  <2>2. 0 \in VarInts
    BY SmallNumbers
  <2>3. QED
    BY <2>1, <2>2
<1>2. CASE t = Off
  <2>1. Inner(p, t) = p
    BY <1>2, Zenon DEF Inner
  <2>2. ASSUME NEW z, NEW e, ~e PROVE Unwrapped(z, e) = Got(z, <<>>)
    BY <2>2, Zenon DEF Unwrapped
  <2>3. ~(t # Off)
    BY <1>2
  <2>4. got = Got(p, <<>>)
    BY <2>1, <2>2, <2>3
  <2>5. QED
    BY <2>4 DEF Got
<1>3. CASE t # Off /\ Len(p) >= t
  <2>1. PICK z : z = Compressed(p) /\ z \in Seq(Octet) /\ Decompressed(z).ok /\ Decompressed(z).value = p
    <3>1. Compressed(p) \in Seq(Octet)
      BY <1>1, CompressedIs
    <3>2. Decompressed(Compressed(p)) = [ok |-> TRUE, times |-> 0, value |-> p]
      BY <1>1, ZipRoundTrip
    <3>3. QED
      BY <3>1, <3>2
  <2>2. Inner(p, t) = Sent(Len(p)) \o z
    BY <1>3, <2>1, Zenon DEF Inner, Zipped
  <2>3. PICK n : n = Len(p) /\ n \in Nat /\ n # 0 /\ n \in VarInts
    <3>1. Len(p) \in Nat /\ Len(p) # 0
      BY <1>1
    <3>2. QED
      BY <1>1, <3>1
  <2>4. ReadVarInt(Inner(p, t)) = Got(<<n>>, z)
    BY <1>1, <2>1, <2>2, <2>3, NumberFirst, Zenon
  <2>5. PICK r : r = ReadVarInt(Inner(p, t)) /\ r.ok /\ r.value[1] = n /\ r.rest = z
    BY <2>4 DEF Got
  <2>6. PICK d : d = Decompressed(Took(n, z)) /\ got = [ok |-> d.ok, value |-> d.value, rest |-> <<>>]
    <3>1. got = [ok |-> Decompressed(Took(r.value[1], r.rest)).ok,
                 value |-> Decompressed(Took(r.value[1], r.rest)).value, rest |-> <<>>]
      BY <1>3, <2>3, <2>5, Zenon DEF Unwrapped
    <3>2. QED
      BY <2>5, <3>1, Zenon
  <2>7. CASE Len(z) <= n
    <3>1. Took(n, z) = z
      <4>1. Took(n, z) = SubSeq(z, 1, Len(z))
        BY <2>1, <2>3, <2>7 DEF Took
      <4>2. QED
        BY <2>1, <4>1
    <3>2. d.ok /\ d.value = p
      BY <2>1, <2>6, <3>1
    <3>3. QED
      BY <2>6, <3>2
  <2>8. CASE ~(Len(z) <= n)
    <3>1. n < Len(z) /\ Len(z) > n
      BY <2>1, <2>3, <2>8
    <3>2. ~d.ok
      BY <1>1, <2>1, <2>3, <2>6, <3>1, ZipCut
    <3>3. QED
      BY <1>3, <2>1, <2>3, <2>6, <3>1, <3>2
  <2>9. QED
    BY <2>7, <2>8
<1>4. CASE t # Off /\ ~(Len(p) >= t)
  <2>1. Inner(p, t) = Sent(0) \o p
    BY <1>4, Zenon DEF Inner, Plain
  <2>2. ReadVarInt(Inner(p, t)) = Got(<<0>>, p)
    BY <1>1, <2>1, NumberFirst, Zenon
  <2>3. PICK r : r = ReadVarInt(Inner(p, t)) /\ r.ok /\ r.value[1] = 0 /\ r.rest = p
    BY <2>2 DEF Got
  <2>4. got = Got(p, <<>>)
    BY <1>4, <2>3, Zenon DEF Unwrapped
  <2>5. QED
    BY <2>4 DEF Got
<1>5. QED
  BY <1>2, <1>3, <1>4
-----------------------------------------------------------------------------
(* The types in the tables *)

\* The types of the fields in the tables.
Types == DOMAIN Width \cup {"VarInt", "String", "VarIntPrefixedByteArray", "NBT", "Slot",
                            "SlotArray", "TripleByteArray", "RecordArray", NoDict}

Rows(R, s, n) == s \in Seq(R) /\ Len(s) = n

LEMMA RowsJoined ==
  ASSUME NEW R, NEW n \in Nat, NEW m \in Nat, NEW s, NEW t, Rows(R, s, n), Rows(R, t, m)
  PROVE  Rows(R, s \o t, n + m)
<1>1. s \o t \in Seq(R) /\ Len(s \o t) = Len(s) + Len(t)
  BY ConcatProperties, Zenon DEF Rows
<1>2. QED
  BY <1>1, Zenon DEF Rows

LEMMA TablesTyped ==
  /\ PlayingClientbound \in Seq(Seq(Types)) /\ Len(PlayingClientbound) = 77
  /\ LoginClientbound \in Seq(Seq(Types)) /\ Len(LoginClientbound) = 4
<1> DEFINE R == Seq(Types)
<1>1. Rows(R, Spawning, 6)
  BY DEF Spawning, Types, Width, Rows
<1>2. Rows(R, Blocks, 7)
  BY DEF Blocks, Types, Width, Rows
<1>3. Rows(R, Windows, 12)
  BY DEF Windows, Types, Width, Rows
<1>4. Rows(R, Effects, 10)
  BY DEF Effects, Types, Width, Rows
<1>5. Rows(R, Moves, 12)
  BY DEF Moves, Types, Width, Rows
<1>6. Rows(R, Entities, 13)
  BY DEF Entities, Types, Width, Rows
<1>7. Rows(R, Scores, 11)
  BY DEF Scores, Types, Width, Rows
<1>8. Rows(R, Others, 6)
  BY DEF Others, Types, Width, Rows
<1>9. Rows(R, LoginClientbound, 4)
  BY DEF LoginClientbound, Types, Width, Rows
<1> HIDE DEF R
<1> DEFINE p1 == Spawning \o Blocks
           p2 == p1 \o Windows
           p3 == p2 \o Effects
           p4 == p3 \o Moves
           p5 == p4 \o Entities
           p6 == p5 \o Scores
           p7 == p6 \o Others
<1>10. PlayingClientbound = p7
  BY DEF PlayingClientbound
<1>11. Rows(R, p1, 13)
  <2>1. PICK n, m \in Nat : n = 6 /\ m = 7 /\ n + m = 13
    OBVIOUS
  <2>2. Rows(R, p1, n + m)
    BY <1>1, <1>2, <2>1, RowsJoined, Zenon
  <2>3. QED
    BY <2>1, <2>2, Zenon
<1> HIDE DEF p1
<1>12. Rows(R, p2, 25)
  <2>1. PICK n, m \in Nat : n = 13 /\ m = 12 /\ n + m = 25
    OBVIOUS
  <2>2. Rows(R, p2, n + m)
    BY <1>11, <1>3, <2>1, RowsJoined, Zenon
  <2>3. QED
    BY <2>1, <2>2, Zenon
<1> HIDE DEF p2
<1>13. Rows(R, p3, 35)
  <2>1. PICK n, m \in Nat : n = 25 /\ m = 10 /\ n + m = 35
    OBVIOUS
  <2>2. Rows(R, p3, n + m)
    BY <1>12, <1>4, <2>1, RowsJoined, Zenon
  <2>3. QED
    BY <2>1, <2>2, Zenon
<1> HIDE DEF p3
<1>14. Rows(R, p4, 47)
  <2>1. PICK n, m \in Nat : n = 35 /\ m = 12 /\ n + m = 47
    OBVIOUS
  <2>2. Rows(R, p4, n + m)
    BY <1>13, <1>5, <2>1, RowsJoined, Zenon
  <2>3. QED
    BY <2>1, <2>2, Zenon
<1> HIDE DEF p4
<1>15. Rows(R, p5, 60)
  <2>1. PICK n, m \in Nat : n = 47 /\ m = 13 /\ n + m = 60
    OBVIOUS
  <2>2. Rows(R, p5, n + m)
    BY <1>14, <1>6, <2>1, RowsJoined, Zenon
  <2>3. QED
    BY <2>1, <2>2, Zenon
<1> HIDE DEF p5
<1>16. Rows(R, p6, 71)
  <2>1. PICK n, m \in Nat : n = 60 /\ m = 11 /\ n + m = 71
    OBVIOUS
  <2>2. Rows(R, p6, n + m)
    BY <1>15, <1>7, <2>1, RowsJoined, Zenon
  <2>3. QED
    BY <2>1, <2>2, Zenon
<1> HIDE DEF p6
<1>17. Rows(R, p7, 77)
  <2>1. PICK n, m \in Nat : n = 71 /\ m = 6 /\ n + m = 77
    OBVIOUS
  <2>2. Rows(R, p7, n + m)
    BY <1>16, <1>8, <2>1, RowsJoined, Zenon
  <2>3. QED
    BY <2>1, <2>2, Zenon
<1>18. QED
  BY <1>9, <1>10, <1>17, Zenon DEF R, Rows
-----------------------------------------------------------------------------
(* What a server writes in the fields of a packet *)

Bytes == {"VarIntPrefixedByteArray", "String"}

LEMMA SendIsAll ==
  /\ \A type \in DOMAIN Width \cup {"NBT", "Slot", NoDict} : \A v : Send(type, v) = v
  /\ \A v : Send("VarInt", v) = Sent(v[1])
  /\ \A type \in Bytes : \A v : Send(type, v) = Sent(Len(v)) \o v
  /\ \A v : Send("SlotArray", v) = Packed(2, Len(v)) \o FlattenSeq(v)
  /\ \A v : Send("TripleByteArray", v) = Packed(4, Len(v)) \o FlattenSeq(v)
  /\ \A v : Send("RecordArray", v) =
       Sent(Len(v)) \o FlattenSeq([i \in DOMAIN v |-> SubSeq(v[i], 1, 2) \o Sent(v[i][3])])
<1> DEFINE Asis == DOMAIN Width \cup {"NBT", "Slot", NoDict}
<1>1. /\ "VarInt" \notin Asis /\ "String" \notin Asis /\ "VarIntPrefixedByteArray" \notin Asis
      /\ "SlotArray" \notin Asis /\ "TripleByteArray" \notin Asis /\ "RecordArray" \notin Asis
  BY DEF Width, NoDict
<1>2. ASSUME NEW type \in Asis, NEW v PROVE Send(type, v) = v
  <2>1. type \notin {"VarInt", "String", "VarIntPrefixedByteArray", "SlotArray",
                     "TripleByteArray", "RecordArray"}
    BY <1>1, <1>2
  <2>2. QED
    BY <1>2, <2>1, Zenon DEF Send
<1>3. ASSUME NEW v PROVE Send("VarInt", v) = Sent(v[1])
  BY <1>1, Zenon DEF Send
<1>4. ASSUME NEW type \in Bytes, NEW v PROVE Send(type, v) = Sent(Len(v)) \o v
  <2>1. type \notin Asis /\ type \notin {"VarInt", "SlotArray", "TripleByteArray", "RecordArray"}
    BY <1>1, <1>4 DEF Bytes
  <2>2. type \in {"String", "VarIntPrefixedByteArray"}
    BY <1>4 DEF Bytes
  <2>3. QED
    BY <2>1, <2>2, Zenon DEF Send
<1>5. ASSUME NEW v PROVE Send("SlotArray", v) = Packed(2, Len(v)) \o FlattenSeq(v)
  BY <1>1, Zenon DEF Send
<1>6. ASSUME NEW v PROVE Send("TripleByteArray", v) = Packed(4, Len(v)) \o FlattenSeq(v)
  BY <1>1, Zenon DEF Send
<1>7. ASSUME NEW v
      PROVE Send("RecordArray", v) =
         Sent(Len(v)) \o FlattenSeq([i \in DOMAIN v |-> SubSeq(v[i], 1, 2) \o Sent(v[i][3])])
  BY <1>1, Zenon DEF Send, SendEach
<1>8. QED
  BY <1>2, <1>3, <1>4, <1>5, <1>6, <1>7

LEMMA FitsIs ==
  /\ \A type \in DOMAIN Width : \A v : Fits(type, v) => v \in Seq(Octet) /\ Len(v) = Width[type]
  /\ \A v : Fits("VarInt", v) => v \in Seq(VarInts) /\ Len(v) = 1
  /\ \A v : Fits("String", v) => v \in Seq(Octet) /\ Len(v) \in VarInts /\ Utf8(v)
  /\ \A v : Fits("VarIntPrefixedByteArray", v) => v \in Seq(Octet) /\ Len(v) \in VarInts
  /\ \A v : Fits(NoDict, v) => v \in Seq(Octet)
  /\ \A v : Fits("NBT", v) => v \in Seq(Octet) /\ Len(v) = 1
  /\ \A v : Fits("Slot", v) => IsSlot(v)
  /\ \A v : Fits("SlotArray", v) => Few(IsSlot, v)
  /\ \A v : Fits("TripleByteArray", v) => Few(LAMBDA r : r \in Seq(Octet) /\ Len(r) = 3, v)
  /\ \A v : Fits("RecordArray", v) =>
       Few(LAMBDA r : Len(r) = 3 /\ {r[1], r[2]} \subseteq Octet /\ r[3] \in VarInts, v)
<1> DEFINE W == DOMAIN Width
<1>1. /\ "VarInt" \notin W /\ "String" \notin W /\ "VarIntPrefixedByteArray" \notin W
      /\ "SlotArray" \notin W /\ "TripleByteArray" \notin W /\ "RecordArray" \notin W
      /\ "NBT" \notin W /\ "Slot" \notin W /\ NoDict \notin W
      /\ NoDict \notin {"VarInt", "String", "NBT", "Slot", "SlotArray", "TripleByteArray",
                        "RecordArray"}
  BY DEF Width, NoDict
<1>2. ASSUME NEW type \in W, NEW v, Fits(type, v) PROVE v \in Seq(Octet) /\ Len(v) = Width[type]
  <2>1. type \notin {"VarInt", "String", "VarIntPrefixedByteArray", "SlotArray", "NBT", "Slot",
                     "TripleByteArray", "RecordArray", NoDict}
    BY <1>1, <1>2
  <2>2. QED
    BY <1>2, <2>1, Zenon DEF Fits
<1>3. ASSUME NEW v, Fits("VarInt", v) PROVE v \in Seq(VarInts) /\ Len(v) = 1
  BY <1>1, <1>3, Zenon DEF Fits
<1>4. ASSUME NEW v, Fits("String", v) PROVE v \in Seq(Octet) /\ Len(v) \in VarInts /\ Utf8(v)
  BY <1>1, <1>4, Zenon DEF Fits
<1>5. ASSUME NEW v, Fits("VarIntPrefixedByteArray", v)
      PROVE v \in Seq(Octet) /\ Len(v) \in VarInts
  <2> DEFINE t == "VarIntPrefixedByteArray"
  <2>1. /\ t \notin W /\ t # "VarInt" /\ t # "String" /\ t # NoDict /\ t # "NBT" /\ t # "Slot"
        /\ t # "SlotArray" /\ t # "TripleByteArray" /\ t # "RecordArray"
        /\ t = "VarIntPrefixedByteArray"
    BY <1>1 DEF NoDict
  <2>2. Fits(t, v)
    BY <1>5
  <2> HIDE DEF t
  <2>3. QED
    BY <2>1, <2>2, Zenon DEF Fits
<1>6. ASSUME NEW v, Fits(NoDict, v) PROVE v \in Seq(Octet)
  BY <1>1, <1>6, Zenon DEF Fits
<1>7. ASSUME NEW v, Fits("NBT", v) PROVE v \in Seq(Octet) /\ Len(v) = 1
  BY <1>1, <1>7, Zenon DEF Fits
<1>8. ASSUME NEW v, Fits("Slot", v) PROVE IsSlot(v)
  BY <1>1, <1>8, Zenon DEF Fits
<1>9. ASSUME NEW v, Fits("SlotArray", v) PROVE Few(IsSlot, v)
  BY <1>1, <1>9, Zenon DEF Fits
<1>10. ASSUME NEW v, Fits("TripleByteArray", v)
       PROVE Few(LAMBDA r : r \in Seq(Octet) /\ Len(r) = 3, v)
  BY <1>1, <1>10, Zenon DEF Fits, Few
<1>11. ASSUME NEW v, Fits("RecordArray", v)
       PROVE Few(LAMBDA r : Len(r) = 3 /\ {r[1], r[2]} \subseteq Octet /\ r[3] \in VarInts, v)
  BY <1>1, <1>11, Zenon DEF Fits, Few
<1>12. QED
  BY <1>2, <1>3, <1>4, <1>5, <1>6, <1>7, <1>8, <1>9, <1>10, <1>11

LEMMA FewNumbers == \A n \in Nat : n < Group => n \in VarInts
<1>1. Group \in Nat /\ Group >= 2
  BY VarIntAssumption DEF VarIntAssumption
<1> DEFINE a == Group * Group
           b == Group * a
           c == Group * b
           e == Group * c
<1>2. a \in Nat /\ a >= 1
  BY <1>1
<1> HIDE DEF a
<1>3. b \in Nat /\ b >= 1
  BY <1>1, <1>2
<1> HIDE DEF b
<1>4. c \in Nat /\ c >= 1
  BY <1>1, <1>3
<1> HIDE DEF c
<1>5. e \in Nat /\ e >= Group
  BY <1>1, <1>4
<1>6. VarInts = 0 .. e - 1
  BY Zenon DEF VarInts, a, b, c, e
<1> HIDE DEF e
<1>7. QED
  BY <1>1, <1>5, <1>6

LEMMA PackedType ==
  ASSUME NEW w \in {2, 4}, NEW n \in Nat, n < Group
  PROVE  Packed(w, n) \in Seq(Octet)
<1>1. w \in Nat /\ \A i \in 1 .. w : (IF i = w THEN n ELSE 0) \in Octet
  BY VarIntAssumption DEF VarIntAssumption, Octet
<1>2. QED
  BY <1>1 DEF Packed

LEMMA EachJoined ==
  ASSUME NEW v, v \in Seq(Seq(Nat)), \A i \in DOMAIN v : v[i] \in Seq(Octet)
  PROVE  FlattenSeq(v) \in Seq(Octet)
<1>1. v \in Seq(Seq(Octet))
  <2>1. DOMAIN v = 1 .. Len(v) /\ Len(v) \in Nat /\ v = [i \in 1 .. Len(v) |-> v[i]]
    OBVIOUS
  <2> DEFINE T == Seq(Octet)
  <2>2. \A i \in 1 .. Len(v) : v[i] \in T
    BY <2>1
  <2> HIDE DEF T
  <2>3. v \in Seq(T)
    <3>1. Listed(v, Len(v))
      BY <2>1 DEF Listed
    <3>2. QED
      BY <2>1, <2>2, <3>1, ListedSeq
  <2>4. QED
    BY <2>3 DEF T
<1>2. QED
  BY <1>1, FlattenType

LEMMA JoinType ==
  ASSUME NEW S, NEW x \in Seq(S), NEW y \in Seq(S)
  PROVE  x \o y \in Seq(S)
BY ConcatProperties, Zenon

\* What a server writes in a field is bytes.
LEMMA SendType ==
  ASSUME NEW type \in Types, NEW v, Fits(type, v)
  PROVE  Send(type, v) \in Seq(Octet)
<1>1. CASE type \in DOMAIN Width \cup {"NBT", "Slot", NoDict}
  <2>1. v \in Seq(Octet)
    BY <1>1, FitsIs DEF IsSlot
  <2>2. QED
    BY <1>1, <2>1, SendIsAll
<1>2. CASE type = "VarInt"
  <2>1. v[1] \in VarInts
    BY <1>2, FitsIs
  <2>2. QED
    BY <1>2, <2>1, SendIsAll, SentSizes
<1>3. CASE type = "SlotArray"
  <2>1. Few(IsSlot, v)
    BY <1>3, FitsIs
  <2>2. v \in Seq(Seq(Nat)) /\ Len(v) \in Nat /\ Len(v) < Group /\ \A i \in DOMAIN v : v[i] \in Seq(Octet)
    BY <2>1 DEF Few, IsSlot
  <2>3. Packed(2, Len(v)) \in Seq(Octet) /\ FlattenSeq(v) \in Seq(Octet)
    BY <2>2, PackedType, EachJoined
  <2>4. QED
    BY <1>3, <2>3, SendIsAll, JoinType, Zenon
<1>4. CASE type = "TripleByteArray"
  <2>1. Few(LAMBDA r : r \in Seq(Octet) /\ Len(r) = 3, v)
    BY <1>4, FitsIs
  <2>2. v \in Seq(Seq(Nat)) /\ Len(v) \in Nat /\ Len(v) < Group /\ \A i \in DOMAIN v : v[i] \in Seq(Octet)
    BY <2>1 DEF Few
  <2>3. Packed(4, Len(v)) \in Seq(Octet) /\ FlattenSeq(v) \in Seq(Octet)
    BY <2>2, PackedType, EachJoined
  <2>4. QED
    BY <1>4, <2>3, SendIsAll, JoinType, Zenon
<1>5. CASE type = "RecordArray"
  <2>1. Few(LAMBDA r : Len(r) = 3 /\ {r[1], r[2]} \subseteq Octet /\ r[3] \in VarInts, v)
    BY <1>5, FitsIs
  <2>2. /\ v \in Seq(Seq(Nat)) /\ Len(v) \in Nat /\ Len(v) < Group /\ DOMAIN v = 1 .. Len(v)
        /\ \A i \in DOMAIN v : Len(v[i]) = 3 /\ {v[i][1], v[i][2]} \subseteq Octet /\ v[i][3] \in VarInts
    BY <2>1 DEF Few
  <2> DEFINE w == [i \in DOMAIN v |-> SubSeq(v[i], 1, 2) \o Sent(v[i][3])]
             T == Seq(Octet)
  <2>3. ASSUME NEW i \in DOMAIN v PROVE SubSeq(v[i], 1, 2) \o Sent(v[i][3]) \in T
    <3>1. SubSeq(v[i], 1, 2) \in Seq(Octet)
      <4>1. v[i] \in Seq(Nat) /\ Len(v[i]) = 3 /\ v[i][1] \in Octet /\ v[i][2] \in Octet
        BY <2>2, <2>3
      <4>2. \A j \in 1 .. 2 : v[i][j] \in Octet
        BY <4>1
      <4>3. QED
        BY <4>1, <4>2, SubSeqProperties
    <3>2. Sent(v[i][3]) \in Seq(Octet)
      BY <2>2, <2>3, SentSizes
    <3>3. QED
      BY <3>1, <3>2, JoinType, Zenon
  <2> HIDE DEF T
  <2>4. w \in Seq(T)
    BY <2>2, <2>3
  <2> HIDE DEF w
  <2>5. FlattenSeq(w) \in Seq(Octet)
    BY <2>4, FlattenType DEF T
  <2>6. Sent(Len(v)) \in Seq(Octet)
    <3>1. Len(v) \in VarInts
      BY <2>2, FewNumbers
    <3>2. QED
      BY <3>1, SentSizes
  <2>7. QED
    BY <1>5, <2>5, <2>6, SendIsAll, JoinType, Zenon DEF w
<1>6. CASE type \in Bytes
  <2>1. v \in Seq(Octet) /\ Len(v) \in VarInts
    BY <1>6, FitsIs DEF Bytes
  <2>2. Sent(Len(v)) \in Seq(Octet)
    BY <2>1, SentSizes
  <2>3. Send(type, v) = Sent(Len(v)) \o v
    BY <1>6, SendIsAll, Zenon
  <2>4. QED
    BY <2>1, <2>2, <2>3, JoinType, Zenon
<1>7. QED
  BY <1>1, <1>2, <1>3, <1>4, <1>5, <1>6 DEF Types, Bytes

\* The fields of a packet as a server writes them, one after the other.
LEMMA PayloadBytes ==
  ASSUME NEW id, NEW S, NEW fields \in Seq(S), NEW values,
         \A i \in DOMAIN fields : Send(fields[i], values[i]) \in Seq(Octet)
  PROVE  \E z \in Seq(Octet) :
           /\ z = FlattenSeq([i \in DOMAIN fields |-> Send(fields[i], values[i])])
           /\ Payload(id, fields, values) = Sent(id) \o z
<1> DEFINE w == [i \in DOMAIN fields |-> Send(fields[i], values[i])]
           T == Seq(Octet)
<1>1. DOMAIN fields = 1 .. Len(fields) /\ Len(fields) \in Nat
  OBVIOUS
<1>2. \A i \in DOMAIN fields : Send(fields[i], values[i]) \in T
  OBVIOUS
<1> HIDE DEF T
<1>3. w \in Seq(T)
  BY <1>1, <1>2
<1> HIDE DEF w
<1>4. FlattenSeq(w) \in Seq(Octet)
  BY <1>3, FlattenType DEF T
<1>5. Payload(id, fields, values) = Sent(id) \o FlattenSeq(w)
  BY Zenon DEF Payload, w
<1>6. QED
  BY <1>4, <1>5, Zenon DEF w

LEMMA PayloadIs ==
  ASSUME NEW id, NEW fields \in Seq(Types), NEW values,
         DOMAIN values = DOMAIN fields, \A i \in DOMAIN fields : Fits(fields[i], values[i])
  PROVE  \E z \in Seq(Octet) :
           /\ z = FlattenSeq([i \in DOMAIN fields |-> Send(fields[i], values[i])])
           /\ Payload(id, fields, values) = Sent(id) \o z
<1>1. \A i \in DOMAIN fields : Send(fields[i], values[i]) \in Seq(Octet)
  BY SendType
<1>2. QED
  BY <1>1, PayloadBytes
-----------------------------------------------------------------------------
(* What a payload begins with *)

\* All but the last element.
LEMMA FrontIs ==
  ASSUME NEW S, NEW s \in Seq(S), s # <<>>
  PROVE  \E e \in S : Front(s) \in Seq(S) /\ s = Append(Front(s), e)
<1> DEFINE n == Len(s)
           t == SubSeq(s, 1, n - 1)
<1>1. n \in Nat /\ n >= 1 /\ s[n] \in S /\ n - 1 \in Nat
  OBVIOUS
<1>2. \A i \in 1 .. n - 1 : s[i] \in S
  BY <1>1
<1>3. t \in Seq(S) /\ Len(t) = n - 1 /\ \A i \in 1 .. n - 1 : t[i] = s[i]
  <2>1. /\ t \in Seq(S) /\ Len(t) = IF 1 <= n - 1 THEN (n - 1) - 1 + 1 ELSE 0
        /\ \A i \in 1 .. (n - 1) - 1 + 1 : t[i] = s[1 + i - 1]
    BY <1>1, <1>2, SubSeqProperties
  <2> HIDE DEF t, n
  <2>2. QED
    BY <1>1, <2>1
<1>4. Front(s) = t
  BY DEF Front
<1> HIDE DEF t
<1> DEFINE r == Append(t, s[n])
<1>5. r \in Seq(S) /\ Len(r) = n /\ r[n] = s[n] /\ \A i \in 1 .. n - 1 : r[i] = s[i]
  BY <1>1, <1>3, AppendProperties
<1> HIDE DEF r
<1>6. \A i \in 1 .. n : r[i] = s[i]
  BY <1>1, <1>5
<1>7. r = s
  BY <1>5, <1>6, SeqEqual
<1>8. QED
  BY <1>1, <1>3, <1>4, <1>7 DEF r

LEMMA AppendSame ==
  ASSUME NEW S, NEW s \in Seq(S), NEW e \in S
  PROVE  Front(Append(s, e)) = s
<1> DEFINE r == Append(s, e)
           n == Len(s)
<1>1. r \in Seq(S) /\ Len(r) = n + 1 /\ n \in Nat /\ \A i \in 1 .. n : r[i] = s[i]
  BY AppendProperties
<1> HIDE DEF r
<1>2. Front(r) = SubSeq(r, 1, n)
  BY <1>1 DEF Front
<1>3. \A i \in 1 .. n : r[i] \in S
  BY <1>1
<1>4. /\ SubSeq(r, 1, n) \in Seq(S) /\ Len(SubSeq(r, 1, n)) = n
      /\ \A i \in 1 .. n : SubSeq(r, 1, n)[i] = r[i]
  BY <1>1, <1>3, SubSeqProperties
<1>5. \A i \in 1 .. n : SubSeq(r, 1, n)[i] = s[i]
  BY <1>1, <1>4
<1>6. SubSeq(r, 1, n) = s
  BY <1>4, <1>5, SeqEqual
<1>7. QED
  BY <1>2, <1>6 DEF r

LEMMA FrontJoined ==
  ASSUME NEW S, NEW x \in Seq(S), NEW y \in Seq(S), y # <<>>
  PROVE  Front(x \o y) = x \o Front(y) /\ Front(y) \in Seq(S)
<1> DEFINE t == Front(y)
<1>1. PICK e \in S : t \in Seq(S) /\ y = Append(t, e)
  BY FrontIs, Zenon
<1> HIDE DEF t
<1>2. x \o Append(t, e) = Append(x \o t, e)
  BY <1>1, Regroup, Zenon
<1>3. x \o t \in Seq(S)
  BY <1>1, JoinType, Zenon
<1>4. Front(Append(x \o t, e)) = x \o t
  BY <1>1, <1>3, AppendSame, Zenon
<1>5. QED
  BY <1>1, <1>2, <1>4, Zenon DEF t

\* A number without its last byte is none.
LEMMA SentFront ==
  ASSUME NEW v \in VarInts
  PROVE  Front(Sent(v)) \in Seq(Octet) /\ ~Whole(Front(Sent(v)))
<1> DEFINE n == Size(v)
           x == Sent(v)
<1>1. /\ n \in 1 .. 5 /\ x \in Seq(Octet) /\ Len(x) = n
      /\ \A i \in 1 .. n : x[i] \in Octet /\ (x[i] >= Group <=> i < n)
  BY SentIs, SizeIs
<1> HIDE DEF n, x
<1>2. x # <<>>
  BY <1>1
<1> DEFINE t == Front(x)
<1>3. PICK e \in Octet : t \in Seq(Octet) /\ x = Append(t, e)
  BY <1>1, <1>2, FrontIs, Zenon
<1> HIDE DEF t
<1>4. Len(t) = n - 1 /\ DOMAIN t = 1 .. Len(t) /\ \A i \in 1 .. n - 1 : t[i] = x[i]
  <2>1. Len(x) = Len(t) + 1 /\ Len(t) \in Nat /\ \A i \in 1 .. Len(t) : x[i] = t[i]
    BY <1>3, AppendProperties
  <2>2. QED
    BY <1>1, <1>3, <2>1
<1>5. ASSUME NEW i \in DOMAIN t, t[i] < Group \/ i = 5
      PROVE  FALSE
  <2>1. i \in 1 .. n - 1 /\ i < n /\ i # 5
    BY <1>1, <1>4
  <2>2. t[i] = x[i] /\ x[i] >= Group /\ x[i] \in Octet
    BY <1>1, <1>4, <2>1
  <2>3. QED
    BY <1>5, <2>1, <2>2, OctetIs, VarIntAssumption DEF VarIntAssumption, Octet
<1>6. QED
  BY <1>3, <1>5, Zenon DEF Whole, x, t

LEMMA PrefixSplits ==
  ASSUME NEW S, NEW s \in Seq(S), NEW t \in Seq(S), IsPrefix(s, t)
  PROVE  \E z \in Seq(S) : t = s \o z
<1> DEFINE n == Len(s)
<1>1. n \in 0 .. Len(t) /\ SubSeq(s, 1, n) = SubSeq(t, 1, n) /\ SubSeq(s, 1, n) = s
  BY DEF IsPrefix
<1>2. Took(n, t) = SubSeq(t, 1, n)
  BY <1>1 DEF Took
<1>3. Took(n, t) = s
  BY <1>1, <1>2
<1>4. Left(n, t) \in Seq(S) /\ Took(n, t) \o Left(n, t) = t
  BY <1>1, Splits
<1>5. QED
  BY <1>3, <1>4, Zenon

\* A packet of a server begins with its id, unless the id itself is cut off.
LEMMA DescribedBegins ==
  ASSUME NEW id \in VarInts, NEW s, s.payload \in Seq(Octet), Described(id, s)
  PROVE  \/ \E z \in Seq(Octet) : s.payload = Sent(id) \o z
         \/ ~s.whole /\ ~Whole(s.payload)
<1> DEFINE f == PlayFields(id)
           p == s.payload
<1>1. f \in Seq(Types)
  <2>1. CASE id < Len(PlayingClientbound)
    <3> DEFINE R == Seq(Types)
               P == PlayingClientbound
               n == Len(P)
    <3>1. P \in Seq(R) /\ n \in Nat
      BY TablesTyped
    <3>2. f = P[id + 1] /\ id \in Nat /\ id < n
      BY <2>1 DEF PlayFields, VarInts
    <3> HIDE DEF R, P
    <3>3. \A i \in 1 .. n : P[i] \in R
      BY <3>1
    <3> HIDE DEF f, n
    <3>4. id + 1 \in 1 .. n
      BY <3>1, <3>2
    <3>5. f \in R
      BY <3>2, <3>3, <3>4
    <3>6. QED
      BY <3>5 DEF R
  <2>2. CASE ~(id < Len(PlayingClientbound))
    BY <2>2 DEF PlayFields
  <2>3. QED
    BY <2>1, <2>2
<1>2. PICK z \in Seq(Octet) : Payload(id, f, s.values) = Sent(id) \o z
  BY <1>1, PayloadIs DEF Described
<1>3. Sent(id) \in Seq(Octet)
  BY SentSizes
<1>4. CASE s.whole
  <2>1. IsPrefix(Sent(id) \o z, p)
    BY <1>2, <1>4 DEF Described
  <2>2. Sent(id) \o z \in Seq(Octet)
    BY <1>3, JoinType
  <2>3. PICK y \in Seq(Octet) : p = (Sent(id) \o z) \o y
    BY <2>1, <2>2, PrefixSplits
  <2>4. p = Sent(id) \o (z \o y)
    <3>1. Reassociates(Octet)
      BY Reassociate
    <3>2. QED
      BY <1>3, <2>3, <3>1, Zenon DEF Reassociates
  <2>5. z \o y \in Seq(Octet)
    BY JoinType
  <2>6. QED
    BY <2>4, <2>5, Zenon
<1>5. CASE ~s.whole
  <2>1. p = Front(Sent(id) \o z)
    BY <1>2, <1>5, Zenon DEF Described
  <2>2. CASE z = <<>>
    <3>1. Sent(id) \o z = Sent(id)
      BY <1>3, <2>2
    <3>2. QED
      BY <1>5, <2>1, <3>1, SentFront
  <2>3. CASE z # <<>>
    <3>1. Front(Sent(id) \o z) = Sent(id) \o Front(z) /\ Front(z) \in Seq(Octet)
      BY <1>3, <2>3, FrontJoined
    <3>2. QED
      BY <2>1, <3>1, Zenon
  <2>4. QED
    BY <2>2, <2>3
<1>6. QED
  BY <1>4, <1>5
-----------------------------------------------------------------------------
(* What the client makes of a payload *)

\* What read_packet makes of a payload.
LEMMA ParsedIs ==
  ASSUME NEW payload, NEW state, NEW got, got = Parsed(payload, state), got.ok,
         NEW n, n = ReadVarInt(payload)
  PROVE  /\ n.ok /\ got.packet.table = state
         /\ IF n.value[1] < Len(ClientboundPackets[state])
              THEN /\ got.packet.id = n.value[1]
                   /\ got.packet.set = ReadFields(FieldsOf(state, n.value[1]), n.rest).set
              ELSE got.packet.id = Base /\ got.packet.set = <<>>
<1> DEFINE id == n.value[1]
           f == ClientboundPackets[state][id + 1]
           known == id < Len(ClientboundPackets[state])
           base == [table |-> state, id |-> -1, set |-> <<>>]
           full == [table |-> state, id |-> id, set |-> ReadFields(f, n.rest).set]
<1>1. CASE ~n.ok
  <2>1. got = [ok |-> FALSE, packet |-> base]
    BY <1>1, Zenon DEF Parsed
  <2> HIDE DEF base
  <2>2. ~got.ok
    BY <2>1
  <2>3. QED
    BY <2>2
<1>2. CASE n.ok /\ ~known
  <2>1. got = [ok |-> TRUE, packet |-> base]
    BY <1>2, Zenon DEF Parsed
  <2>2. got.packet.table = state /\ got.packet.id = -1 /\ got.packet.set = <<>>
    BY <2>1
  <2>3. QED
    BY <1>2, <2>2, Zenon DEF Base
<1>3. CASE n.ok /\ known
  <2>1. \/ got = [ok |-> FALSE, packet |-> base]
        \/ got = [ok |-> TRUE, packet |-> full]
    BY <1>3, Zenon DEF Parsed
  <2> HIDE DEF base, full
  <2>2. got.packet = full
    BY <2>1
  <2>3. full.table = state /\ full.id = id /\ full.set = ReadFields(f, n.rest).set
    BY DEF full
  <2>4. QED
    BY <1>3, <2>2, <2>3, Zenon DEF FieldsOf
<1>4. QED
  BY <1>1, <1>2, <1>3

LEMMA ReadFieldsNext ==
  ASSUME NEW s \in Seq(Octet)
  PROVE  /\ \A q \in Seq(Simple) : ReadFields(q, s) \in Fields
         /\ ReadFields(<<>>, s) = Unread(s)
         /\ \A q \in Seq(Simple), type \in Simple :
              ReadFields(Append(q, type), s) = FieldRead(ReadFields(q, s), type)
<1> DEFINE A == Fields
           B == Simple
           base == Unread(s)
<1>1. Folding(FieldReading, A, B) /\ base \in A
  <2>1. <<>> \in Seq(Simple)
    OBVIOUS
  <2>2. QED
    BY <2>1, FieldReadingIs, ReadFieldsFolds
<1> HIDE DEF A, B, base
<1>2. /\ \A q \in Seq(B) : Fold(FieldReading, base, q) \in A
      /\ Fold(FieldReading, base, <<>>) = base
      /\ \A q \in Seq(B), type \in B :
           Fold(FieldReading, base, Append(q, type))
             = FieldReading[<<Fold(FieldReading, base, q), type>>]
  BY <1>1, FoldIs
<1>3. \A q \in Seq(B) : ReadFields(q, s) = Fold(FieldReading, base, q)
  BY ReadFieldsFolds DEF B, base
<1>4. <<>> \in Seq(B) /\ \A q \in Seq(B), type \in B : Append(q, type) \in Seq(B)
  OBVIOUS
<1>5. \A q \in A, type \in B : FieldReading[<<q, type>>] = FieldRead(q, type)
  BY FieldReadingIs, Zenon DEF A, B
<1>6. QED
  BY <1>2, <1>3, <1>4, <1>5, Zenon DEF A, B, base

LEMMA ReadsOne ==
  ASSUME NEW s \in Seq(Octet), NEW n, n = ReadVarInt(s)
  PROVE  ReadFields(<<"VarInt">>, s).set = <<[ok |-> n.ok, value |-> n.value]>>
<1>1. "VarInt" \in Simple /\ <<>> \in Seq(Simple) /\ <<"VarInt">> = Append(<<>>, "VarInt")
  BY DEF Simple
<1>2. ReadFields(<<"VarInt">>, s) = FieldRead(Unread(s), "VarInt")
  BY <1>1, ReadFieldsNext, Zenon
<1>6. Read("VarInt", s) = n
  BY WidthIs, Zenon DEF Read
<1>7. Unread(s).rest = s /\ Unread(s).set = <<>>
  BY DEF Unread
<1>8. FieldRead(Unread(s), "VarInt").set = Append(<<>>, [ok |-> n.ok, value |-> n.value])
  BY <1>6, <1>7, Zenon DEF FieldRead
<1>9. QED
  BY <1>2, <1>8

Number(payload) == LET rest == Left(Used(payload), payload) IN Took(Used(rest), rest)

\* A payload of one number, and of whatever follows it.
LEMMA NumberIs ==
  ASSUME NEW id \in VarInts, NEW v \in VarInts, NEW y \in Seq(Octet)
  PROVE  Number(Sent(id) \o (Sent(v) \o y)) = Sent(v)
<1> DEFINE payload == Sent(id) \o (Sent(v) \o y)
<1> HIDE DEF payload
<1>1. PICK x : x = Sent(v) \o y /\ x \in Seq(Octet)
  BY SentSizes, JoinType
<1>2. Sent(id) \in Seq(Octet) /\ Sent(v) \in Seq(Octet)
  BY SentSizes
<1>3. payload = Sent(id) \o x
  BY <1>1 DEF payload
<1>4. ReadVarInt(payload) = Got(<<id>>, x) /\ Used(payload) = Len(Sent(id))
  BY <1>1, <1>3, NumberFirst, VarIntRoundTrip
<1>5. ReadVarInt(x) = Got(<<v>>, y) /\ Used(x) = Len(Sent(v))
  BY <1>1, NumberFirst, VarIntRoundTrip
<1>6. Left(Len(Sent(id)), payload) = x
  BY <1>1, <1>2, <1>3, JoinedApart
<1>7. Took(Len(Sent(v)), x) = Sent(v)
  BY <1>1, <1>2, JoinedApart
<1>8. Number(payload) = Sent(v)
  BY <1>4, <1>5, <1>6, <1>7, Zenon DEF Number
<1>9. QED
  BY <1>8 DEF payload
-----------------------------------------------------------------------------
(* The packets the client acts upon *)

Alive(p) == p.table = "play" /\ p.id = KeepAlive
Setting(p) == p.table = "login" /\ p.id = SetCompression
Admitting(p) == p.table = "login" /\ p.id = LoginSuccess

\* The id a packet has for the client.
IdOf(state, id) == IF id < Len(ClientboundPackets[state]) THEN id ELSE Base

\* A packet of the server, which has set the threshold limit, is to the client what it
\* was sent for.
Right(p, limit) == LET got == Parsed(p.payload, p.table) IN got.ok =>
  /\ got.packet.table = p.table /\ got.packet.id = IdOf(p.table, p.id)
  /\ Alive(p) /\ got.packet.set[1].ok => \E v \in VarInts :
       got.packet.set[1].value = <<v>> /\ Number(p.payload) = Sent(v)
  /\ Setting(p) /\ got.packet.set[1].ok => got.packet.set[1].value = <<limit>>

\* The id, of what begins with it.
LEMMA BegunParsed ==
  ASSUME NEW id, NEW z, NEW payload, ReadVarInt(payload) = Got(<<id>>, z),
         NEW state, Parsed(payload, state).ok
  PROVE  LET got == Parsed(payload, state) IN
         /\ got.packet.table = state /\ got.packet.id = IdOf(state, id)
         /\ id < Len(ClientboundPackets[state]) =>
              got.packet.set = ReadFields(FieldsOf(state, id), z).set
<1>1. PICK got : got = Parsed(payload, state) /\ got.ok
  OBVIOUS
<1>2. PICK n : n = ReadVarInt(payload) /\ n.value[1] = id /\ n.rest = z
  BY DEF Got
<1>3. /\ got.packet.table = state
      /\ IF id < Len(ClientboundPackets[state])
           THEN got.packet.id = id /\ got.packet.set = ReadFields(FieldsOf(state, id), z).set
           ELSE got.packet.id = Base
  BY <1>1, <1>2, ParsedIs
<1>4. QED
  BY <1>1, <1>3, Zenon DEF IdOf

LEMMA CutParsed ==
  ASSUME NEW payload, ~Whole(payload), NEW state
  PROVE  ~Parsed(payload, state).ok
<1>1. ~ReadVarInt(payload).ok
  BY DEF ReadVarInt, Raised
<1>2. QED
  BY <1>1, ParsedIs, Zenon

\* A packet of one number.
LEMMA NumberParsed ==
  ASSUME NEW id, NEW z \in Seq(Octet), NEW payload, ReadVarInt(payload) = Got(<<id>>, z),
         NEW state, id < Len(ClientboundPackets[state]), FieldsOf(state, id) = <<"VarInt">>,
         NEW got, got = Parsed(payload, state), got.ok
  PROVE  /\ got.packet.set[1].ok = ReadVarInt(z).ok
         /\ got.packet.set[1].value = ReadVarInt(z).value
<1>1. PICK n : n = ReadVarInt(z)
  OBVIOUS
<1>2. got.packet.set = ReadFields(<<"VarInt">>, z).set
  <2>1. Parsed(payload, state).ok
    BY Zenon
  <2>2. Parsed(payload, state).packet.set = ReadFields(FieldsOf(state, id), z).set
    BY <2>1, BegunParsed
  <2>3. QED
    BY <2>2, Zenon
<1>3. got.packet.set = <<[ok |-> n.ok, value |-> n.value]>>
  BY <1>1, <1>2, ReadsOne, Zenon
<1>4. QED
  BY <1>1, <1>3

\* The keep alives of a server.
LEMMA KeepAliveSent ==
  ASSUME NEW s, s.payload \in Seq(Octet), Described(KeepAlive, s)
  PROVE  \E v \in VarInts :
           \/ \E y \in Seq(Octet) : s.payload = Sent(KeepAlive) \o (Sent(v) \o y)
           \/ ~s.whole /\ s.payload = Sent(KeepAlive) \o Front(Sent(v))
<1> DEFINE f == PlayFields(KeepAlive)
           p == s.payload
           w == Payload(KeepAlive, f, s.values)
<1>1. f = <<"VarInt">>
  BY TablesTyped, EntriesAre DEF PlayFields, KeepAlive
<1>2. PICK v \in VarInts : s.values[1][1] = v
  <2>1. Fits("VarInt", s.values[1])
    BY <1>1 DEF Described
  <2>2. QED
    BY <2>1, FitsIs
<1>3. Sent(v) \in Seq(Octet) /\ Sent(KeepAlive) \in Seq(Octet)
  BY SentSizes, SmallNumbers DEF KeepAlive
<1>4. w = Sent(KeepAlive) \o Sent(v)
  <2>1. PICK x : x = Sent(v)
    OBVIOUS
  <2>2. Send("VarInt", s.values[1]) = x
    BY <1>2, <2>1, SendIs
  <2>3. [i \in DOMAIN <<"VarInt">> |-> Send(<<"VarInt">>[i], s.values[i])] = <<x>>
    BY <2>2
  <2>4. FlattenSeq(<<x>>) = x
    BY <1>3, <2>1, FlattenFew
  <2>5. QED
    BY <1>1, <2>1, <2>3, <2>4, Zenon DEF Payload
<1>5. CASE s.whole
  <2>1. IsPrefix(Sent(KeepAlive) \o Sent(v), p)
    BY <1>4, <1>5, Zenon DEF Described
  <2>2. Sent(KeepAlive) \o Sent(v) \in Seq(Octet)
    BY <1>3, JoinType
  <2>3. PICK y \in Seq(Octet) : p = (Sent(KeepAlive) \o Sent(v)) \o y
    BY <2>1, <2>2, PrefixSplits
  <2>4. p = Sent(KeepAlive) \o (Sent(v) \o y)
    <3>1. Reassociates(Octet)
      BY Reassociate
    <3>2. QED
      BY <1>3, <2>3, <3>1, Zenon DEF Reassociates
  <2>5. QED
    BY <2>4, Zenon
<1>6. CASE ~s.whole
  <2>1. p = Front(Sent(KeepAlive) \o Sent(v))
    BY <1>4, <1>6, Zenon DEF Described
  <2>2. Sent(v) # <<>>
    BY SentIs, SizeIs
  <2>3. Front(Sent(KeepAlive) \o Sent(v)) = Sent(KeepAlive) \o Front(Sent(v))
    BY <1>3, <2>2, FrontJoined
  <2>4. QED
    BY <1>6, <2>1, <2>3, Zenon
<1>7. QED
  BY <1>5, <1>6

LEMMA DescribedRight ==
  ASSUME NEW id \in VarInts, NEW p, p.payload \in Seq(Octet), Described(id, p),
         p.table = "play", p.id = id, NEW limit
  PROVE  Right(p, limit)
<1> DEFINE z == p.payload
           got == Parsed(z, "play")
<1> HIDE DEF got
<1> SUFFICES ASSUME got.ok
             PROVE  /\ got.packet.table = "play" /\ got.packet.id = IdOf("play", id)
                    /\ (Alive(p) /\ got.packet.set[1].ok) => \E v \in VarInts :
                         got.packet.set[1].value = <<v>> /\ Number(p.payload) = Sent(v)
  BY Zenon DEF Right, Setting, got
<1>1. PICK y \in Seq(Octet) : z = Sent(id) \o y
  BY DescribedBegins, CutParsed DEF got
<1>2. got.packet.table = "play" /\ got.packet.id = IdOf("play", id)
  <2>1. ReadVarInt(z) = Got(<<id>>, y)
    BY <1>1, NumberFirst, Zenon
  <2>2. Parsed(z, "play").ok
    BY DEF got
  <2> HIDE DEF z
  <2>3. Parsed(z, "play").packet.table = "play" /\ Parsed(z, "play").packet.id = IdOf("play", id)
    BY <2>1, <2>2, BegunParsed
  <2>4. QED
    BY <2>3, Zenon DEF got
<1>3. ASSUME Alive(p), got.packet.set[1].ok
      PROVE  \E v \in VarInts : got.packet.set[1].value = <<v>> /\ Number(p.payload) = Sent(v)
  <2>1. id = KeepAlive /\ KeepAlive \in VarInts
    BY <1>3 DEF Alive
  <2>2. KeepAlive < Len(ClientboundPackets["play"]) /\ FieldsOf("play", KeepAlive) = <<"VarInt">>
    <3>1. ClientboundPackets["play"] = PlayingClientbound
      BY DEF ClientboundPackets
    <3>2. KeepAlive < Len(PlayingClientbound)
      BY TablesTyped DEF KeepAlive
    <3>3. QED
      BY <3>1, <3>2, EntriesAre DEF FieldsOf
  <2>3. PICK v \in VarInts :
          \/ \E x \in Seq(Octet) : z = Sent(KeepAlive) \o (Sent(v) \o x)
          \/ z = Sent(KeepAlive) \o Front(Sent(v))
    BY <2>1, KeepAliveSent
  <2> HIDE DEF z
  <2>7. got = Parsed(z, "play") /\ got.ok
    BY DEF got
  <2>4. CASE \E x \in Seq(Octet) : z = Sent(KeepAlive) \o (Sent(v) \o x)
    <3>1. PICK x \in Seq(Octet) : z = Sent(KeepAlive) \o (Sent(v) \o x)
      BY <2>4
    <3>2. PICK r : r = Sent(v) \o x /\ r \in Seq(Octet)
      BY SentSizes, JoinType
    <3>3. z = Sent(KeepAlive) \o r
      BY <3>1, <3>2
    <3>4. Number(z) = Sent(v)
      <4>1. Number(Sent(KeepAlive) \o (Sent(v) \o x)) = Sent(v)
        BY <2>1, NumberIs
      <4>2. QED
        BY <3>1, <4>1, Zenon
    <3>5. ReadVarInt(z) = Got(<<KeepAlive>>, r) /\ ReadVarInt(r) = Got(<<v>>, x)
      BY <2>1, <3>2, <3>3, NumberFirst, Zenon
    <3>6. got.packet.set[1].value = ReadVarInt(r).value
      <4>1. r \in Seq(Octet) /\ ReadVarInt(z) = Got(<<KeepAlive>>, r)
        BY <3>2, <3>5
      <4>2. QED
        BY <2>2, <2>7, <4>1, NumberParsed
    <3>7. ReadVarInt(r).value = <<v>> /\ Number(z) = Sent(v)
      BY <3>4, <3>5 DEF Got
    <3>8. QED
      BY <3>6, <3>7, Zenon DEF z
  <2>5. CASE z = Sent(KeepAlive) \o Front(Sent(v))
    <3>1. PICK r : r = Front(Sent(v)) /\ r \in Seq(Octet) /\ ~Whole(r)
      BY SentFront
    <3>2. ReadVarInt(z) = Got(<<KeepAlive>>, r)
      BY <2>1, <2>5, <3>1, NumberFirst, Zenon
    <3>3. got.packet.set[1].ok = ReadVarInt(r).ok
      BY <2>2, <2>7, <3>1, <3>2, NumberParsed
    <3>4. ~ReadVarInt(r).ok
      BY <3>1 DEF ReadVarInt, Raised
    <3>5. QED
      BY <1>3, <3>3, <3>4
  <2>6. QED
    BY <2>3, <2>4, <2>5
<1>4. QED
  BY <1>2, <1>3, Zenon
-----------------------------------------------------------------------------
(* The packets of the login state *)

\* What is in the packets of the login state.
LEMMA LoginPayloads ==
  /\ \A t \in VarInts : Payload(SetCompression, LoginClientbound[SetCompression + 1], <<<<t>>>>)
                          = Sent(SetCompression) \o Sent(t)
  /\ \E z \in Seq(Octet) :
       Payload(LoginSuccess, LoginClientbound[LoginSuccess + 1], <<<<1>>, <<2>>>>)
         = Sent(LoginSuccess) \o z
  /\ \E z \in Seq(Octet) :
       Payload(Disconnect, LoginClientbound[Disconnect + 1], <<<<1>>>>) = Sent(Disconnect) \o z
<1>1. ASSUME NEW t \in VarInts
      PROVE  Payload(SetCompression, LoginClientbound[SetCompression + 1], <<<<t>>>>)
               = Sent(SetCompression) \o Sent(t)
  <2>1. PICK x : x = Sent(t) /\ x \in Seq(Octet)
    BY SentSizes
  <2>2. LoginClientbound[SetCompression + 1] = <<"VarInt">>
    BY DEF LoginClientbound, SetCompression
  <2>3. [i \in DOMAIN <<"VarInt">> |-> Send(<<"VarInt">>[i], <<<<t>>>>[i])] = <<x>>
    <3>1. Send("VarInt", <<t>>) = x
      BY <2>1, SendIs
    <3>2. QED
      BY <3>1
  <2>4. QED
    BY <2>1, <2>2, <2>3, FlattenFew, Zenon DEF Payload
<1>2. ASSUME NEW id, NEW values \in Seq(Seq(Octet)), NEW fields \in Seq({"String"}),
             \A i \in DOMAIN fields : Send(fields[i], values[i]) \in Seq(Octet)
      PROVE  \E z \in Seq(Octet) : Payload(id, fields, values) = Sent(id) \o z
  BY <1>2, PayloadBytes
<1>3. Send("String", <<1>>) \in Seq(Octet) /\ Send("String", <<2>>) \in Seq(Octet)
  BY TextIs
<1>4. <<1>> \in Seq(Octet) /\ <<2>> \in Seq(Octet)
  BY PacketAssumption, VarIntAssumption DEF PacketAssumption, VarIntAssumption, Octet
<1>5. \E z \in Seq(Octet) :
        Payload(LoginSuccess, LoginClientbound[LoginSuccess + 1], <<<<1>>, <<2>>>>)
          = Sent(LoginSuccess) \o z
  <2>1. LoginClientbound[LoginSuccess + 1] = <<"String", "String">>
    BY DEF LoginClientbound, LoginSuccess
  <2>2. <<"String", "String">> \in Seq({"String"}) /\ <<<<1>>, <<2>>>> \in Seq(Seq(Octet))
    BY <1>4
  <2>3. \A i \in DOMAIN <<"String", "String">> :
          Send(<<"String", "String">>[i], <<<<1>>, <<2>>>>[i]) \in Seq(Octet)
    BY <1>3
  <2>4. QED
    BY <1>2, <2>1, <2>2, <2>3
<1>6. \E z \in Seq(Octet) :
        Payload(Disconnect, LoginClientbound[Disconnect + 1], <<<<1>>>>) = Sent(Disconnect) \o z
  <2>1. LoginClientbound[Disconnect + 1] = <<"String">>
    BY DEF LoginClientbound, Disconnect
  <2>2. <<"String">> \in Seq({"String"}) /\ <<<<1>>>> \in Seq(Seq(Octet))
    BY <1>4
  <2>3. \A i \in DOMAIN <<"String">> : Send(<<"String">>[i], <<<<1>>>>[i]) \in Seq(Octet)
    BY <1>3
  <2>4. QED
    BY <1>2, <2>1, <2>2, <2>3
<1>7. QED
  BY <1>1, <1>5, <1>6

\* A packet of the login state is to the client what it was sent for.
LEMMA LoginRight ==
  ASSUME NEW id \in {SetCompression, LoginSuccess, Disconnect}, NEW z \in Seq(Octet),
         NEW limit, id = SetCompression => limit \in VarInts /\ z = Sent(limit),
         NEW p, p.payload = Sent(id) \o z, p.table = "login", p.id = id
  PROVE  Right(p, limit) /\ p.payload # <<>>
<1>1. id \in VarInts
  <2>1. id \in 0 .. 31
    BY DEF SetCompression, LoginSuccess, Disconnect
  <2>2. QED
    BY <2>1, SmallNumbers
<1>2. PICK q : q = p.payload
  OBVIOUS
<1>3. ReadVarInt(q) = Got(<<id>>, z)
  BY <1>1, <1>2, NumberFirst, Zenon
<1>4. q # <<>>
  <2>1. Sent(id) \in Seq(Octet) /\ Len(Sent(id)) \in 1 .. 5
    BY <1>1, SentIs, SizeIs
  <2>2. PICK x : x = Sent(id) /\ x \in Seq(Octet) /\ Len(x) \in 1 .. 5
    BY <2>1
  <2>3. q = x \o z
    BY <1>2, <2>2
  <2>4. Len(x \o z) = Len(x) + Len(z) /\ Len(z) \in Nat
    BY <2>2, ConcatProperties
  <2>5. PICK m : m = Len(x) + Len(z) /\ m # 0
    BY <2>2, <2>4
  <2>6. Len(q) = m
    BY <2>3, <2>4, <2>5, Zenon
  <2>7. QED
    BY <2>5, <2>6
<1>5. ASSUME NEW got, got = Parsed(q, "login"), got.ok
      PROVE  /\ got.packet.table = "login" /\ got.packet.id = IdOf("login", id)
             /\ (id = SetCompression /\ got.packet.set[1].ok) => got.packet.set[1].value = <<limit>>
  <2>1. Parsed(q, "login").ok
    BY <1>5
  <2>2. /\ Parsed(q, "login").packet.table = "login"
        /\ Parsed(q, "login").packet.id = IdOf("login", id)
    BY <1>3, <2>1, BegunParsed
  <2>3. ASSUME id = SetCompression
        PROVE  got.packet.set[1].value = <<limit>>
    <3>1. id < Len(ClientboundPackets["login"]) /\ FieldsOf("login", id) = <<"VarInt">>
      <4>1. ClientboundPackets["login"] = LoginClientbound
        BY DEF ClientboundPackets
      <4>2. id < Len(LoginClientbound)
        BY <2>3, TablesTyped DEF SetCompression
      <4>3. QED
        BY <2>3, <4>1, <4>2, EntriesAre DEF FieldsOf
    <3>2. got.packet.set[1].value = ReadVarInt(z).value
      BY <1>3, <1>5, <3>1, NumberParsed
    <3>3. ReadVarInt(z) = Got(<<limit>>, <<>>)
      <4>1. <<>> \in Seq(Octet) /\ Sent(limit) \in Seq(Octet)
        BY <2>3, SentSizes
      <4>2. PICK x : x = Sent(limit) /\ x \in Seq(Octet)
        BY <4>1
      <4>3. x \o <<>> = x
        BY <4>2
      <4>4. ReadVarInt(Sent(limit) \o <<>>) = Got(<<limit>>, <<>>)
        BY <2>3, <4>1, NumberFirst
      <4>5. QED
        BY <2>3, <4>2, <4>3, <4>4, Zenon
    <3>4. QED
      BY <3>2, <3>3 DEF Got
  <2>4. QED
    BY <1>5, <2>2, <2>3
<1>6. ~Alive(p) /\ (Setting(p) => id = SetCompression)
  BY DEF Alive, Setting
<1>7. QED
  BY <1>2, <1>4, <1>5, <1>6 DEF Right
-----------------------------------------------------------------------------
(* One packet more is sent *)

\* The packet a server adds to those it has sent.
Adds(p) ==
  /\ pushed' = Append(pushed, p)
  /\ IsSeq(pushed) /\ IsSeq(pushed') /\ Len(pushed) \in Nat /\ Len(pushed') = Len(pushed) + 1
  /\ pushed'[Len(pushed) + 1] = p
  /\ \A k \in 1 .. Len(pushed) : pushed'[k] = pushed[k]

LEMMA PushAdds ==
  ASSUME IsSeq(pushed), NEW id, NEW payload, NEW values, NEW whole,
         Push(id, payload, values, whole)
  PROVE  \E p : /\ Adds(p) /\ p.table = stage /\ p.id = id /\ p.payload = payload
                /\ p.values = values /\ p.whole = whole /\ p.zipped = Zips(payload)
                /\ stream' = stream \o p.bytes /\ sealing' = AfterByte(p.bytes, sealing)
                /\ LET frame == Encrypted(ServerFramed(payload), sealing) IN
                   p.bytes \in {frame} \cup CutOff(frame) /\ closed' = (p.bytes # frame)
<1> DEFINE frame == Encrypted(ServerFramed(payload), sealing)
<1>1. PICK bytes \in {frame} \cup CutOff(frame) :
        /\ pushed' = Append(pushed, [table |-> stage, id |-> id, payload |-> payload,
                                     values |-> values, whole |-> whole,
                                     zipped |-> Zips(payload), bytes |-> bytes])
        /\ stream' = stream \o bytes /\ closed' = (bytes # frame)
        /\ sealing' = AfterByte(bytes, sealing)
  BY DEF Push
<1>2. PICK p : p = [table |-> stage, id |-> id, payload |-> payload,
                    values |-> values, whole |-> whole,
                    zipped |-> Zips(payload), bytes |-> bytes]
  OBVIOUS
<1>3. /\ p.table = stage /\ p.id = id /\ p.payload = payload /\ p.values = values
      /\ p.whole = whole /\ p.zipped = Zips(payload) /\ p.bytes = bytes
  BY <1>2
<1>4. pushed' = Append(pushed, p)
  BY <1>1, <1>2
<1>5. Adds(p)
  <2>1. PICK S : pushed \in Seq(S)
    BY DEF IsSeq
  <2> DEFINE R == S \cup {p}
  <2>2. pushed \in Seq(R) /\ p \in R
    BY <2>1
  <2> HIDE DEF R
  <2>3. /\ pushed' \in Seq(R) /\ Len(pushed') = Len(pushed) + 1 /\ pushed'[Len(pushed) + 1] = p
        /\ \A k \in 1 .. Len(pushed) : pushed'[k] = pushed[k]
    BY <1>4, <2>2, AppendProperties
  <2>4. QED
    BY <1>4, <2>2, <2>3 DEF Adds, IsSeq
<1>6. QED
  BY <1>1, <1>3, <1>5

LEMMA AddsFrame ==
  ASSUME SentSoFar, NEW p, Adds(p), p.bytes \in Seq(Octet), sealing' = AfterByte(p.bytes, sealing)
  PROVE  /\ Frames' = Append(Frames, p.bytes) /\ Start' = Start
         /\ \A k \in 0 .. Len(pushed) : Seal(Frames, k, Start)' = Seal(Frames, k, Start)
<1> DEFINE f == Frames
           g == Append(f, p.bytes)
           l == Len(pushed)
           T == Seq(Octet)
<1>1. f \in Seq(T) /\ Len(f) = l /\ l \in Nat
  BY FramesAre
<1>2. \A k \in 1 .. l : f[k] = pushed[k].bytes
  BY DEF Frames
<1>3. /\ g \in Seq(T) /\ Len(g) = l + 1 /\ g[l + 1] = p.bytes /\ \A k \in 1 .. l : g[k] = f[k]
  <2>1. p.bytes \in T
    OBVIOUS
  <2> HIDE DEF T, f, l
  <2>2. QED
    BY <1>1, <2>1, AppendProperties
<1>4. g = [k \in 1 .. l + 1 |-> g[k]]
  <2> HIDE DEF g, T
  <2>1. QED
    BY <1>3, LenProperties
<1>5. Frames' = [k \in 1 .. l + 1 |-> pushed'[k].bytes]
  BY DEF Frames, Adds
<1>6. ASSUME NEW k \in 1 .. l + 1 PROVE pushed'[k].bytes = g[k]
  <2>1. /\ pushed'[l + 1] = p /\ \A j \in 1 .. l : pushed'[j] = pushed[j]
    BY DEF Adds
  <2>2. CASE k \in 1 .. l
    <3> HIDE DEF f, g, l
    <3>1. QED
      BY <1>2, <1>3, <2>1, <2>2
  <2>3. CASE k = l + 1
    <3> HIDE DEF f, g, l
    <3>1. QED
      BY <1>3, <2>1, <2>3
  <2>4. QED
    BY <1>1, <2>2, <2>3
<1>7. Frames' = g
  <2> HIDE DEF f, g, l
  <2>1. QED
    BY <1>4, <1>5, <1>6
<1>8. Start' = Start
  <2>1. sealing \in States
    BY DEF SentSoFar
  <2>2. sealing' = Clear <=> sealing = Clear
    BY <2>1, AfterType
  <2>3. QED
    BY <2>2 DEF Start
<1>9. ASSUME NEW k \in 0 .. l PROVE Seal(Frames, k, Start)' = Seal(Frames, k, Start)
  <2>1. Before(g, k) = Before(f, k)
    <3>1. f \in Seq(Seq(Octet)) /\ k \in 0 .. Len(f)
      BY <1>1
    <3> HIDE DEF f
    <3>2. QED
      BY <3>1, PartsAppend
  <2>2. Seal(Frames, k, Start)' = Seal(g, k, Start)
    BY <1>7, <1>8, Zenon DEF Seal
  <2>3. QED
    BY <2>1, <2>2, Zenon DEF Seal
<1>10. QED
  BY <1>7, <1>8, <1>9
-----------------------------------------------------------------------------
(* How every packet is sent *)

\* The threshold with which the k-th packet is sent, and the table it is from: what the
\* packets before have set.
SetBefore(k) == \E j \in 1 .. k - 1 : Setting(pushed[j])
LimitAt(k) == IF SetBefore(k) THEN sets ELSE Off
AdmittedBefore(k) == \E j \in 1 .. k - 1 : Admitting(pushed[j])
TableAt(k) == IF AdmittedBefore(k) THEN "play" ELSE "login"

SealAt(k) == Seal(Frames, k - 1, Start)

\* The k-th packet is as the packets before have it, to the last byte or cut off.
SentAs(k) == LET p == pushed[k] IN
  /\ Sendable(p.payload) /\ p.payload # <<>> /\ p.table = TableAt(k) /\ Right(p, sets)
  /\ p.zipped <=> LimitAt(k) # Off /\ Len(p.payload) >= LimitAt(k)
  /\ \/ p.bytes = Wrapped(p.payload, LimitAt(k), SealAt(k))
     \/ closed /\ k = Len(pushed) /\ Cut(p.bytes, SealAt(k))

ServerInv ==
  /\ sets \in VarInts \cup {Off}
  /\ sets = Off <=> ~SetBefore(Len(pushed) + 1)
  /\ stage \in {TableAt(Len(pushed) + 1), "kicked"}
  /\ \A k \in 1 .. Len(pushed) : SentAs(k)

LEMMA BeforeAdds ==
  ASSUME NEW p, Adds(p), NEW l, l = Len(pushed)
  PROVE  /\ \A k \in 1 .. l + 1 : SetBefore(k)' = SetBefore(k)
         /\ \A k \in 1 .. l + 1 : AdmittedBefore(k)' = AdmittedBefore(k)
         /\ SetBefore(l + 2)' <=> SetBefore(l + 1) \/ Setting(p)
         /\ AdmittedBefore(l + 2)' <=> AdmittedBefore(l + 1) \/ Admitting(p)
<1>1. l \in Nat
  BY DEF Adds
<1>2. pushed'[l + 1] = p /\ \A k \in 1 .. l : pushed'[k] = pushed[k]
  BY <1>1 DEF Adds
<1>3. ASSUME NEW k \in 1 .. l + 1
      PROVE  SetBefore(k)' = SetBefore(k) /\ AdmittedBefore(k)' = AdmittedBefore(k)
  <2>1. \A j \in 1 .. k - 1 : pushed'[j] = pushed[j]
    BY <1>1, <1>2
  <2>2. QED
    BY <2>1 DEF SetBefore, AdmittedBefore
<1>4. (l + 1) - 1 = l /\ (l + 2) - 1 = l + 1
  BY <1>1
<1>5. \A j : j \in 1 .. l + 1 <=> j \in 1 .. l \/ j = l + 1
  BY <1>1
<1>6. SetBefore(l + 2)' <=> SetBefore(l + 1) \/ Setting(p)
  BY <1>2, <1>4, <1>5, Zenon DEF SetBefore
<1>7. AdmittedBefore(l + 2)' <=> AdmittedBefore(l + 1) \/ Admitting(p)
  BY <1>2, <1>4, <1>5, Zenon DEF AdmittedBefore
<1>8. QED
  BY <1>3, <1>6, <1>7

LEMMA LimitsStay ==
  ASSUME ServerInv, NEW p, Adds(p), sets' = sets \/ sets = Off
  PROVE  \A k \in 1 .. Len(pushed) + 1 : LimitAt(k)' = LimitAt(k) /\ TableAt(k)' = TableAt(k)
<1> TAKE k \in 1 .. Len(pushed) + 1
<1>1. SetBefore(k)' = SetBefore(k) /\ AdmittedBefore(k)' = AdmittedBefore(k)
  <2>1. PICK l : l = Len(pushed) /\ k \in 1 .. l + 1
    OBVIOUS
  <2>2. QED
    BY <2>1, BeforeAdds
<1>2. SetBefore(k) => SetBefore(Len(pushed) + 1)
  <2>1. Len(pushed) \in Nat
    BY DEF Adds
  <2>2. QED
    BY <2>1 DEF SetBefore
<1>3. SetBefore(k) => sets' = sets
  BY <1>2 DEF ServerInv
<1>4. QED
  BY <1>1, <1>3 DEF LimitAt, TableAt

\* Only for the packet that sets the threshold does it matter which one.
LEMMA RightStays ==
  ASSUME NEW p, NEW t, NEW u, Right(p, t), Setting(p) => t = u
  PROVE  Right(p, u)
BY DEF Right

\* A packet more.
LEMMA PushServes ==
  ASSUME ReadInv, ServerInv, NEW p, Adds(p), ~closed, stage # "kicked",
         Sendable(p.payload), p.payload # <<>>, p.table = stage, p.zipped = Zips(p.payload),
         NEW frame, frame = Encrypted(ServerFramed(p.payload), sealing),
         p.bytes \in {frame} \cup CutOff(frame), closed' = (p.bytes # frame),
         sealing' = AfterByte(p.bytes, sealing),
         Right(p, sets'), sets' \in VarInts \cup {Off},
         \/ ~Setting(p) /\ sets' = sets
         \/ Setting(p) /\ sets = Off /\ sets' # Off,
         stage' \in {IF Admitting(p) THEN "play" ELSE stage, "kicked"}
  PROVE  ServerInv'
<1>1. PICK l : l = Len(pushed) /\ l \in Nat /\ Len(pushed') = l + 1 /\ (l + 1) + 1 = l + 2
  BY DEF Adds
<1>2. pushed'[l + 1] = p /\ \A k \in 1 .. l : pushed'[k] = pushed[k]
  BY <1>1 DEF Adds
<1>3. \A k \in 1 .. l + 1 : LimitAt(k)' = LimitAt(k) /\ TableAt(k)' = TableAt(k)
  BY <1>1, LimitsStay
<1>4. sets' = Off <=> ~SetBefore(Len(pushed) + 1)'
  <2>1. SetBefore(l + 2)' <=> SetBefore(l + 1) \/ Setting(p)
    BY <1>1, BeforeAdds
  <2>2. sets = Off <=> ~SetBefore(l + 1)
    BY <1>1 DEF ServerInv
  <2>3. QED
    BY <1>1, <2>1, <2>2
<1>5. stage' \in {TableAt(Len(pushed) + 1)', "kicked"}
  <2>1. AdmittedBefore(l + 2)' <=> AdmittedBefore(l + 1) \/ Admitting(p)
    BY <1>1, BeforeAdds
  <2>2. stage = TableAt(l + 1)
    BY <1>1 DEF ServerInv
  <2>3. TableAt(l + 2)' = IF Admitting(p) THEN "play" ELSE stage
    BY <2>1, <2>2 DEF TableAt
  <2>4. QED
    BY <1>1, <2>3
<1>6. sealing \in States /\ sealing = SealAt(l + 1)
  <2>1. (l + 1) - 1 = l
    BY <1>1
  <2>2. QED
    BY <1>1, <2>1 DEF ReadInv, SentSoFar, SealAt
<1>7. frame \in Seq(Octet) /\ Frame(frame, sealing) /\ Len(frame) > 0
  BY <1>6, SentWhole
<1>8. p.bytes \in Seq(Octet) /\ (p.bytes = frame \/ (closed' /\ Cut(p.bytes, sealing)))
  BY <1>6, <1>7, SentCut
<1>9. \A k \in 1 .. l + 1 : SealAt(k)' = SealAt(k)
  <2>1. \A k \in 0 .. l : Seal(Frames, k, Start)' = Seal(Frames, k, Start)
    BY <1>1, <1>8, AddsFrame DEF ReadInv
  <2>2. \A k \in 1 .. l + 1 : k - 1 \in 0 .. l
    BY <1>1
  <2>3. QED
    BY <2>1, <2>2 DEF SealAt
<1>10. SentAs(l + 1)'
  <2>1. LimitAt(l + 1)' = sets
    <3>1. l + 1 \in 1 .. l + 1
      BY <1>1
    <3>2. LimitAt(l + 1) = sets
      BY <1>1 DEF LimitAt, ServerInv
    <3>3. QED
      BY <1>3, <3>1, <3>2
  <2>2. TableAt(l + 1)' = stage
    <3>1. l + 1 \in 1 .. l + 1
      BY <1>1
    <3>2. TableAt(l + 1) = stage
      BY <1>1 DEF ServerInv
    <3>3. QED
      BY <1>3, <3>1, <3>2
  <2>3. SealAt(l + 1)' = sealing
    BY <1>1, <1>6, <1>9
  <2>4. frame = Wrapped(p.payload, sets, sealing)
    BY ServerPacks
  <2>5. p.bytes = Wrapped(p.payload, LimitAt(l + 1)', SealAt(l + 1)')
        \/ (closed' /\ l + 1 = Len(pushed') /\ Cut(p.bytes, SealAt(l + 1)'))
    BY <1>1, <1>8, <2>1, <2>3, <2>4
  <2>6. p.zipped <=> LimitAt(l + 1)' # Off /\ Len(p.payload) >= LimitAt(l + 1)'
    BY <2>1 DEF Zips
  <2>7. QED
    BY <1>2, <2>2, <2>5, <2>6 DEF SentAs
<1>11. ASSUME NEW k \in 1 .. l PROVE SentAs(k)'
  <2>1. SentAs(k) /\ k \in 1 .. l + 1 /\ k # Len(pushed')
    BY <1>1 DEF ServerInv
  <2>2. Setting(pushed[k]) => sets' = sets
    <3>1. Setting(pushed[k]) => SetBefore(l + 1)
      <4>1. k \in 1 .. (l + 1) - 1
        BY <1>1
      <4>2. QED
        BY <4>1 DEF SetBefore
    <3>2. QED
      BY <1>1, <3>1 DEF ServerInv
  <2>3. Right(pushed[k], sets')
    BY <2>1, <2>2, RightStays DEF SentAs
  <2>4. /\ LimitAt(k)' = LimitAt(k) /\ TableAt(k)' = TableAt(k) /\ SealAt(k)' = SealAt(k)
        /\ pushed'[k] = pushed[k]
    BY <1>2, <1>3, <1>9, <2>1
  <2>5. QED
    BY <2>1, <2>3, <2>4 DEF SentAs
<1>12. ASSUME NEW k \in 1 .. Len(pushed') PROVE SentAs(k)'
  <2>1. k \in 1 .. l \/ k = l + 1
    BY <1>1
  <2>2. QED
    BY <1>10, <1>11, <2>1
<1>13. QED
  BY <1>4, <1>5, <1>12 DEF ServerInv

LEMMA InitServed == Init => ServerInv
<1> SUFFICES ASSUME Init PROVE ServerInv
  OBVIOUS
<1>1. pushed = <<>> /\ sets = Off /\ stage = "login"
  BY DEF Init
<1>2. Len(pushed) = 0
  BY <1>1
<1>3. ~SetBefore(0 + 1) /\ ~AdmittedBefore(0 + 1)
  BY DEF SetBefore, AdmittedBefore
<1>4. QED
  BY <1>1, <1>2, <1>3 DEF ServerInv, TableAt

LEMMA LoginServes ==
  ASSUME ReadInv, ServerInv, ServerLogin
  PROVE  ServerInv'
<1> DEFINE Row(id) == LoginClientbound[id + 1]
<1>1. stage = "login" /\ "login" # "kicked" /\ sets \in VarInts \cup {Off} /\ IsSeq(pushed)
  BY DEF ServerLogin, ServerInv, ReadInv, SentSoFar
<1>2. ASSUME NEW id \in {SetCompression, LoginSuccess, Disconnect}, NEW values,
             PushLogin(id, values), Sendable(Payload(id, Row(id), values)),
             NEW z \in Seq(Octet), Payload(id, Row(id), values) = Sent(id) \o z,
             id = SetCompression => sets' \in VarInts /\ z = Sent(sets'),
             sets' \in VarInts \cup {Off},
             \/ id # SetCompression /\ sets' = sets
             \/ id = SetCompression /\ sets = Off /\ sets' # Off,
             stage' \in {IF id = LoginSuccess THEN "play" ELSE stage, "kicked"}
      PROVE  ServerInv'
  <2>1. PICK payload : payload = Payload(id, Row(id), values)
    OBVIOUS
  <2>2. PICK whole : Push(id, payload, values, whole) /\ ~closed
    BY <1>2, <2>1 DEF PushLogin, Push
  <2>3. PICK p : /\ Adds(p) /\ p.table = stage /\ p.id = id /\ p.payload = payload
                 /\ p.values = values /\ p.whole = whole /\ p.zipped = Zips(payload)
                 /\ sealing' = AfterByte(p.bytes, sealing)
                 /\ LET frame == Encrypted(ServerFramed(payload), sealing) IN
                    p.bytes \in {frame} \cup CutOff(frame) /\ closed' = (p.bytes # frame)
    BY <1>1, <2>2, PushAdds
  <2>4. PICK limit : limit = sets'
    OBVIOUS
  <2>5. Right(p, limit) /\ p.payload # <<>>
    <3>1. p.payload = Sent(id) \o z /\ p.table = "login"
      BY <1>1, <1>2, <2>1, <2>3
    <3>2. QED
      BY <1>2, <2>3, <2>4, <3>1, LoginRight
  <2>6. (Setting(p) <=> id = SetCompression) /\ (Admitting(p) <=> id = LoginSuccess)
    BY <1>1, <2>3 DEF Setting, Admitting
  <2>7. PICK frame : /\ frame = Encrypted(ServerFramed(p.payload), sealing)
                     /\ p.bytes \in {frame} \cup CutOff(frame) /\ closed' = (p.bytes # frame)
    BY <2>3
  <2>8. Sendable(p.payload) /\ p.zipped = Zips(p.payload)
    BY <1>2, <2>1, <2>3
  <2>9. Right(p, sets')
    BY <2>4, <2>5
  <2>10. \/ ~Setting(p) /\ sets' = sets
         \/ Setting(p) /\ sets = Off /\ sets' # Off
    BY <1>2, <2>6
  <2>11. stage' \in {IF Admitting(p) THEN "play" ELSE stage, "kicked"}
    BY <1>2, <2>6
  <2>12. QED
    BY <1>1, <1>2, <2>2, <2>3, <2>5, <2>7, <2>8, <2>9, <2>10, <2>11, PushServes
<1>3. /\ SetCompression # LoginSuccess /\ SetCompression # Disconnect /\ LoginSuccess # Disconnect
  BY DEF SetCompression, LoginSuccess, Disconnect
<1>4. ASSUME NEW t \in Thresholds, sets = Off, PushLogin(SetCompression, <<<<t>>>>),
             sets' = t, stage' = stage
      PROVE  ServerInv'
  <2>1. t \in VarInts /\ t # Off
    BY PacketAssumption DEF PacketAssumption, VarInts, Off
  <2>2. Payload(SetCompression, Row(SetCompression), <<<<t>>>>) = Sent(SetCompression) \o Sent(t)
    BY <2>1, LoginPayloads
  <2>3. Sent(t) \in Seq(Octet)
    BY <2>1, SentSizes
  <2>4. Sendable(Payload(SetCompression, Row(SetCompression), <<<<t>>>>))
    BY LoginSendable
  <2> HIDE DEF Row
  <2>5. QED
    BY <1>2, <1>3, <1>4, <2>1, <2>2, <2>3, <2>4
<1>5. ASSUME PushLogin(LoginSuccess, << << 1 >>, << 2 >> >>), stage' = "play", sets' = sets
      PROVE  ServerInv'
  <2>1. PICK z \in Seq(Octet) :
          Payload(LoginSuccess, Row(LoginSuccess), <<<<1>>, <<2>>>>) = Sent(LoginSuccess) \o z
    BY LoginPayloads
  <2>2. Sendable(Payload(LoginSuccess, Row(LoginSuccess), <<<<1>>, <<2>>>>))
    BY LoginSendable
  <2> HIDE DEF Row
  <2>3. QED
    BY <1>1, <1>2, <1>3, <1>5, <2>1, <2>2
<1>6. ASSUME PushLogin(Disconnect, << << 1 >> >>), stage' = "kicked", sets' = sets
      PROVE  ServerInv'
  <2>1. PICK z \in Seq(Octet) :
          Payload(Disconnect, Row(Disconnect), <<<<1>>>>) = Sent(Disconnect) \o z
    BY LoginPayloads
  <2>2. Sendable(Payload(Disconnect, Row(Disconnect), <<<<1>>>>))
    BY LoginSendable
  <2> HIDE DEF Row
  <2>3. QED
    BY <1>1, <1>2, <1>3, <1>6, <2>1, <2>2
<1>7. QED
  BY <1>4, <1>5, <1>6 DEF ServerLogin

LEMMA PlayServes ==
  ASSUME ReadInv, ServerInv, ServerPlay
  PROVE  ServerInv'
<1>1. stage = "play" /\ UNCHANGED <<stage, sets>> /\ "play" # "kicked"
      /\ sets \in VarInts \cup {Off} /\ IsSeq(pushed)
  BY DEF ServerPlay, ServerInv, ReadInv, SentSoFar
<1>2. PICK samples \in {Core, Samples} : PushOneOf(samples)
  BY DEF ServerPlay
<1>3. PICK id \in DOMAIN samples : \E s \in samples[id] : Push(id, s.payload, s.values, s.whole)
  BY <1>2 DEF PushOneOf
<1>4. PICK s \in samples[id] : Push(id, s.payload, s.values, s.whole)
  BY <1>3
<1>5. id \in VarInts /\ s.payload # <<>> /\ Sendable(s.payload) /\ Described(id, s)
  BY PacketAssumption DEF PacketAssumption
<1>6. PICK p : /\ Adds(p) /\ p.table = stage /\ p.id = id /\ p.payload = s.payload
               /\ p.values = s.values /\ p.whole = s.whole /\ p.zipped = Zips(s.payload)
               /\ sealing' = AfterByte(p.bytes, sealing)
               /\ LET frame == Encrypted(ServerFramed(s.payload), sealing) IN
                  p.bytes \in {frame} \cup CutOff(frame) /\ closed' = (p.bytes # frame)
  BY <1>1, <1>4, PushAdds
<1>7. Described(id, p)
  BY <1>5, <1>6 DEF Described
<1>8. Right(p, sets) /\ p.payload # <<>> /\ Sendable(p.payload) /\ p.zipped = Zips(p.payload)
  <2>1. p.payload \in Seq(Octet)
    BY <1>5, <1>6 DEF Sendable
  <2>2. QED
    BY <1>1, <1>5, <1>6, <1>7, <2>1, DescribedRight
<1>9. ~Setting(p) /\ ~Admitting(p)
  BY <1>1, <1>6 DEF Setting, Admitting
<1>10. PICK frame : /\ frame = Encrypted(ServerFramed(p.payload), sealing)
                    /\ p.bytes \in {frame} \cup CutOff(frame) /\ closed' = (p.bytes # frame)
  BY <1>6
<1>11. ~closed
  BY <1>4 DEF Push
<1>12. QED
  BY <1>1, <1>6, <1>8, <1>9, <1>10, <1>11, PushServes

LEMMA ServedStays ==
  ASSUME ServerInv, UNCHANGED <<stage, sets, sealing, pushed>>, closed => closed'
  PROVE  ServerInv'
<1>1. /\ \A k : SetBefore(k)' = SetBefore(k) /\ TableAt(k)' = TableAt(k)
      /\ \A k : LimitAt(k)' = LimitAt(k) /\ SealAt(k)' = SealAt(k)
  BY DEF SetBefore, LimitAt, AdmittedBefore, TableAt, SealAt, Frames, Start
<1>2. \A k \in 1 .. Len(pushed) : SentAs(k)'
  BY <1>1 DEF ServerInv, SentAs
<1>3. QED
  BY <1>1, <1>2 DEF ServerInv

LEMMA StepServed == ReadInv /\ ServerInv /\ [Next]_vars => ServerInv'
<1> SUFFICES ASSUME ReadInv, ServerInv, [Next]_vars PROVE ServerInv'
  OBVIOUS
<1>1. CASE ServerLogin \/ ServerPlay
  BY <1>1, LoginServes, PlayServes
<1>2. CASE ServerClose
  BY <1>2, ServedStays DEF ServerClose
<1>3. CASE Thread \/ Chat \/ Registering
  BY <1>3, ServedStays DEF Thread, ReadLength, ReadBody, Parse, React, Listen, Write,
                           WriteRaises, Chat, Registering, server
<1>4. CASE UNCHANGED vars
  BY <1>4, ServedStays DEF vars, server
<1>5. QED
  BY <1>1, <1>2, <1>3, <1>4 DEF Next, Server
-----------------------------------------------------------------------------
(* The client has the packets as they were sent *)

\* What is in the k-th packet, and that it was sent to the last byte.
InnerAt(k) == Inner(pushed[k].payload, LimitAt(k))
WholeAt(k) == pushed[k].bytes = Wrapped(pushed[k].payload, LimitAt(k), SealAt(k))

\* The k-th packet taken is what the client makes of the k-th sent.
TakenAs(k) == LET got == Parsed(pushed[k].payload, pushed[k].table) IN
  got.ok /\ taken[k] = got.packet

\* The client has the table and the threshold of the k-th packet.
SetFor(k) == table = TableAt(k) /\ threshold = LimitAt(k)

ReaderInv ==
  /\ Len(taken) <= Len(pushed)
  /\ \A k \in 1 .. Len(taken) : TakenAs(k)
  /\ pc \in {"waiting", "body", "parsing", "listening"} => SetFor(Len(taken) + 1)
  /\ pc = "reacting" => SetFor(Len(taken))
  /\ pc = "body" => \/ closed /\ Len(stream) < length
                    \/ WholeAt(Len(taken) + 1) /\ length = Len(InnerAt(Len(taken) + 1))
  /\ pc = "parsing" => data = InnerAt(Len(taken) + 1)

LEMMA InitReader == Init => ReaderInv
<1> SUFFICES ASSUME Init PROVE ReaderInv
  OBVIOUS
<1>1. pushed = <<>> /\ taken = <<>> /\ pc = "waiting" /\ table = "login" /\ threshold = Off
  BY DEF Init
<1>2. Len(pushed) = 0 /\ Len(taken) = 0
  BY <1>1
<1>3. ~SetBefore(0 + 1) /\ ~AdmittedBefore(0 + 1)
  BY DEF SetBefore, AdmittedBefore
<1>4. QED
  BY <1>1, <1>2, <1>3 DEF ReaderInv, SetFor, TableAt, LimitAt

\* At a step of the client what the server has sent stays.
LEMMA SentSame ==
  ASSUME UNCHANGED server
  PROVE  /\ \A k : TableAt(k)' = TableAt(k) /\ LimitAt(k)' = LimitAt(k)
         /\ \A k : SealAt(k)' = SealAt(k) /\ InnerAt(k)' = InnerAt(k)
         /\ \A k : WholeAt(k)' = WholeAt(k)
         /\ pushed' = pushed /\ sets' = sets /\ closed' = closed
<1>1. pushed' = pushed /\ sets' = sets /\ closed' = closed /\ sealing' = sealing
  BY DEF server
<1>2. /\ \A k : TableAt(k)' = TableAt(k) /\ LimitAt(k)' = LimitAt(k)
      /\ \A k : SealAt(k)' = SealAt(k)
  BY <1>1 DEF SetBefore, LimitAt, AdmittedBefore, TableAt, SealAt, Frames, Start
<1>3. \A k : InnerAt(k)' = InnerAt(k)
  BY <1>1, <1>2 DEF InnerAt
<1>4. \A k : WholeAt(k)' = WholeAt(k)
  BY <1>1, <1>2 DEF WholeAt
<1>5. QED
  BY <1>1, <1>2, <1>3, <1>4

\* A packet more on its way.
LEMMA PushReader ==
  ASSUME ListenInv, ReadInv, ServerInv, ReaderInv, NEW p, Adds(p), ~closed,
         p.bytes \in Seq(Octet), sealing' = AfterByte(p.bytes, sealing),
         sets' = sets \/ sets = Off, UNCHANGED client
  PROVE  ReaderInv'
<1>1. PICK l, n : /\ l = Len(pushed) /\ l \in Nat /\ Len(pushed') = l + 1
                  /\ n = Len(taken) /\ n \in Nat /\ n <= l
  <2>1. Len(taken) \in Nat
    BY DEF ReadInv, IsSeq
  <2>2. QED
    BY <2>1 DEF Adds, ReaderInv
<1>2. \A k \in 1 .. l : pushed'[k] = pushed[k]
  BY <1>1 DEF Adds
<1>3. \A k \in 1 .. l + 1 : LimitAt(k)' = LimitAt(k) /\ TableAt(k)' = TableAt(k)
  BY <1>1, LimitsStay
<1>4. \A k \in 1 .. l + 1 : SealAt(k)' = SealAt(k)
  <2>1. \A k \in 0 .. l : Seal(Frames, k, Start)' = Seal(Frames, k, Start)
    BY <1>1, AddsFrame DEF ReadInv
  <2>2. \A k \in 1 .. l + 1 : k - 1 \in 0 .. l
    BY <1>1
  <2>3. QED
    BY <2>1, <2>2 DEF SealAt
<1>5. \A k \in 1 .. l : k \in 1 .. l + 1
  BY <1>1
<1>6. \A k \in 1 .. l : InnerAt(k)' = InnerAt(k)
  BY <1>2, <1>3, <1>5 DEF InnerAt
<1>7. \A k \in 1 .. l : WholeAt(k)' = WholeAt(k)
  BY <1>2, <1>3, <1>4, <1>5 DEF WholeAt
<1>8. UNCHANGED <<table, threshold, pc, length, data, taken>>
  BY DEF client
<1>9. \A k \in 1 .. l + 1 : SetFor(k)' = SetFor(k)
  BY <1>3, <1>8 DEF SetFor
<1>10. \A k \in 1 .. n : TakenAs(k)'
  <2>1. \A k \in 1 .. n : TakenAs(k) /\ k \in 1 .. l
    BY <1>1 DEF ReaderInv
  <2>2. QED
    BY <1>2, <1>8, <2>1 DEF TakenAs
<1>11. pc \in {"waiting", "body", "parsing", "listening"} => SetFor(n + 1)'
  <2>1. n + 1 \in 1 .. l + 1
    BY <1>1
  <2>2. QED
    BY <1>1, <1>9, <2>1 DEF ReaderInv
<1>12. pc = "reacting" => SetFor(n)'
  <2>1. pc = "reacting" => n \in 1 .. l + 1
    <3>1. PICK S : taken \in Seq(S)
      BY DEF ReadInv, IsSeq
    <3>2. pc = "reacting" => taken # <<>>
      BY DEF ListenInv, InHand
    <3>3. QED
      BY <1>1, <3>1, <3>2
  <2>2. QED
    BY <1>1, <1>9, <2>1 DEF ReaderInv
<1>13. pc \in {"body", "parsing"} => n + 1 \in 1 .. l
  BY <1>1 DEF ReadInv, Within, Behind
<1>14. pc = "body" => WholeAt(n + 1)' /\ length = Len(InnerAt(n + 1)')
  BY <1>1, <1>6, <1>7, <1>13 DEF ReaderInv
<1>15. pc = "parsing" => data = InnerAt(n + 1)'
  BY <1>1, <1>6, <1>13 DEF ReaderInv
<1>16. QED
  BY <1>1, <1>8, <1>10, <1>11, <1>12, <1>14, <1>15 DEF ReaderInv

LEMMA PushSent ==
  ASSUME ReadInv, NEW id, NEW payload, NEW values, NEW whole, Sendable(payload),
         Push(id, payload, values, whole)
  PROVE  \E p : /\ Adds(p) /\ ~closed /\ p.bytes \in Seq(Octet)
                /\ sealing' = AfterByte(p.bytes, sealing)
<1>1. sealing \in States /\ IsSeq(pushed)
  BY DEF ReadInv, SentSoFar
<1>2. PICK p : /\ Adds(p) /\ p.table = stage /\ p.id = id /\ p.payload = payload
               /\ p.values = values /\ p.whole = whole /\ p.zipped = Zips(payload)
               /\ stream' = stream \o p.bytes /\ sealing' = AfterByte(p.bytes, sealing)
               /\ LET frame == Encrypted(ServerFramed(payload), sealing) IN
                  p.bytes \in {frame} \cup CutOff(frame) /\ closed' = (p.bytes # frame)
  BY <1>1, PushAdds
<1>3. PICK frame : frame = Encrypted(ServerFramed(payload), sealing)
                   /\ p.bytes \in {frame} \cup CutOff(frame)
  BY <1>2
<1>4. frame \in Seq(Octet) /\ Frame(frame, sealing) /\ Len(frame) > 0
  BY <1>1, <1>3, SentWhole
<1>5. p.bytes \in Seq(Octet)
  BY <1>1, <1>3, <1>4, SentCut
<1>6. ~closed
  BY DEF Push
<1>7. QED
  BY <1>2, <1>5, <1>6

LEMMA ServerAdds ==
  ASSUME ReadInv, ServerLogin \/ ServerPlay
  PROVE  \E p : /\ Adds(p) /\ ~closed /\ p.bytes \in Seq(Octet)
                /\ sealing' = AfterByte(p.bytes, sealing)
<1> DEFINE Goal == \E p : /\ Adds(p) /\ ~closed /\ p.bytes \in Seq(Octet)
                          /\ sealing' = AfterByte(p.bytes, sealing)
<1>1. ASSUME NEW id, NEW payload, NEW values, NEW whole, Sendable(payload),
             Push(id, payload, values, whole)
      PROVE  Goal
  BY <1>1, PushSent
<1> HIDE DEF Goal
<1>2. ASSUME ServerLogin PROVE Goal
  <2>1. ASSUME NEW id, NEW values, PushLogin(id, values),
               Sendable(Payload(id, LoginClientbound[id + 1], values))
        PROVE  Goal
    BY <1>1, <2>1 DEF PushLogin
  <2>2. \/ \E t \in Thresholds : PushLogin(SetCompression, <<<<t>>>>)
        \/ PushLogin(LoginSuccess, <<<<1>>, <<2>>>>)
        \/ PushLogin(Disconnect, <<<<1>>>>)
    BY <1>2 DEF ServerLogin
  <2>3. QED
    BY <2>1, <2>2, LoginSendable
<1>3. ASSUME ServerPlay PROVE Goal
  <2>1. PICK samples \in {Core, Samples} : PushOneOf(samples)
    BY <1>3 DEF ServerPlay
  <2>2. PICK id \in DOMAIN samples : \E s \in samples[id] : Push(id, s.payload, s.values, s.whole)
    BY <2>1 DEF PushOneOf
  <2>3. PICK s \in samples[id] : Push(id, s.payload, s.values, s.whole)
    BY <2>2
  <2>4. Sendable(s.payload)
    BY PacketAssumption DEF PacketAssumption
  <2>5. QED
    BY <1>1, <2>3, <2>4
<1>4. QED
  BY <1>2, <1>3 DEF Goal

LEMMA ServerReader ==
  ASSUME ListenInv, ReadInv, ServerInv, ReaderInv, Server
  PROVE  ReaderInv'
<1>1. ASSUME ServerLogin \/ ServerPlay PROVE ReaderInv'
  <2>1. PICK p : /\ Adds(p) /\ ~closed /\ p.bytes \in Seq(Octet)
                 /\ sealing' = AfterByte(p.bytes, sealing)
    BY <1>1, ServerAdds
  <2>2. (sets' = sets \/ sets = Off) /\ UNCHANGED client
    BY <1>1 DEF ServerLogin, ServerPlay
  <2>3. QED
    BY <2>1, <2>2, PushReader
<1>2. ASSUME ServerClose PROVE ReaderInv'
  <2>1. /\ ~closed /\ closed' /\ UNCHANGED <<pushed, sets, sealing, stream>>
        /\ UNCHANGED <<table, threshold, pc, length, data, taken>>
    BY <1>2 DEF ServerClose, client
  <2>2. /\ \A k : TableAt(k)' = TableAt(k) /\ LimitAt(k)' = LimitAt(k)
        /\ \A k : SealAt(k)' = SealAt(k)
    BY <2>1 DEF SetBefore, LimitAt, AdmittedBefore, TableAt, SealAt, Frames, Start
  <2>3. \A k : InnerAt(k)' = InnerAt(k)
    BY <2>1, <2>2 DEF InnerAt
  <2>4. \A k : WholeAt(k)' = WholeAt(k) /\ SetFor(k)' = SetFor(k) /\ TakenAs(k)' = TakenAs(k)
    BY <2>1, <2>2 DEF WholeAt, SetFor, TakenAs
  <2>5. QED
    BY <2>1, <2>3, <2>4 DEF ReaderInv
<1>3. QED
  BY <1>1, <1>2 DEF Server

\* The stream where the thread looks for a packet.
LEMMA StreamAt ==
  ASSUME ReadInv, pc = "waiting", NEW n, n = Len(taken), n < Len(pushed)
  PROVE  /\ n + 1 \in 1 .. Len(pushed) /\ SealAt(n + 1) \in States /\ decryptor = SealAt(n + 1)
         /\ pushed[n + 1].bytes \in Seq(Octet)
         /\ \E r \in Seq(Octet) : /\ stream = pushed[n + 1].bytes \o r
                                  /\ n + 1 = Len(pushed) => r = <<>>
<1> DEFINE f == Frames
           d == Start
           b == pushed[n + 1].bytes
<1>1. /\ f \in Seq(Seq(Octet)) /\ Len(f) = Len(pushed) /\ Len(pushed) \in Nat /\ d \in States
  BY FramesAre DEF ReadInv
<1>2. n \in Nat /\ Stands(f, d, n, stream, decryptor)
  BY DEF ReadInv, Between, AtPacket, IsSeq
<1>3. n + 1 \in 1 .. Len(pushed) /\ (n + 1) - 1 = n /\ n \in 0 .. Len(pushed)
  BY <1>1, <1>2
<1>4. f[n + 1] = b
  BY <1>3 DEF Frames
<1>5. b \in Seq(Octet)
  <2> DEFINE R == Seq(Octet)
  <2>1. f \in Seq(R)
    BY <1>1
  <2> HIDE DEF R, f, b
  <2>2. f[n + 1] \in R
    BY <1>1, <1>3, <2>1
  <2>3. QED
    BY <1>4, <2>2 DEF R
<1> HIDE DEF f, d, b
<1>6. stream = Rest(f, n) /\ decryptor = Seal(f, n, d) /\ Seal(f, n, d) \in States
  BY <1>1, <1>2, <1>3, SealNext DEF Stands
<1>7. Rest(f, (n + 1) - 1) = f[n + 1] \o Rest(f, n + 1)
  BY <1>1, <1>3, PartsNext, Zenon
<1>8. Rest(f, n + 1) \in Seq(Octet) /\ Rest(f, Len(f)) = <<>>
  <2>1. n + 1 \in 0 .. Len(f)
    BY <1>1, <1>3
  <2>2. QED
    BY <1>1, <2>1, PartsType
<1>9. stream = b \o Rest(f, n + 1)
  BY <1>3, <1>4, <1>6, <1>7
<1>10. n + 1 = Len(pushed) => Rest(f, n + 1) = <<>>
  BY <1>1, <1>8
<1>11. SealAt(n + 1) = Seal(f, n, d)
  BY <1>3 DEF SealAt, f, d
<1>12. QED
  BY <1>3, <1>5, <1>6, <1>8, <1>9, <1>10, <1>11 DEF b

LEMMA ReaderSame ==
  ASSUME UNCHANGED <<server, table, threshold, taken>>
  PROVE  /\ \A k : TakenAs(k)' = TakenAs(k) /\ SetFor(k)' = SetFor(k)
         /\ \A k : WholeAt(k)' = WholeAt(k) /\ InnerAt(k)' = InnerAt(k)
         /\ pushed' = pushed /\ taken' = taken /\ closed' = closed
<1>1. /\ \A k : TableAt(k)' = TableAt(k) /\ LimitAt(k)' = LimitAt(k)
      /\ \A k : WholeAt(k)' = WholeAt(k) /\ InnerAt(k)' = InnerAt(k)
      /\ pushed' = pushed /\ sets' = sets /\ closed' = closed
  BY SentSame
<1>2. QED
  BY <1>1 DEF TakenAs, SetFor

\* The length of a packet is that of what is in it, or that of one that is cut off.
LEMMA LengthReader ==
  ASSUME ReadInv, ServerInv, ReaderInv, ReadLength
  PROVE  ReaderInv'
<1>1. pc = "waiting" /\ UNCHANGED <<server, table, threshold, taken>>
  BY DEF ReadLength
<1>2. /\ \A k : TakenAs(k)' = TakenAs(k) /\ SetFor(k)' = SetFor(k)
      /\ \A k : WholeAt(k)' = WholeAt(k) /\ InnerAt(k)' = InnerAt(k)
      /\ pushed' = pushed /\ taken' = taken /\ closed' = closed
  BY <1>1, ReaderSame
<1>3. CASE ~Whole(Plaintext)
  BY <1>1, <1>2, <1>3 DEF ReadLength, ReaderInv
<1>4. CASE Whole(Plaintext)
  <2>1. /\ pc' = "body" /\ length' = Received(Plaintext)
        /\ stream' = Left(Used(Plaintext), stream)
    BY <1>4 DEF ReadLength, Consume
  <2>2. PICK n : n = Len(taken) /\ n < Len(pushed)
    <3>1. ReadInv'
      BY LengthReads
    <3>2. QED
      BY <1>2, <2>1, <3>1 DEF ReadInv, Within
  <2>3. PICK p, z, c, t :
          p = pushed[n + 1] /\ z = p.bytes /\ c = SealAt(n + 1) /\ t = LimitAt(n + 1)
    OBVIOUS
  <2>4. /\ n + 1 \in 1 .. Len(pushed) /\ c \in States /\ decryptor = c /\ z \in Seq(Octet)
        /\ \E r \in Seq(Octet) : stream = z \o r /\ (n + 1 = Len(pushed) => r = <<>>)
    BY <1>1, <2>2, <2>3, StreamAt
  <2>5. PICK r \in Seq(Octet) : stream = z \o r /\ (n + 1 = Len(pushed) => r = <<>>)
    BY <2>4
  <2>6. Plaintext = Decrypted(z \o r, c)
    BY <2>4, <2>5, Zenon DEF Plaintext
  <2>7. /\ Sendable(p.payload)
        /\ \/ z = Wrapped(p.payload, t, c)
           \/ closed /\ n + 1 = Len(pushed) /\ Cut(z, c)
    BY <2>3, <2>4 DEF ServerInv, SentAs
  <2>8. CASE z = Wrapped(p.payload, t, c)
    <3>1. /\ Whole(Decrypted(z, c))
          /\ Received(Decrypted(z, c)) = Len(Inner(p.payload, t))
      BY <2>4, <2>7, <2>8, PackedIs
    <3>2. Received(Decrypted(z \o r, c)) = Received(Decrypted(z, c))
      BY <2>4, <3>1, LengthOf
    <3>3. length' = Len(Inner(p.payload, t))
      BY <2>1, <2>6, <3>1, <3>2, Zenon
    <3>4. WholeAt(n + 1) /\ Inner(p.payload, t) = InnerAt(n + 1)
      BY <2>3, <2>8 DEF WholeAt, InnerAt
    <3>5. WholeAt(n + 1)' /\ length' = Len(InnerAt(n + 1)')
      BY <1>2, <3>3, <3>4
    <3>6. QED
      BY <1>1, <1>2, <2>1, <2>2, <3>5 DEF ReaderInv
  <2>9. CASE closed /\ n + 1 = Len(pushed) /\ Cut(z, c)
    <3>1. stream = z /\ Plaintext = Decrypted(z, c)
      <4>1. r = <<>> /\ z \o <<>> = z
        BY <2>4, <2>5, <2>9
      <4>2. stream = z
        BY <2>5, <4>1, Zenon
      <4>3. QED
        BY <2>4, <4>2, Zenon DEF Plaintext
    <3>2. /\ Len(z) < Used(Plaintext) + Received(Plaintext)
      BY <1>4, <2>9, <3>1 DEF Cut
    <3>3. /\ Used(Plaintext) \in 1 .. 5 /\ Used(Plaintext) <= Len(z) /\ Received(Plaintext) \in Nat
      <4>1. Decrypted(z, c) \in Seq(Octet) /\ Len(Decrypted(z, c)) = Len(z)
        BY <2>4, DecryptedIs
      <4>2. Plaintext \in Seq(Octet) /\ Len(Plaintext) = Len(z)
        BY <3>1, <4>1, Zenon
      <4>3. Received(Plaintext) \in VarInts /\ Used(Plaintext) \in 1 .. 5
            /\ Used(Plaintext) <= Len(Plaintext)
        BY <1>4, <4>2, ReceivedIs
      <4>4. QED
        BY <4>2, <4>3 DEF VarInts
    <3>4. Len(z) \in Nat
      BY <2>4
    <3>5. Len(Left(Used(Plaintext), z)) = Len(z) - Used(Plaintext)
      <4>1. Used(Plaintext) \in 0 .. Len(z)
        BY <3>3, <3>4
      <4>2. QED
        BY <2>4, <4>1, Splits
    <3>6. Len(stream') < length' /\ closed'
      BY <1>2, <2>1, <2>9, <3>1, <3>2, <3>3, <3>4, <3>5
    <3>7. QED
      BY <1>1, <1>2, <2>1, <3>6 DEF ReaderInv
  <2>10. QED
    BY <2>7, <2>8, <2>9
<1>5. QED
  BY <1>3, <1>4

\* Where the thread is inside a packet.
LEMMA StreamIn ==
  ASSUME ReadInv, pc = "body", NEW n, n = Len(taken), stream \in Seq(Octet),
         Len(stream) >= length
  PROVE  /\ n + 1 \in 1 .. Len(pushed) /\ SealAt(n + 1) \in States
         /\ pushed[n + 1].bytes \in Seq(Octet) /\ length \in Nat
         /\ \E u \in 0 .. Len(pushed[n + 1].bytes), r \in Seq(Octet) :
              /\ u + length = Len(pushed[n + 1].bytes)
              /\ stream = Left(u, pushed[n + 1].bytes) \o r
              /\ decryptor = AfterByte(Took(u, pushed[n + 1].bytes), SealAt(n + 1))
<1> DEFINE f == Frames
           d == Start
           b == pushed[n + 1].bytes
<1>1. /\ f \in Seq(Seq(Octet)) /\ Len(f) = Len(pushed) /\ Len(pushed) \in Nat /\ d \in States
  BY FramesAre DEF ReadInv
<1>2. n \in Nat /\ n < Len(pushed) /\ length \in Nat
  BY DEF ReadInv, Within, IsSeq
<1>3. n + 1 \in 1 .. Len(pushed) /\ (n + 1) - 1 = n /\ n \in 0 .. Len(pushed)
  BY <1>1, <1>2
<1>4. Inside(f, d, n + 1, stream, decryptor, length)
  <2>1. Inside(f, d, n + 1, stream, decryptor, length) \/ Len(stream) < length
    BY DEF ReadInv, Within
  <2>2. Len(stream) \in Nat
    OBVIOUS
  <2>3. ~(Len(stream) < length)
    BY <1>2, <2>2
  <2>4. QED
    BY <2>1, <2>3
<1>5. f[n + 1] = b
  BY <1>3 DEF Frames
<1>6. b \in Seq(Octet)
  <2> DEFINE R == Seq(Octet)
  <2>1. f \in Seq(R)
    BY <1>1
  <2> HIDE DEF R, f, b
  <2>2. f[n + 1] \in R
    BY <1>1, <1>3, <2>1
  <2>3. QED
    BY <1>5, <2>2 DEF R
<1>7. SealAt(n + 1) = Seal(f, n, d)
  BY <1>3 DEF SealAt
<1> HIDE DEF f, d, b
<1>8. Seal(f, n, d) \in States /\ Rest(f, n + 1) \in Seq(Octet)
  <2>1. n + 1 \in 0 .. Len(f)
    BY <1>1, <1>3
  <2>2. QED
    BY <1>1, <1>3, <2>1, SealNext, PartsType
<1>9. PICK u \in 0 .. Len(b) :
        /\ u + length = Len(b) /\ stream = Left(u, b) \o Rest(f, n + 1)
        /\ decryptor = AfterByte(Took(u, b), Seal(f, n, d))
  BY <1>3, <1>4, <1>5 DEF Inside
<1>10. QED
  BY <1>2, <1>3, <1>6, <1>7, <1>8, <1>9 DEF b

\* The data of a packet are what is in it.
LEMMA BodyReader ==
  ASSUME ReadInv, ServerInv, ReaderInv, stream \in Seq(Octet), ReadBody
  PROVE  ReaderInv'
<1>1. pc = "body" /\ UNCHANGED <<server, table, threshold, taken>>
  BY DEF ReadBody
<1>2. /\ \A k : TakenAs(k)' = TakenAs(k) /\ SetFor(k)' = SetFor(k)
      /\ \A k : WholeAt(k)' = WholeAt(k) /\ InnerAt(k)' = InnerAt(k)
      /\ pushed' = pushed /\ taken' = taken /\ closed' = closed
  BY <1>1, ReaderSame
<1>3. CASE pc' = "spinning"
  BY <1>1, <1>2, <1>3 DEF ReaderInv
<1>4. CASE Len(stream) >= length /\ pc' = "parsing" /\ data' = Took(length, Plaintext)
  <2>1. PICK n : n = Len(taken)
    OBVIOUS
  <2>2. PICK p, z, c, t :
          p = pushed[n + 1] /\ z = p.bytes /\ c = SealAt(n + 1) /\ t = LimitAt(n + 1)
    OBVIOUS
  <2>3. /\ n + 1 \in 1 .. Len(pushed) /\ c \in States /\ z \in Seq(Octet) /\ length \in Nat
        /\ \E u \in 0 .. Len(z), r \in Seq(Octet) :
             /\ u + length = Len(z) /\ stream = Left(u, z) \o r
             /\ decryptor = AfterByte(Took(u, z), c)
    BY <1>1, <1>4, <2>1, <2>2, StreamIn
  <2>4. PICK u \in 0 .. Len(z), r \in Seq(Octet) :
          /\ u + length = Len(z) /\ stream = Left(u, z) \o r
          /\ decryptor = AfterByte(Took(u, z), c)
    BY <2>3
  <2>5. Sendable(p.payload)
    BY <2>2, <2>3 DEF ServerInv, SentAs
  <2>6. WholeAt(n + 1) /\ length = Len(InnerAt(n + 1))
    <3>1. Len(stream) \in Nat
      OBVIOUS
    <3>2. ~(Len(stream) < length)
      BY <1>4, <2>3, <3>1
    <3>3. QED
      BY <1>1, <2>1, <3>2 DEF ReaderInv
  <2>7. PICK body : body = Inner(p.payload, t) /\ body = InnerAt(n + 1)
    BY <2>2 DEF InnerAt
  <2>8. z = Wrapped(p.payload, t, c)
    BY <2>2, <2>6 DEF WholeAt
  <2>9. PICK x : x = Sent(Len(body))
    OBVIOUS
  <2>10. /\ Decrypted(z, c) = x \o body /\ x \in Seq(Octet) /\ Len(x) \in 1 .. 5
         /\ Len(z) = Len(x) + Len(body)
    BY <2>3, <2>5, <2>7, <2>8, <2>9, PackedIs
  <2>11. body \in Seq(Octet)
    BY <2>5, <2>7, InnerIs
  <2>12. u = Len(x) /\ u \in 1 .. Len(z)
    <3>1. Len(body) \in Nat /\ Len(z) \in Nat
      BY <2>3, <2>11
    <3>2. length = Len(body)
      BY <2>6, <2>7, Zenon
    <3>3. u + Len(body) = Len(x) + Len(body) /\ u \in 0 .. Len(z)
      BY <2>4, <2>10, <3>2
    <3>4. Len(x) \in 1 .. 5
      BY <2>10
    <3>5. QED
      BY <3>1, <3>3, <3>4
  <2>13. Took(length, Decrypted(Left(u, z) \o r, AfterByte(Took(u, z), c)))
           = Left(u, Decrypted(z, c))
    BY <2>3, <2>4, <2>12, BodyOf
  <2>14. Plaintext = Decrypted(Left(u, z) \o r, AfterByte(Took(u, z), c))
    BY <2>4, Zenon DEF Plaintext
  <2>15. Left(Len(x), x \o body) = body
    BY <2>10, <2>11, JoinedApart
  <2>16. data' = body
    BY <1>4, <2>10, <2>12, <2>13, <2>14, <2>15, Zenon
  <2>17. data' = InnerAt(n + 1)'
    BY <1>2, <2>7, <2>16
  <2>18. QED
    BY <1>1, <1>2, <1>4, <2>1, <2>17 DEF ReaderInv
<1>5. QED
  BY <1>3, <1>4 DEF ReadBody

\* A packet is what the client makes of its payload, with the table it was sent from.
LEMMA ParseReader ==
  ASSUME ReadInv, ServerInv, ReaderInv, Parse
  PROVE  ReaderInv'
<1>1. pc = "parsing" /\ UNCHANGED <<server, table, threshold>> /\ IsSeq(taken)
  BY DEF Parse, ReadInv
<1>2. /\ \A k : TableAt(k)' = TableAt(k) /\ LimitAt(k)' = LimitAt(k)
      /\ pushed' = pushed
  BY <1>1, SentSame
<1>3. PICK n : n = Len(taken) /\ n < Len(pushed) /\ n \in Nat /\ Len(pushed) \in Nat
  <2>1. Len(pushed) \in Nat /\ Len(taken) \in Nat
    BY FramesAre DEF ReadInv, IsSeq
  <2>2. QED
    BY <1>1, <2>1 DEF ReadInv, Behind
<1>4. n + 1 \in 1 .. Len(pushed)
  BY <1>3
<1>5. PICK p, t : p = pushed[n + 1] /\ t = LimitAt(n + 1)
  OBVIOUS
<1>6. /\ Sendable(p.payload) /\ p.payload # <<>> /\ p.table = TableAt(n + 1)
      /\ t \in VarInts \cup {Off}
  BY <1>4, <1>5 DEF ServerInv, SentAs, LimitAt
<1>7. data = Inner(p.payload, t) /\ threshold = t /\ table = p.table
  BY <1>1, <1>3, <1>5, <1>6 DEF ReaderInv, SetFor, InnerAt
<1>8. PICK body : body = Unwrapped(data, threshold # Off)
  OBVIOUS
<1>9. PICK got : got = Parsed(body.value, table)
  OBVIOUS
<1>10. CASE body.ok /\ got.ok
  <2>1. pc' = "reacting" /\ taken' = Append(taken, got.packet)
    BY <1>8, <1>9, <1>10 DEF Parse
  <2>2. body = Unwrapped(Inner(p.payload, t), t # Off)
    BY <1>7, <1>8
  <2>3. body.value = p.payload
    BY <1>6, <1>10, <2>2, UnwrapSent
  <2>4. got = Parsed(p.payload, p.table)
    BY <1>7, <1>9, <2>3
  <2>5. /\ Len(taken') = n + 1 /\ taken'[n + 1] = got.packet
        /\ \A k \in 1 .. n : taken'[k] = taken[k]
    <3>1. PICK S : taken \in Seq(S)
      BY <1>1 DEF IsSeq
    <3> DEFINE R == S \cup {got.packet}
    <3>2. taken \in Seq(R) /\ got.packet \in R
      BY <3>1
    <3> HIDE DEF R
    <3>3. QED
      BY <1>3, <2>1, <3>2, AppendProperties
  <2>6. TakenAs(n + 1)'
    BY <1>2, <1>5, <1>10, <2>4, <2>5 DEF TakenAs
  <2>7. ASSUME NEW k \in 1 .. n PROVE TakenAs(k)'
    BY <1>2, <1>3, <2>5 DEF TakenAs, ReaderInv
  <2>8. SetFor(n + 1)'
    BY <1>1, <1>2, <1>3 DEF SetFor, ReaderInv
  <2>9. ASSUME NEW k \in 1 .. n + 1 PROVE TakenAs(k)'
    <3>1. k \in 1 .. n \/ k = n + 1
      BY <1>3
    <3>2. QED
      BY <2>6, <2>7, <3>1
  <2>10. n + 1 <= Len(pushed')
    BY <1>2, <1>3
  <2>11. QED
    BY <2>1, <2>5, <2>8, <2>9, <2>10 DEF ReaderInv
<1>11. CASE ~(body.ok /\ got.ok)
  <2>1. pc' = "broken" /\ taken' = taken
    BY <1>8, <1>9, <1>11 DEF Parse
  <2>2. \A k \in 1 .. Len(taken) : TakenAs(k)'
    BY <1>2, <2>1 DEF TakenAs, ReaderInv
  <2>3. QED
    BY <1>2, <2>1, <2>2 DEF ReaderInv
<1>12. QED
  BY <1>10, <1>11

\* One packet further: what it has set.
LEMMA FurtherOn ==
  ASSUME NEW n \in Nat \ {0}
  PROVE  /\ LimitAt(n + 1) = IF Setting(pushed[n]) THEN sets ELSE LimitAt(n)
         /\ TableAt(n + 1) = IF Admitting(pushed[n]) THEN "play" ELSE TableAt(n)
<1>1. (n + 1) - 1 = n /\ \A j : j \in 1 .. n <=> j \in 1 .. n - 1 \/ j = n
  OBVIOUS
<1>2. SetBefore(n + 1) <=> SetBefore(n) \/ Setting(pushed[n])
  BY <1>1, Zenon DEF SetBefore
<1>3. AdmittedBefore(n + 1) <=> AdmittedBefore(n) \/ Admitting(pushed[n])
  BY <1>1, Zenon DEF AdmittedBefore
<1>4. QED
  BY <1>2, <1>3 DEF LimitAt, TableAt

\* The reactor takes a packet for what it is.
LEMMA SeenAs ==
  ASSUME NEW p, p.table \in {"login", "play"},
         packet.table = p.table, packet.id = IdOf(p.table, p.id)
  PROVE  /\ Is("login", SetCompression) = Setting(p)
         /\ Is("login", LoginSuccess) = Admitting(p)
         /\ Is("play", KeepAlive) = Alive(p)
<1>1. /\ Len(ClientboundPackets["login"]) = 4 /\ Len(ClientboundPackets["play"]) = 77
  BY TablesTyped DEF ClientboundPackets
<1>2. CASE p.table = "login"
  <2>1. packet.id = IF p.id < 4 THEN p.id ELSE -1
    BY <1>1, <1>2 DEF IdOf, Base
  <2>2. packet.id = 3 <=> p.id = 3
    BY <2>1
  <2>3. packet.id = 2 <=> p.id = 2
    BY <2>1
  <2>4. QED
    BY <1>2, <2>2, <2>3 DEF Is, Setting, Admitting, Alive, SetCompression, LoginSuccess
<1>3. CASE p.table = "play"
  <2>1. packet.id = IF p.id < 77 THEN p.id ELSE -1
    BY <1>1, <1>3 DEF IdOf, Base
  <2>2. packet.id = 31 <=> p.id = 31
    BY <2>1
  <2>3. QED
    BY <1>3, <2>2 DEF Is, Setting, Admitting, Alive, KeepAlive
<1>4. QED
  BY <1>2, <1>3

\* The packet in hand, and what it was sent as.
LEMMA HandIs ==
  ASSUME ListenInv, ReadInv, ServerInv, ReaderInv, pc = "reacting", NEW n, n = Len(taken)
  PROVE  /\ n \in 1 .. Len(pushed) /\ n \in Nat \ {0} /\ packet.table = pushed[n].table
         /\ Is("login", SetCompression) = Setting(pushed[n])
         /\ Is("login", LoginSuccess) = Admitting(pushed[n])
         /\ Is("play", KeepAlive) = Alive(pushed[n])
         /\ Setting(pushed[n]) /\ packet.set[1].ok => packet.set[1].value = <<sets>>
         /\ Alive(pushed[n]) /\ packet.set[1].ok => \E v \in VarInts :
              packet.set[1].value = <<v>> /\ Number(pushed[n].payload) = Sent(v)
<1>1. taken # <<>> /\ packet = taken[n]
  BY DEF ListenInv, InHand
<1>2. n \in Nat \ {0} /\ Len(pushed) \in Nat /\ n <= Len(pushed)
  <2>1. PICK S : taken \in Seq(S)
    BY DEF ReadInv, IsSeq
  <2>2. Len(pushed) \in Nat
    BY FramesAre DEF ReadInv
  <2>3. QED
    BY <1>1, <2>1, <2>2 DEF ReaderInv
<1>3. n \in 1 .. Len(pushed) /\ n \in 1 .. n
  BY <1>2
<1>4. PICK p : p = pushed[n]
  OBVIOUS
<1>5. PICK got : got = Parsed(p.payload, p.table) /\ got.ok /\ packet = got.packet
  BY <1>1, <1>3, <1>4 DEF ReaderInv, TakenAs
<1>6. Right(p, sets) /\ p.table \in {"login", "play"}
  BY <1>3, <1>4 DEF ServerInv, SentAs, TableAt
<1>7. /\ packet.table = p.table /\ packet.id = IdOf(p.table, p.id)
      /\ Alive(p) /\ packet.set[1].ok => \E v \in VarInts :
           packet.set[1].value = <<v>> /\ Number(p.payload) = Sent(v)
      /\ Setting(p) /\ packet.set[1].ok => packet.set[1].value = <<sets>>
  BY <1>5, <1>6 DEF Right
<1>8. /\ Is("login", SetCompression) = Setting(p) /\ Is("login", LoginSuccess) = Admitting(p)
      /\ Is("play", KeepAlive) = Alive(p)
  BY <1>6, <1>7, SeenAs
<1>9. QED
  BY <1>2, <1>3, <1>4, <1>7, <1>8

\* The reactor sets the table and the threshold as the server has done.
LEMMA ReactReader ==
  ASSUME ListenInv, ReadInv, ServerInv, ReaderInv, React
  PROVE  ReaderInv'
<1>1. pc = "reacting" /\ UNCHANGED <<server, taken>>
  BY DEF React
<1>2. /\ \A k : TableAt(k)' = TableAt(k) /\ LimitAt(k)' = LimitAt(k) /\ pushed' = pushed
  BY <1>1, SentSame
<1>3. PICK n : n = Len(taken)
  OBVIOUS
<1>4. /\ n \in 1 .. Len(pushed) /\ n \in Nat \ {0}
      /\ Is("login", SetCompression) = Setting(pushed[n])
      /\ Is("login", LoginSuccess) = Admitting(pushed[n])
      /\ Setting(pushed[n]) /\ packet.set[1].ok => packet.set[1].value = <<sets>>
  BY <1>1, <1>3, HandIs
<1>5. table = TableAt(n) /\ threshold = LimitAt(n)
  BY <1>1, <1>3 DEF ReaderInv, SetFor
<1>6. \A k \in 1 .. Len(taken) : TakenAs(k)'
  BY <1>1, <1>2 DEF ReaderInv, TakenAs
<1>7. CASE \A i \in Reads : Has(i)
  <2>1. /\ pc' = "listening"
        /\ table' = IF Is("login", LoginSuccess) THEN "play" ELSE table
        /\ threshold' = IF Is("login", SetCompression) THEN packet.set[1].value[1]
                        ELSE threshold
    BY <1>7 DEF React
  <2>2. Is("login", SetCompression) => packet.set[1].ok
    BY <1>7 DEF Reads, Has
  <2>3. threshold' = LimitAt(n + 1)
    <3>1. LimitAt(n + 1) = IF Setting(pushed[n]) THEN sets ELSE LimitAt(n)
      BY <1>4, FurtherOn
    <3>2. QED
      BY <1>4, <1>5, <2>1, <2>2, <3>1
  <2>4. table' = TableAt(n + 1)
    <3>1. TableAt(n + 1) = IF Admitting(pushed[n]) THEN "play" ELSE TableAt(n)
      BY <1>4, FurtherOn
    <3>2. QED
      BY <1>4, <1>5, <2>1, <3>1
  <2>5. SetFor(n + 1)'
    BY <1>2, <2>3, <2>4 DEF SetFor
  <2>6. QED
    BY <1>1, <1>2, <1>3, <1>6, <2>1, <2>5 DEF ReaderInv
<1>8. CASE ~\A i \in Reads : Has(i)
  <2>1. pc' = "broken"
    BY <1>8 DEF React
  <2>2. QED
    BY <1>1, <1>2, <1>6, <2>1 DEF ReaderInv
<1>9. QED
  BY <1>7, <1>8

LEMMA StepReader ==
  ListenInv /\ ReadInv /\ WriteInv /\ ServerInv /\ ReaderInv /\ [Next]_vars => ReaderInv'
<1> SUFFICES ASSUME ListenInv, ReadInv, WriteInv, ServerInv, ReaderInv, [Next]_vars
             PROVE  ReaderInv'
  OBVIOUS
<1>1. ASSUME UNCHANGED <<server, stream, table, threshold, length, data, taken>>,
             \/ pc' = pc
             \/ pc = "listening" /\ pc' = "waiting"
             \/ pc' \in {"broken", "failed"}
      PROVE  ReaderInv'
  <2>1. /\ \A k : TakenAs(k)' = TakenAs(k) /\ SetFor(k)' = SetFor(k)
        /\ \A k : WholeAt(k)' = WholeAt(k) /\ InnerAt(k)' = InnerAt(k)
        /\ pushed' = pushed /\ taken' = taken /\ closed' = closed
    BY <1>1, ReaderSame
  <2>2. QED
    BY <1>1, <2>1 DEF ReaderInv
<1>2. CASE Server
  BY <1>2, ServerReader
<1>3. CASE ReadLength
  BY <1>3, LengthReader
<1>4. CASE ReadBody
  BY <1>4, BodyReader DEF WriteInv, Typed
<1>5. CASE Parse
  BY <1>5, ParseReader
<1>6. CASE React
  BY <1>6, ReactReader
<1>7. CASE Listen
  BY <1>1, <1>7 DEF Listen
<1>8. CASE Write \/ WriteRaises \/ Chat \/ Registering
  BY <1>1, <1>8 DEF Write, WriteRaises, Chat, Registering, client
<1>9. CASE UNCHANGED vars
  BY <1>1, <1>9 DEF vars, client
<1>10. QED
  BY <1>2, <1>3, <1>4, <1>5, <1>6, <1>7, <1>8, <1>9 DEF Next, Thread
-----------------------------------------------------------------------------
(* Keep alives and their answers *)

\* How many of the numbers up to n are in T.
Ticks(T, n) == Cardinality({j \in 1 .. n : j \in T})

LEMMA TicksNext ==
  ASSUME NEW T, NEW n \in Nat \ {0}
  PROVE  /\ Ticks(T, n) = IF n \in T THEN Ticks(T, n - 1) + 1 ELSE Ticks(T, n - 1)
         /\ Ticks(T, n - 1) \in Nat /\ Ticks(T, 0) = 0
<1> DEFINE A == {j \in 1 .. n - 1 : j \in T}
           B == {j \in 1 .. n : j \in T}
<1>1. IsFiniteSet(A) /\ Cardinality(A) \in Nat
  <2>1. IsFiniteSet(1 .. n - 1)
    BY FS_Interval
  <2>2. A \subseteq 1 .. n - 1
    OBVIOUS
  <2>3. IsFiniteSet(A)
    BY <2>1, <2>2, FS_Subset
  <2> HIDE DEF A
  <2>4. QED
    BY <2>3, FS_CardinalityType
<1>2. Ticks(T, n) = Cardinality(B) /\ Ticks(T, n - 1) = Cardinality(A)
  BY DEF Ticks
<1>3. Ticks(T, 0) = 0
  <2>1. {j \in 1 .. 0 : j \in T} = {}
    OBVIOUS
  <2>2. QED
    BY <2>1, FS_EmptySet DEF Ticks
<1> HIDE DEF A, B
<1>4. Ticks(T, n) = IF n \in T THEN Ticks(T, n - 1) + 1 ELSE Ticks(T, n - 1)
  <2>1. CASE n \in T
    <3>1. Cardinality(B) = Cardinality(A) + 1
      <4>1. B = A \cup {n} /\ n \notin A
        BY <2>1 DEF A, B
      <4>2. QED
        BY <1>1, <4>1, FS_AddElement
    <3>2. QED
      BY <1>2, <2>1, <3>1
  <2>2. CASE n \notin T
    <3>1. B = A
      BY <2>2 DEF A, B
    <3>2. QED
      BY <1>2, <2>2, <3>1
  <2>3. QED
    BY <2>1, <2>2
<1>5. QED
  BY <1>1, <1>2, <1>3, <1>4

LEMMA TicksAgree ==
  ASSUME NEW T, NEW U, NEW n, \A j \in 1 .. n : j \in T <=> j \in U
  PROVE  Ticks(T, n) = Ticks(U, n)
<1>1. {j \in 1 .. n : j \in T} = {j \in 1 .. n : j \in U}
  OBVIOUS
<1>2. QED
  BY <1>1 DEF Ticks

\* The packets for writing, those that have been written first.
Outs == Len(written) + Len(queue)
Out(i) == IF i <= Len(written) THEN [kind |-> written[i].kind, values |-> written[i].values]
          ELSE queue[i - Len(written)]

Hears == {k \in 1 .. Len(pushed) : Alive(pushed[k])}
Says == {i \in 1 .. Outs : Out(i).kind = "keep_alive"}

\* The keep alives the reactor has been through.
Reacted == IF pc = "reacting" THEN Len(taken) - 1 ELSE Len(taken)

\* The i-th packet for writing answers one keep alive, the one that has as many before it.
Echoes(i) == \E k \in Hears, v \in VarInts :
  /\ k <= Len(taken) /\ Ticks(Hears, k) = Ticks(Says, i)
  /\ Out(i).values = <<<<v>>>> /\ Number(pushed[k].payload) = Sent(v)

\* What is still in the queue of a thread that could not write answers nothing.
Due == IF pc = "failed" THEN 1 .. Len(written) ELSE 1 .. Outs

EchoInv ==
  /\ \A i \in Says : i \in Due => Echoes(i)
  /\ pc \notin Ended => Ticks(Hears, Reacted) = Ticks(Says, Outs)
  /\ \A i \in 1 .. Len(written) :
       written[i].payload = Built(written[i].kind, written[i].values)

IsKeep(q) == q.kind = "keep_alive"

\* What is known of the sequences, by their lengths.
LEMMA OutsAre ==
  ASSUME WriteInv
  PROVE  Len(written) \in Nat /\ Len(queue) \in Nat /\ Outs \in Nat /\ Len(written) <= Outs
<1>1. PICK a, b : a = Len(written) /\ b = Len(queue) /\ a \in Nat /\ b \in Nat
  <2>1. written \in Seq(Writings) /\ queue \in Seq(Queuable)
    BY DEF WriteInv, Typed, WrittenSoFar
  <2>2. Len(written) \in Nat /\ Len(queue) \in Nat
    BY <2>1, LenProperties
  <2>3. QED
    BY <2>2
<1>2. Outs = a + b
  BY <1>1 DEF Outs
<1>3. QED
  BY <1>1, <1>2

\* Packets q that are queued come after all those before.
LEMMA QueueGrows ==
  ASSUME WriteInv, written' = written, NEW S, NEW q \in Seq(S), queue' = queue \o q,
         NEW m, m = Outs
  PROVE  /\ Outs' = m + Len(q)
         /\ \A i \in 1 .. m : Out(i)' = Out(i)
         /\ \A j \in 1 .. Len(q) : Out(m + j)' = q[j]
<1>1. PICK a, b, c : /\ a = Len(written) /\ b = Len(queue) /\ c = Len(q)
                     /\ a \in Nat /\ b \in Nat /\ c \in Nat
  <2>1. Len(q) \in Nat
    OBVIOUS
  <2>2. QED
    BY <2>1, OutsAre
<1>2. /\ Len(queue') = b + c /\ \A j \in 1 .. b : queue'[j] = queue[j]
      /\ \A j \in 1 .. c : queue'[b + j] = q[j]
  <2>1. queue \in Seq(Queuable)
    BY DEF WriteInv, Typed
  <2> DEFINE R == Queuable \cup S
  <2>2. queue \in Seq(R) /\ q \in Seq(R)
    BY <2>1
  <2> HIDE DEF R
  <2>3. /\ Len(queue \o q) = Len(queue) + Len(q)
        /\ \A i \in 1 .. Len(queue) + Len(q) :
             (queue \o q)[i] = IF i <= Len(queue) THEN queue[i] ELSE q[i - Len(queue)]
    BY <2>2, ConcatProperties
  <2>4. \A i \in 1 .. b + c : queue'[i] = IF i <= b THEN queue[i] ELSE q[i - b]
    BY <1>1, <2>3
  <2>5. Len(queue') = b + c
    BY <1>1, <2>3
  <2>6. \A j \in 1 .. b : j \in 1 .. b + c /\ j <= b
    BY <1>1
  <2>7. \A j \in 1 .. c : b + j \in 1 .. b + c /\ ~(b + j <= b) /\ (b + j) - b = j
    BY <1>1
  <2>8. QED
    BY <2>4, <2>5, <2>6, <2>7
<1>3. m = a + b /\ Outs' = m + c
  BY <1>1, <1>2 DEF Outs
<1>4. ASSUME NEW i \in 1 .. m PROVE Out(i)' = Out(i)
  <2>1. CASE i <= a
    BY <1>1, <2>1 DEF Out
  <2>2. CASE ~(i <= a)
    <3>1. i - a \in 1 .. b
      BY <1>1, <1>3, <2>2
    <3>2. QED
      BY <1>1, <1>2, <2>2, <3>1 DEF Out
  <2>3. QED
    BY <2>1, <2>2
<1>5. ASSUME NEW j \in 1 .. Len(q) PROVE Out(m + j)' = q[j]
  <2>1. ~(m + j <= a) /\ (m + j) - a = b + j
    BY <1>1, <1>3
  <2>2. j \in 1 .. c
    BY <1>1
  <2>3. Out(m + j)' = queue'[b + j]
    BY <1>1, <2>1 DEF Out
  <2>4. QED
    BY <1>2, <2>2, <2>3
<1>6. QED
  BY <1>1, <1>3, <1>4, <1>5

\* Packets that are queued and answer no keep alive.
LEMMA QueueOthers ==
  ASSUME WriteInv, EchoInv, written' = written, NEW S, NEW q \in Seq(S), queue' = queue \o q,
         \A j \in 1 .. Len(q) : ~IsKeep(q[j])
  PROVE  /\ Says' = Says /\ Ticks(Says, Outs)' = Ticks(Says, Outs)
         /\ \A i \in Says : Out(i)' = Out(i)
<1>1. PICK m, c : m = Outs /\ c = Len(q) /\ m \in Nat /\ c \in Nat
  BY OutsAre
<1>2. /\ Outs' = m + c /\ \A i \in 1 .. m : Out(i)' = Out(i)
      /\ \A j \in 1 .. c : Out(m + j)' = q[j]
  <2>1. /\ Outs' = m + Len(q) /\ \A i \in 1 .. m : Out(i)' = Out(i)
        /\ \A j \in 1 .. Len(q) : Out(m + j)' = q[j]
    BY <1>1, QueueGrows
  <2>2. QED
    BY <1>1, <2>1
<1>3. ASSUME NEW i \in 1 .. m + c PROVE i \in Says' <=> i \in 1 .. m /\ i \in Says
  <2>1. CASE i \in 1 .. m
    BY <1>1, <1>2, <2>1 DEF Says
  <2>2. CASE i \notin 1 .. m
    <3>1. PICK j \in 1 .. c : i = m + j
      BY <1>1, <2>2
    <3>2. Out(i)' = q[j]
      BY <1>2, <3>1
    <3>3. Out(i)'.kind # "keep_alive"
      BY <1>1, <3>1, <3>2 DEF IsKeep
    <3>4. i \notin Says'
      BY <3>3 DEF Says
    <3>5. QED
      BY <2>2, <3>4
  <2>3. QED
    BY <2>1, <2>2
<1>4. Says' = Says
  <2>1. \A i \in Says' : i \in 1 .. m + c
    BY <1>2 DEF Says
  <2>2. \A i \in Says : i \in 1 .. m /\ i \in 1 .. m + c
    BY <1>1 DEF Says
  <2>3. QED
    BY <1>3, <2>1, <2>2
<1>5. Ticks(Says, m + c) = Ticks(Says, m)
  <2>1. {j \in 1 .. m + c : j \in Says} = {j \in 1 .. m : j \in Says}
    BY <1>1 DEF Says
  <2>2. QED
    BY <2>1 DEF Ticks
<1>6. Ticks(Says, Outs)' = Ticks(Says, m + c)
  BY <1>2, <1>4 DEF Ticks
<1>7. \A i \in Says : Out(i)' = Out(i)
  BY <1>1, <1>2 DEF Says
<1>8. QED
  BY <1>1, <1>4, <1>5, <1>6, <1>7

\* What has been sent is heard as it was, and what is sent after is behind.
HeardOn ==
  /\ Hears \subseteq Hears' /\ \A k \in Hears : pushed'[k] = pushed[k]
  /\ \A k \in 0 .. Len(pushed) : Ticks(Hears', k) = Ticks(Hears, k)

LEMMA HearsOn ==
  ASSUME NEW p, Adds(p)
  PROVE  HeardOn
<1>1. PICK l : /\ l = Len(pushed) /\ l \in Nat /\ Len(pushed') = l + 1
               /\ \A k \in 1 .. l : pushed'[k] = pushed[k]
  BY DEF Adds
<1>2. \A k \in 1 .. l : k \in 1 .. l + 1
  BY <1>1
<1>3. \A k \in 1 .. l : k \in Hears' <=> k \in Hears
  BY <1>1, <1>2 DEF Hears, Alive
<1>4. \A k \in Hears : k \in 1 .. l
  BY <1>1 DEF Hears
<1>5. ASSUME NEW k \in 0 .. l PROVE Ticks(Hears', k) = Ticks(Hears, k)
  <2>1. \A j \in 1 .. k : j \in Hears' <=> j \in Hears
    BY <1>1, <1>3
  <2>2. QED
    BY <2>1, TicksAgree
<1>6. QED
  BY <1>1, <1>3, <1>4, <1>5 DEF HeardOn

\* So an answer stays the answer to what it was.
LEMMA EchoesOn ==
  ASSUME ReadInv, ReaderInv, HeardOn, Len(taken) <= Len(taken'),
         Len(taken') \in Nat,
         NEW i, Echoes(i), Out(i)' = Out(i), Ticks(Says', i) = Ticks(Says, i)
  PROVE  Echoes(i)'
<1>1. PICK k \in Hears, v \in VarInts :
        /\ k <= Len(taken) /\ Ticks(Hears, k) = Ticks(Says, i)
        /\ Out(i).values = <<<<v>>>> /\ Number(pushed[k].payload) = Sent(v)
  BY DEF Echoes
<1>2. k \in 0 .. Len(pushed) /\ k \in Nat /\ Len(taken) \in Nat
  <2>1. Len(pushed) \in Nat /\ Len(taken) \in Nat
    BY FramesAre DEF ReadInv, IsSeq
  <2>2. QED
    BY <2>1 DEF Hears
<1>3. k \in Hears' /\ pushed'[k] = pushed[k] /\ Ticks(Hears', k) = Ticks(Says', i)
  BY <1>1, <1>2 DEF HeardOn
<1>4. k <= Len(taken')
  BY <1>1, <1>2
<1>5. Out(i)'.values = <<<<v>>>> /\ Number(pushed'[k].payload) = Sent(v)
  BY <1>1, <1>3
<1>6. QED
  BY <1>3, <1>4, <1>5 DEF Echoes, Ticks

\* Nothing more is answered, and the reactor has been through no keep alive more.
LEMMA EchoSame ==
  ASSUME ReadInv, ReaderInv, EchoInv, HeardOn, Len(taken) <= Len(taken'), Len(taken') \in Nat,
         Says' = Says, \A i \in Says : Out(i)' = Out(i), Ticks(Says, Outs)' = Ticks(Says, Outs),
         pc' \notin Ended => pc \notin Ended /\ Ticks(Hears, Reacted)' = Ticks(Hears, Reacted),
         pc = "failed" => pc' = pc /\ written' = written,
         \A i \in 1 .. Len(written') :
           written'[i].payload = Built(written'[i].kind, written'[i].values)
  PROVE  EchoInv'
<1>1. \A i \in Says : i \in Due => Echoes(i)
  BY DEF EchoInv
<1>2. ASSUME NEW i \in Says, i \in Due' PROVE Echoes(i)'
  <2>1. i \in Due
    BY <1>2 DEF Due, Says
  <2>2. Echoes(i)
    BY <1>1, <2>1
  <2>3. QED
    BY <2>2, EchoesOn
<1>3. \A i \in Says' : i \in Due' => Echoes(i)'
  BY <1>2
<1>4. pc' \notin Ended => Ticks(Hears, Reacted)' = Ticks(Says, Outs)'
  BY DEF EchoInv
<1>5. QED
  BY <1>3, <1>4 DEF EchoInv

LEMMA HeardSame ==
  ASSUME pushed' = pushed
  PROVE  HeardOn /\ Hears' = Hears
BY DEF HeardOn, Hears, Alive

LEMMA InitEcho == Init => EchoInv
<1> SUFFICES ASSUME Init PROVE EchoInv
  OBVIOUS
<1>1. pushed = <<>> /\ taken = <<>> /\ pc = "waiting" /\ queue = <<>> /\ written = <<>>
  BY DEF Init
<1>2. Len(pushed) = 0 /\ Len(taken) = 0 /\ Len(queue) = 0 /\ Len(written) = 0
  BY <1>1
<1>3. Outs = 0 /\ Reacted = 0
  BY <1>1, <1>2 DEF Outs, Reacted
<1>4. Says = {}
  BY <1>3 DEF Says
<1>5. Ticks(Hears, Reacted) = 0 /\ Ticks(Says, Outs) = 0
  <2>1. 1 \in Nat \ {0}
    OBVIOUS
  <2>2. Ticks(Hears, 0) = 0 /\ Ticks(Says, 0) = 0
    BY <2>1, TicksNext
  <2>3. QED
    BY <1>3, <2>2
<1>6. QED
  BY <1>2, <1>4, <1>5 DEF EchoInv

\* Steps at which nothing is queued or written.
LEMMA QuietEcho ==
  ASSUME ReadInv, ReaderInv, EchoInv, UNCHANGED <<queue, written>>,
         HeardOn, Len(taken) <= Len(taken'), Len(taken') \in Nat,
         \/ pc' \in Ended
         \/ pc \notin Ended /\ Reacted' = Reacted /\ Reacted \in 0 .. Len(pushed),
         pc = "failed" => pc' = pc
  PROVE  EchoInv'
<1>1. Outs' = Outs /\ \A i : Out(i)' = Out(i)
  BY DEF Outs, Out
<1>2. Says' = Says
  BY <1>1 DEF Says
<1>3. Ticks(Says, Outs)' = Ticks(Says, Outs)
  BY <1>1, <1>2 DEF Ticks
<1>4. ASSUME pc' \notin Ended PROVE pc \notin Ended /\ Ticks(Hears, Reacted)' = Ticks(Hears, Reacted)
  <2>1. PICK r : r = Reacted /\ Reacted' = r /\ r \in 0 .. Len(pushed) /\ pc \notin Ended
    BY <1>4
  <2>2. Ticks(Hears', r) = Ticks(Hears, r)
    BY <2>1 DEF HeardOn
  <2>3. Ticks(Hears, Reacted)' = Ticks(Hears', r)
    BY <2>1 DEF Ticks
  <2>4. QED
    BY <2>1, <2>2, <2>3
<1>5. \A i \in 1 .. Len(written') :
        written'[i].payload = Built(written'[i].kind, written'[i].values)
  BY DEF EchoInv
<1>6. QED
  BY <1>1, <1>2, <1>3, <1>4, <1>5, EchoSame

LEMMA CountsAre ==
  ASSUME ListenInv, ReadInv, ReaderInv
  PROVE  /\ Len(taken) \in Nat /\ Len(pushed) \in Nat /\ Len(taken) <= Len(pushed)
         /\ Reacted \in 0 .. Len(pushed)
<1>1. PICK n, l : /\ n = Len(taken) /\ l = Len(pushed) /\ n \in Nat /\ l \in Nat /\ n <= l
  <2>1. Len(pushed) \in Nat /\ Len(taken) \in Nat
    BY FramesAre DEF ReadInv, IsSeq
  <2>2. QED
    BY <2>1 DEF ReaderInv
<1>2. pc = "reacting" => n # 0
  <2>1. PICK S : taken \in Seq(S)
    BY DEF ReadInv, IsSeq
  <2>2. pc = "reacting" => taken # <<>>
    BY DEF ListenInv, InHand
  <2>3. QED
    BY <1>1, <2>1, <2>2
<1>3. Reacted = IF pc = "reacting" THEN n - 1 ELSE n
  BY <1>1 DEF Reacted
<1>4. QED
  BY <1>1, <1>2, <1>3

LEMMA ServerEcho ==
  ASSUME ListenInv, ReadInv, ReaderInv, EchoInv, Server
  PROVE  EchoInv'
<1>1. UNCHANGED <<pc, taken, queue, written>>
  BY DEF Server, ServerLogin, ServerPlay, ServerClose, client, writing
<1>2. HeardOn
  <2>1. CASE ServerLogin \/ ServerPlay
    BY <2>1, ServerAdds, HearsOn
  <2>2. CASE ServerClose
    BY <2>2, HeardSame DEF ServerClose
  <2>3. QED
    BY <2>1, <2>2 DEF Server
<1>3. /\ Len(taken) \in Nat /\ Reacted \in 0 .. Len(pushed) /\ Reacted' = Reacted
      /\ Len(taken') = Len(taken)
  BY <1>1, CountsAre DEF Reacted
<1>4. Len(taken) <= Len(taken') /\ Len(taken') \in Nat
  BY <1>3
<1>5. pc' \in Ended \/ pc \notin Ended
  BY <1>1
<1>6. QED
  BY <1>1, <1>2, <1>3, <1>4, <1>5, QuietEcho

\* The steps of the thread from one packet to the next, but for those of the reactor.
LEMMA ThreadEcho ==
  ASSUME ListenInv, ReadInv, ReaderInv, EchoInv, ReadLength \/ ReadBody \/ Parse \/ Listen
  PROVE  EchoInv'
<1>1. UNCHANGED <<pushed, queue, written>> /\ HeardOn
  <2>1. UNCHANGED <<pushed, queue, written>>
    BY DEF ReadLength, ReadBody, Parse, Listen, server, writing
  <2>2. QED
    BY <2>1, HeardSame
<1>2. PICK n : n = Len(taken) /\ n \in Nat /\ Reacted \in 0 .. Len(pushed)
  BY CountsAre
<1>3. CASE ReadLength \/ ReadBody \/ Listen
  <2>1. taken' = taken /\ pc \notin Ended /\ (pc' \in Ended \/ (pc # "reacting" /\ pc' # "reacting"))
    BY <1>3 DEF ReadLength, ReadBody, Listen, Ended
  <2>2. pc' \in Ended \/ Reacted' = Reacted
    BY <2>1 DEF Reacted
  <2>3. Len(taken) <= Len(taken') /\ Len(taken') \in Nat
    BY <1>2, <2>1
  <2>4. pc # "failed"
    BY <2>1 DEF Ended
  <2>5. QED
    BY <1>1, <1>2, <2>1, <2>2, <2>3, <2>4, QuietEcho
<1>4. CASE Parse
  <2>1. /\ pc = "parsing" /\ pc \notin Ended
        /\ \/ pc' = "broken" /\ taken' = taken
           \/ pc' = "reacting" /\ \E g : taken' = Append(taken, g)
    BY <1>4 DEF Parse, Ended
  <2>2. CASE pc' = "broken" /\ taken' = taken
    <3>1. Len(taken) <= Len(taken') /\ Len(taken') \in Nat /\ pc' \in Ended
      BY <1>2, <2>2 DEF Ended
    <3>2. QED
      BY <1>1, <2>1, <3>1, QuietEcho
  <2>3. CASE pc' = "reacting" /\ \E g : taken' = Append(taken, g)
    <3>1. PICK g : taken' = Append(taken, g)
      BY <2>3
    <3>2. Len(taken') = n + 1
      <4>1. PICK S : taken \in Seq(S)
        BY DEF ReadInv, IsSeq
      <4> DEFINE R == S \cup {g}
      <4>2. taken \in Seq(R) /\ g \in R
        BY <4>1
      <4> HIDE DEF R
      <4>3. QED
        BY <1>2, <3>1, <4>2, AppendProperties
    <3>3. Reacted = n /\ Reacted' = n
      BY <1>2, <2>1, <2>3, <3>2 DEF Reacted
    <3>4. Len(taken) <= Len(taken') /\ Len(taken') \in Nat
      BY <1>2, <3>2
    <3>5. QED
      BY <1>1, <1>2, <2>1, <3>3, <3>4, QuietEcho
  <2>4. QED
    BY <2>1, <2>2, <2>3
<1>5. QED
  BY <1>3, <1>4

\* The application writes a chat.
LEMMA ChatEcho ==
  ASSUME ListenInv, ReadInv, WriteInv, ReaderInv, EchoInv, Chat
  PROVE  EchoInv'
<1>1. PICK m \in Messages : queue' = Append(queue, [kind |-> "chat", values |-> <<m>>])
  BY DEF Chat
<1>2. PICK e : e = [kind |-> "chat", values |-> <<m>>]
  OBVIOUS
<1>3. <<e>> \in Seq({e}) /\ Len(<<e>>) = 1 /\ <<e>>[1] = e
  OBVIOUS
<1>4. queue' = queue \o <<e>>
  <2>1. queue \in Seq(Queuable)
    BY DEF WriteInv, Typed
  <2> DEFINE R == Queuable \cup {e}
  <2>2. queue \in Seq(R) /\ e \in R
    BY <2>1
  <2> HIDE DEF R
  <2>3. Append(queue, e) = queue \o <<e>>
    BY <2>2, AppendIsConcat
  <2>4. QED
    BY <1>1, <1>2, <2>3
<1>5. UNCHANGED <<pushed, pc, taken, written>>
  BY DEF Chat, server, client
<1>6. \A j \in 1 .. Len(<<e>>) : ~IsKeep(<<e>>[j])
  <2>1. ~IsKeep(e)
    BY <1>2 DEF IsKeep
  <2>2. QED
    BY <1>3, <2>1
<1>7. PICK q \in Seq({e}) : queue' = queue \o q /\ \A j \in 1 .. Len(q) : ~IsKeep(q[j])
  BY <1>3, <1>4, <1>6
<1>8. /\ Says' = Says /\ Ticks(Says, Outs)' = Ticks(Says, Outs)
      /\ \A i \in Says : Out(i)' = Out(i)
  BY <1>5, <1>7, QueueOthers
<1>9. HeardOn /\ Hears' = Hears /\ Reacted' = Reacted
  BY <1>5, HeardSame DEF Reacted
<1>10. Len(taken) <= Len(taken') /\ Len(taken') \in Nat
  <2>1. Len(taken) \in Nat /\ Len(taken') = Len(taken)
    BY <1>5, CountsAre
  <2>2. QED
    BY <2>1
<1>11. pc' \notin Ended => pc \notin Ended /\ Ticks(Hears, Reacted)' = Ticks(Hears, Reacted)
  BY <1>5, <1>9 DEF Ticks
<1>12. \A i \in 1 .. Len(written') :
         written'[i].payload = Built(written'[i].kind, written'[i].values)
  BY <1>5 DEF EchoInv
<1>13. QED
  BY <1>5, <1>8, <1>9, <1>10, <1>11, <1>12, EchoSame

\* What is queued first is written next.
LEMMA WriteEcho ==
  ASSUME ListenInv, ReadInv, WriteInv, ReaderInv, EchoInv, Write
  PROVE  EchoInv'
<1>1. pc = "waiting" /\ queue # <<>> /\ queue' = Tail(queue) /\ UNCHANGED <<pushed, pc, taken>>
  BY DEF Write, server, client
<1>2. PICK h, w : /\ h = Head(queue) /\ written' = Append(written, w)
                  /\ w.kind = h.kind /\ w.values = h.values
                  /\ w.payload = Built(h.kind, h.values)
  BY DEF Write, Built
<1>3. PICK a, b : a = Len(written) /\ b = Len(queue) /\ a \in Nat /\ b \in Nat
  BY OutsAre
<1>4. /\ b # 0 /\ Len(queue') = b - 1 /\ h = queue[1] /\ h \in Queuable
      /\ \A j \in 1 .. b - 1 : queue'[j] = queue[j + 1]
  <2> DEFINE R == Queuable
  <2>1. queue \in Seq(R)
    BY DEF WriteInv, Typed
  <2> HIDE DEF R
  <2>2. /\ Head(queue) \in R /\ Head(queue) = queue[1]
        /\ Len(Tail(queue)) = Len(queue) - 1
        /\ \A i \in 1 .. Len(Tail(queue)) : Tail(queue)[i] = queue[i + 1]
    BY <1>1, <2>1, HeadTailProperties
  <2>3. Len(queue) # 0
    BY <1>1, <2>1
  <2>4. QED
    BY <1>1, <1>2, <1>3, <2>2, <2>3 DEF R
<1>5. /\ Len(written') = a + 1 /\ written'[a + 1] = w
      /\ \A i \in 1 .. a : written'[i] = written[i]
  <2>1. written \in Seq(Writings)
    BY DEF WriteInv, WrittenSoFar
  <2> DEFINE R == Writings \cup {w}
  <2>2. written \in Seq(R) /\ w \in R
    BY <2>1
  <2> HIDE DEF R
  <2>3. QED
    BY <1>2, <1>3, <2>2, AppendProperties
<1>6. h = [kind |-> h.kind, values |-> h.values]
  BY <1>4 DEF Queuable
<1>7. Outs = a + b /\ Outs' = a + b
  BY <1>3, <1>4, <1>5 DEF Outs
<1>8. ASSUME NEW i \in 1 .. a + b PROVE Out(i)' = Out(i)
  <2>1. CASE i <= a
    <3>1. i \in 1 .. a /\ i <= a + 1
      BY <1>3, <2>1
    <3>2. QED
      BY <1>3, <1>5, <2>1, <3>1 DEF Out
  <2>2. CASE i = a + 1
    <3>1. Out(i)' = [kind |-> h.kind, values |-> h.values]
      BY <1>2, <1>3, <1>5, <2>2 DEF Out
    <3>2. Out(i) = queue[1]
      BY <1>3, <2>2 DEF Out
    <3>3. QED
      BY <1>4, <1>6, <3>1, <3>2
  <2>3. CASE i > a + 1
    <3>1. i - (a + 1) \in 1 .. b - 1 /\ (i - (a + 1)) + 1 = i - a /\ ~(i <= a) /\ ~(i <= a + 1)
      BY <1>3, <2>3
    <3>2. Out(i)' = queue'[i - (a + 1)]
      BY <1>5, <3>1 DEF Out
    <3>3. Out(i) = queue[i - a]
      BY <1>3, <3>1 DEF Out
    <3>4. QED
      BY <1>4, <3>1, <3>2, <3>3
  <2>4. QED
    BY <1>3, <2>1, <2>2, <2>3
<1>9. Says' = Says /\ \A i \in Says : Out(i)' = Out(i)
  <2>1. \A i \in 1 .. a + b : Out(i)'.kind = Out(i).kind
    BY <1>8
  <2>2. Says' = Says
    BY <1>7, <2>1 DEF Says
  <2>3. QED
    BY <1>7, <1>8, <2>2 DEF Says
<1>10. Ticks(Says, Outs)' = Ticks(Says, Outs)
  BY <1>7, <1>9 DEF Ticks
<1>11. HeardOn /\ Hears' = Hears /\ Reacted' = Reacted
  BY <1>1, HeardSame DEF Reacted
<1>12. Len(taken) <= Len(taken') /\ Len(taken') \in Nat
  <2>1. Len(taken) \in Nat /\ Len(taken') = Len(taken)
    BY <1>1, CountsAre
  <2>2. QED
    BY <2>1
<1>13. pc' \notin Ended => pc \notin Ended /\ Ticks(Hears, Reacted)' = Ticks(Hears, Reacted)
  BY <1>1, <1>11 DEF Ticks
<1>14. ASSUME NEW i \in 1 .. Len(written')
       PROVE  written'[i].payload = Built(written'[i].kind, written'[i].values)
  <2>1. i \in 1 .. a \/ i = a + 1
    BY <1>3, <1>5
  <2>2. CASE i \in 1 .. a
    BY <1>3, <1>5, <2>2 DEF EchoInv
  <2>3. CASE i = a + 1
    BY <1>2, <1>5, <2>3
  <2>4. QED
    BY <2>1, <2>2, <2>3
<1>15. QED
  BY <1>1, <1>9, <1>10, <1>11, <1>12, <1>13, <1>14, EchoSame

\* The answer to a keep alive is its number; no other packet is answered with one.
LEMMA AnswersOnce ==
  ASSUME \A i \in Reads : Has(i), Is("play", KeepAlive)
  PROVE  packet.set[1].ok
         /\ Answer = <<[kind |-> "keep_alive", values |-> <<packet.set[1].value>>]>>
<1>1. /\ ~Is("login", Disconnect) /\ ~Is("login", SetCompression)
      /\ ~Is("play", DisconnectPlay) /\ ~Is("play", PositionAndLook)
  BY DEF Is, KeepAlive, DisconnectPlay, PositionAndLook
<1>2. Reads = {1}
  BY <1>1 DEF Reads
<1>3. packet.set[1].ok
  BY <1>2 DEF Has
<1>4. Answer = <<[kind |-> "keep_alive", values |-> <<packet.set[1].value>>]>>
  BY <1>1 DEF Answer
<1>5. QED
  BY <1>3, <1>4

LEMMA AnswersOther ==
  ASSUME ~Is("play", KeepAlive)
  PROVE  \A j \in 1 .. Len(Answer) : ~IsKeep(Answer[j])
<1>1. CASE Is("play", PositionAndLook) /\ packet.set[7].value # <<0>>
  <2>1. Answer = <<[kind |-> "teleport_confirm", values |-> <<packet.set[7].value>>]>>
    BY <1>1 DEF Answer
  <2>2. QED
    BY <2>1 DEF IsKeep
<1>2. CASE Is("play", PositionAndLook) /\ packet.set[7].value = <<0>>
  <2>1. PICK vs :
          Answer = <<[kind |-> "position_and_look", values |-> vs]>>
    BY <1>2 DEF Answer
  <2>2. QED
    BY <2>1 DEF IsKeep
<1>3. CASE ~Is("play", PositionAndLook)
  <2>1. Answer = <<>>
    BY <1>3 DEF Answer
  <2>2. QED
    BY <2>1
<1>4. QED
  BY <1>1, <1>2, <1>3

\* The reactor has been through one packet more.
LEMMA ReactCounts ==
  ASSUME ListenInv, ReadInv, ReaderInv, React
  PROVE  \E n : /\ n = Len(taken) /\ n \in Nat \ {0} /\ n \in 1 .. Len(pushed) /\ pc \notin Ended
                /\ Reacted = n - 1 /\ Reacted' = n /\ Len(taken') = n /\ n - 1 \in 0 .. Len(pushed)
<1>1. pc = "reacting" /\ pc' # "reacting" /\ taken' = taken
  BY DEF React
<1>2. PICK n, l : n = Len(taken) /\ n \in Nat /\ l = Len(pushed) /\ l \in Nat /\ n <= l
  BY CountsAre
<1>3. Reacted = n - 1 /\ Reacted' = n /\ Reacted \in 0 .. l
  BY <1>1, <1>2, CountsAre DEF Reacted
<1>4. n \in Nat \ {0} /\ n \in 1 .. l /\ n - 1 \in 0 .. l
  BY <1>2, <1>3
<1>5. QED
  BY <1>1, <1>2, <1>3, <1>4 DEF Ended

\* A keep alive is answered, once.
LEMMA KeepEcho ==
  ASSUME ListenInv, ReadInv, WriteInv, ServerInv, ReaderInv, EchoInv, React,
         \A i \in Reads : Has(i), Is("play", KeepAlive)
  PROVE  EchoInv'
<1>1. PICK n : /\ n = Len(taken) /\ n \in Nat \ {0} /\ n \in 1 .. Len(pushed) /\ pc \notin Ended
               /\ Reacted = n - 1 /\ Reacted' = n /\ Len(taken') = n
  BY ReactCounts
<1>2. /\ pc = "reacting" /\ pc' = "listening" /\ queue' = queue \o Answer
      /\ UNCHANGED <<pushed, written, taken>>
  BY DEF React, server
<1>3. packet.set[1].ok /\ Answer = <<[kind |-> "keep_alive", values |-> <<packet.set[1].value>>]>>
  BY AnswersOnce
<1>4. Alive(pushed[n])
  BY <1>1, <1>2, HandIs
<1>5. PICK v \in VarInts : packet.set[1].value = <<v>> /\ Number(pushed[n].payload) = Sent(v)
  BY <1>1, <1>2, <1>3, <1>4, HandIs
<1>6. PICK e : e = [kind |-> "keep_alive", values |-> <<<<v>>>>]
  OBVIOUS
<1>7. PICK q \in Seq({e}) : queue' = queue \o q /\ Len(q) = 1 /\ q[1] = e
  <2>1. Answer = <<e>>
    BY <1>3, <1>5, <1>6
  <2>2. <<e>> \in Seq({e}) /\ Len(<<e>>) = 1 /\ <<e>>[1] = e
    OBVIOUS
  <2>3. QED
    BY <1>2, <2>1, <2>2
<1>8. PICK m : m = Outs /\ m \in Nat
  BY OutsAre
<1>9. Outs' = m + 1 /\ (\A i \in 1 .. m : Out(i)' = Out(i)) /\ Out(m + 1)' = e
  <2>1. /\ Outs' = m + Len(q)
        /\ \A i \in 1 .. m : Out(i)' = Out(i)
        /\ \A j \in 1 .. Len(q) : Out(m + j)' = q[j]
    BY <1>2, <1>7, <1>8, QueueGrows
  <2>2. 1 \in 1 .. Len(q)
    BY <1>7
  <2>3. QED
    BY <1>7, <2>1, <2>2
<1>10. \A i \in 1 .. m : i \in Says' <=> i \in Says
  BY <1>8, <1>9 DEF Says
<1>11. m + 1 \in Says' /\ \A i \in Says' : i \in 1 .. m \/ i = m + 1
  <2>1. Out(m + 1)'.kind = "keep_alive"
    BY <1>6, <1>9
  <2>2. QED
    BY <1>8, <1>9, <2>1 DEF Says
<1>12. \A i \in 1 .. m : Ticks(Says', i) = Ticks(Says, i)
  <2>1. ASSUME NEW i \in 1 .. m PROVE \A j \in 1 .. i : j \in Says' <=> j \in Says
    BY <1>8, <1>10
  <2>2. QED
    BY <2>1, TicksAgree
<1>13. HeardOn /\ Hears' = Hears /\ n \in Hears
  BY <1>1, <1>2, <1>4, HeardSame DEF Hears
<1>14. Ticks(Hears, n) = Ticks(Says', m + 1)
  <2>1. Ticks(Hears, n) = Ticks(Hears, n - 1) + 1
    BY <1>1, <1>13, TicksNext
  <2>2. Ticks(Hears, n - 1) = Ticks(Says, m)
    BY <1>1, <1>8 DEF EchoInv
  <2>3. Ticks(Says', m) = Ticks(Says, m)
    <3>1. \A j \in 1 .. m : j \in Says' <=> j \in Says
      BY <1>10
    <3>2. QED
      BY <3>1, TicksAgree
  <2>4. Ticks(Says', m + 1) = Ticks(Says', m) + 1
    <3>1. m + 1 \in Nat \ {0} /\ (m + 1) - 1 = m
      BY <1>8
    <3>2. Ticks(Says', m + 1) = Ticks(Says', (m + 1) - 1) + 1
      BY <1>11, <3>1, TicksNext
    <3>3. QED
      BY <3>1, <3>2
  <2>5. QED
    BY <2>1, <2>2, <2>3, <2>4
<1>15. ASSUME NEW i \in Says' PROVE Echoes(i)'
  <2>1. CASE i \in 1 .. m
    <3>1. Echoes(i)
      BY <1>2, <1>8, <1>10, <2>1 DEF EchoInv, Due
    <3>2. Len(taken) <= Len(taken') /\ Len(taken') \in Nat
      BY <1>1
    <3>3. QED
      BY <1>9, <1>12, <1>13, <2>1, <3>1, <3>2, EchoesOn
  <2>2. CASE i = m + 1
    <3>1. n \in Hears' /\ n <= Len(taken') /\ Ticks(Hears', n) = Ticks(Says', i)
      BY <1>1, <1>13, <1>14, <2>2
    <3>2. Out(i)'.values = <<<<v>>>> /\ Number(pushed'[n].payload) = Sent(v)
      BY <1>2, <1>5, <1>6, <1>9, <2>2
    <3>3. QED
      BY <3>1, <3>2 DEF Echoes, Ticks
  <2>3. QED
    BY <1>11, <2>1, <2>2
<1>16. Ticks(Hears, Reacted)' = Ticks(Says, Outs)'
  BY <1>1, <1>9, <1>13, <1>14 DEF Ticks
<1>17. \A i \in 1 .. Len(written') :
         written'[i].payload = Built(written'[i].kind, written'[i].values)
  BY <1>2 DEF EchoInv
<1>18. QED
  BY <1>15, <1>16, <1>17 DEF EchoInv

LEMMA ReactEcho ==
  ASSUME ListenInv, ReadInv, WriteInv, ServerInv, ReaderInv, EchoInv, React
  PROVE  EchoInv'
<1>1. PICK n : /\ n = Len(taken) /\ n \in Nat \ {0} /\ n \in 1 .. Len(pushed) /\ pc \notin Ended
               /\ Reacted = n - 1 /\ Reacted' = n /\ Len(taken') = n /\ n - 1 \in 0 .. Len(pushed)
  BY ReactCounts
<1>2. pc = "reacting" /\ UNCHANGED <<pushed, written, taken>>
  BY DEF React, server
<1>3. HeardOn /\ Hears' = Hears
  BY <1>2, HeardSame
<1>4. Len(taken) <= Len(taken') /\ Len(taken') \in Nat
  BY <1>1
<1>5. \A i \in 1 .. Len(written') :
        written'[i].payload = Built(written'[i].kind, written'[i].values)
  BY <1>2 DEF EchoInv
<1>6. CASE ~\A i \in Reads : Has(i)
  <2>1. pc' \in Ended /\ UNCHANGED <<queue, written>>
    BY <1>6 DEF React, Ended
  <2>2. QED
    BY <1>2, <1>3, <1>4, <2>1, QuietEcho
<1>7. CASE (\A i \in Reads : Has(i)) /\ Is("play", KeepAlive)
  BY <1>7, KeepEcho
<1>8. CASE (\A i \in Reads : Has(i)) /\ ~Is("play", KeepAlive)
  <2>1. queue' = queue \o Answer /\ \A j \in 1 .. Len(Answer) : ~IsKeep(Answer[j])
    BY <1>8, AnswersOther DEF React
  <2>2. Answer \in Seq(Queuable)
    BY <1>2, <1>8, AnswerQueuable DEF WriteInv, Typed
  <2>3. PICK q \in Seq(Queuable) : queue' = queue \o q /\ \A j \in 1 .. Len(q) : ~IsKeep(q[j])
    BY <2>1, <2>2
  <2>4. /\ Says' = Says /\ Ticks(Says, Outs)' = Ticks(Says, Outs)
        /\ \A i \in Says : Out(i)' = Out(i)
    BY <1>2, <2>3, QueueOthers
  <2>5. n \notin Hears
    BY <1>1, <1>2, <1>8, HandIs DEF Hears
  <2>6. Ticks(Hears, n) = Ticks(Hears, n - 1)
    BY <1>1, <2>5, TicksNext
  <2>7. Ticks(Hears, Reacted)' = Ticks(Hears, Reacted)
    BY <1>1, <1>3, <2>6 DEF Ticks
  <2>8. QED
    BY <1>1, <1>2, <1>3, <1>4, <1>5, <2>4, <2>7, EchoSame
<1>9. QED
  BY <1>6, <1>7, <1>8

\* What is behind a packet that raises is not written any more.
LEMMA RaisesEcho ==
  ASSUME ListenInv, ReadInv, WriteInv, ReaderInv, EchoInv, WriteRaises
  PROVE  EchoInv'
<1>1. pc = "waiting" /\ pc' = "failed" /\ UNCHANGED <<pushed, taken, written>>
  BY DEF WriteRaises, server
<1>2. PICK a, b : a = Len(written) /\ b = Outs /\ a \in Nat /\ b \in Nat /\ a <= b
  BY OutsAre
<1>3. Len(queue') \in Nat /\ Outs' \in Nat /\ a <= Outs'
  <2>1. queue' \in Seq(Queuable)
    <3>1. WriteInv'
      BY RaisesWrites
    <3>2. QED
      BY <3>1 DEF WriteInv, Typed
  <2>2. Len(queue') \in Nat
    BY <2>1, LenProperties
  <2>3. QED
    BY <1>1, <1>2, <2>2 DEF Outs
<1>4. \A i \in 1 .. a : Out(i)' = Out(i)
  BY <1>1, <1>2 DEF Out
<1>5. \A i \in 1 .. a : i \in Says' <=> i \in Says
  BY <1>2, <1>3, <1>4 DEF Says
<1>6. HeardOn
  BY <1>1, HeardSame
<1>7. Len(taken) <= Len(taken') /\ Len(taken') \in Nat
  <2>1. Len(taken) \in Nat /\ Len(taken') = Len(taken)
    BY <1>1, CountsAre
  <2>2. QED
    BY <2>1
<1>8. ASSUME NEW i \in Says', i \in Due' PROVE Echoes(i)'
  <2>1. i \in 1 .. a
    BY <1>1, <1>2, <1>8 DEF Due
  <2>2. i \in Says /\ i \in Due
    BY <1>1, <1>2, <1>5, <1>8, <2>1 DEF Due
  <2>3. Ticks(Says', i) = Ticks(Says, i)
    <3>1. \A j \in 1 .. i : j \in Says' <=> j \in Says
      BY <1>2, <1>5, <2>1
    <3>2. QED
      BY <3>1, TicksAgree
  <2>4. Echoes(i)
    BY <2>2 DEF EchoInv
  <2>5. QED
    BY <1>4, <1>6, <1>7, <2>1, <2>3, <2>4, EchoesOn
<1>9. pc' \in Ended
  BY <1>1 DEF Ended
<1>10. \A i \in 1 .. Len(written') :
         written'[i].payload = Built(written'[i].kind, written'[i].values)
  BY <1>1 DEF EchoInv
<1>11. QED
  BY <1>8, <1>9, <1>10 DEF EchoInv

LEMMA StepEcho ==
  ListenInv /\ ReadInv /\ WriteInv /\ ServerInv /\ ReaderInv /\ EchoInv /\ [Next]_vars => EchoInv'
<1> SUFFICES ASSUME ListenInv, ReadInv, WriteInv, ServerInv, ReaderInv, EchoInv, [Next]_vars
             PROVE  EchoInv'
  OBVIOUS
<1>1. CASE Server
  BY <1>1, ServerEcho
<1>2. CASE ReadLength \/ ReadBody \/ Parse \/ Listen
  BY <1>2, ThreadEcho
<1>3. CASE React
  BY <1>3, ReactEcho
<1>4. CASE Write \/ WriteRaises
  BY <1>4, WriteEcho, RaisesEcho
<1>5. CASE Chat
  BY <1>5, ChatEcho
<1>6. CASE Registering \/ UNCHANGED vars
  <2>1. UNCHANGED <<pushed, pc, taken, queue, written>>
    BY <1>6 DEF Registering, vars, server, client, writing
  <2>2. HeardOn /\ Reacted' = Reacted
    BY <2>1, HeardSame DEF Reacted
  <2>3. Len(taken) \in Nat /\ Len(taken') = Len(taken) /\ Reacted \in 0 .. Len(pushed)
    BY <2>1, CountsAre
  <2>4. Len(taken) <= Len(taken') /\ Len(taken') \in Nat
    BY <2>3
  <2>5. pc' \in Ended \/ pc \notin Ended
    BY <2>1
  <2>6. QED
    BY <2>1, <2>2, <2>3, <2>4, <2>5, QuietEcho
<1>7. QED
  BY <1>1, <1>2, <1>3, <1>4, <1>5, <1>6 DEF Next, Thread

\* A keep alive that was written, and the number in it.
LEMMA KeepWritten ==
  ASSUME NEW v \in VarInts
  PROVE  Number(Built("keep_alive", <<<<v>>>>)) = Sent(v)
<1>1. /\ ServerboundPackets["keep_alive"].id = 11
      /\ ServerboundPackets["keep_alive"].fields = <<"VarInt">>
  BY KindsAre
<1>2. Sent(v) \in Seq(Octet) /\ Sent(11) \in Seq(Octet) /\ 11 \in VarInts
  BY SentSizes, SmallNumbers
<1>3. Built("keep_alive", <<<<v>>>>) = Sent(11) \o Sent(v)
  <2>1. [i \in DOMAIN <<"VarInt">> |-> Send(<<"VarInt">>[i], <<<<v>>>>[i])] = <<Sent(v)>>
    BY SendIs
  <2>2. FlattenSeq(<<Sent(v)>>) = Sent(v)
    BY <1>2, FlattenFew
  <2>3. QED
    BY <1>1, <2>1, <2>2 DEF Built, Payload
<1>4. Sent(v) \o <<>> = Sent(v) /\ <<>> \in Seq(Octet)
  BY <1>2
<1>5. Number(Sent(11) \o (Sent(v) \o <<>>)) = Sent(v)
  BY <1>2, <1>4, NumberIs
<1>6. QED
  BY <1>3, <1>4, <1>5, Zenon

LEMMA InvEchoes ==
  ASSUME ListenInv, ReadInv, WriteInv, ReaderInv, EchoInv
  PROVE  EchoesExact
<1> DEFINE heard == {k \in 1 .. Len(taken) : pushed[k].table = "play" /\ pushed[k].id = KeepAlive}
           said == {i \in 1 .. Len(written) : written[i].kind = "keep_alive"}
           nth(T, i) == Cardinality({j \in T : j <= i})
<1>1. PICK a, n, l : /\ a = Len(written) /\ n = Len(taken) /\ l = Len(pushed) /\ a <= Outs
                     /\ a \in Nat /\ n \in Nat /\ l \in Nat /\ n <= l /\ Outs \in Nat
  BY OutsAre, CountsAre
<1>2. ASSUME NEW k \in 1 .. n PROVE k \in heard <=> k \in Hears
  <2>1. k \in 1 .. l
    BY <1>1
  <2>2. QED
    BY <1>1, <2>1 DEF Hears, Alive
<1>3. ASSUME NEW i \in 1 .. a
      PROVE  /\ i \in said <=> i \in Says
             /\ Out(i).kind = written[i].kind /\ Out(i).values = written[i].values
  <2>1. i \in 1 .. Outs /\ i <= Len(written)
    BY <1>1
  <2>2. Out(i).kind = written[i].kind /\ Out(i).values = written[i].values
    BY <2>1 DEF Out
  <2>3. QED
    BY <1>1, <2>1, <2>2 DEF Says
<1>4. ASSUME NEW k \in 1 .. n PROVE nth(heard, k) = Ticks(Hears, k)
  <2>1. {j \in heard : j <= k} = {j \in 1 .. k : j \in Hears}
    <3>1. \A j \in heard : j \in 1 .. n
      BY <1>1
    <3>2. \A j \in 1 .. k : j \in 1 .. n /\ j <= k
      BY <1>1
    <3>3. \A j \in 1 .. n : j <= k => j \in 1 .. k
      BY <1>1
    <3> HIDE DEF heard
    <3>4. QED
      BY <1>2, <3>1, <3>2, <3>3
  <2>2. QED
    BY <2>1 DEF Ticks
<1>5. ASSUME NEW i \in 1 .. a PROVE nth(said, i) = Ticks(Says, i)
  <2>1. {j \in said : j <= i} = {j \in 1 .. i : j \in Says}
    <3>1. \A j \in said : j \in 1 .. a
      BY <1>1
    <3>2. \A j \in 1 .. i : j \in 1 .. a /\ j <= i
      BY <1>1
    <3>3. \A j \in 1 .. a : j <= i => j \in 1 .. i
      BY <1>1
    <3> HIDE DEF said
    <3>4. QED
      BY <1>3, <3>1, <3>2, <3>3
  <2>2. QED
    BY <2>1 DEF Ticks
<1>6. ASSUME NEW i \in said
      PROVE  \E k \in heard : /\ nth(heard, k) = nth(said, i)
                              /\ Number(pushed[k].payload) = Number(written[i].payload)
  <2>1. i \in 1 .. a /\ written[i].kind = "keep_alive"
    BY <1>1, <1>6
  <2>2. i \in Says
    BY <1>3, <1>6, <2>1
  <2>3. PICK k \in Hears, v \in VarInts :
          /\ k <= Len(taken) /\ Ticks(Hears, k) = Ticks(Says, i)
          /\ Out(i).values = <<<<v>>>> /\ Number(pushed[k].payload) = Sent(v)
    <3>1. i \in Due
      BY <1>3, <2>1, OutsAre DEF Due
    <3>2. QED
      BY <2>2, <3>1 DEF EchoInv, Echoes
  <2>4. k \in 1 .. n /\ k \in heard
    <3>1. k \in 1 .. n
      BY <1>1, <2>3 DEF Hears
    <3>2. QED
      BY <1>2, <2>3, <3>1
  <2>5. Number(written[i].payload) = Sent(v)
    <3>1. written[i].payload = Built("keep_alive", <<<<v>>>>)
      BY <1>1, <1>3, <2>1, <2>3 DEF EchoInv
    <3>2. QED
      BY <3>1, KeepWritten
  <2> HIDE DEF heard, said, nth
  <2>6. nth(heard, k) = nth(said, i)
    BY <1>4, <1>5, <2>1, <2>3, <2>4
  <2>7. QED
    BY <2>3, <2>4, <2>5, <2>6
<1>7. QED
  BY <1>6 DEF EchoesExact, Number

\* connection.py:326-342, types.py, packets.py: each keep alive is answered with the very bytes
\* of its number, in the order in which they came, whatever else the thread reads and writes
\* and however the packets are framed.
THEOREM EchoesAreExact == Spec => []EchoesExact
<1> DEFINE Inv == ListenInv /\ ReadInv /\ WriteInv /\ ServerInv /\ ReaderInv /\ EchoInv
<1>1. Init => Inv
  BY InitListen, InitRead, InitWrite, InitServed, InitReader, InitEcho
<1>2. Inv /\ [Next]_vars => Inv'
  BY StepListen, StepRead, StepWrite, StepServed, StepReader, StepEcho
<1>3. Inv => EchoesExact
  BY InvEchoes
<1>4. QED
  BY <1>1, <1>2, <1>3, PTL DEF Spec
=============================================================================
