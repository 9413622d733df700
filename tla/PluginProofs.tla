---------------------------- MODULE PluginProofs ----------------------------
(***************************************************************************)
(* Proofs about the plugin, for any number of players, whatever the names, *)
(* with any number of logins, commands and crashes; and about the bytes of *)
(* a slot, for any number of enchantments (the code has 25) and any set of *)
(* inputs, so for all slots of 54 bytes.                                   *)
(***************************************************************************)
EXTENDS Plugin, Transcoder, SequenceLemmas, FiniteSetTheorems

(* The worlds and the permissions *)

\* Adding a key to a map, or taking one away.
LEMMA PutIs ==
  ASSUME NEW m, NEW k, NEW v
  PROVE  /\ DOMAIN Put(m, k, v) = DOMAIN m \cup {k}
         /\ \A x \in DOMAIN m \cup {k} : Put(m, k, v)[x] = IF x = k THEN v ELSE m[x]
BY DEF Put

LEMMA WithoutIs ==
  ASSUME NEW m, NEW k
  PROVE  /\ DOMAIN Without(m, k) = DOMAIN m \ {k}
         /\ \A x \in DOMAIN m \ {k} : Without(m, k)[x] = m[x]
BY DEF Without

\* The player a command finds is one who is logged in; who is logged in under
\* the very name typed is found.
LEMMA Found ==
  ASSUME NEW x, online \subseteq Players
  PROVE  /\ Matches(x) \subseteq online
         /\ x \in online => Matches(x) = {x}
BY DEF Matches

\* A world is loaded while its player is away only if it was left so.
WorldInv == WorldOfPermitted /\ loaded \ online \subseteq left

LEMMA InitWorlds ==
  WorldsInit => WorldsTypeOK /\ WorldInv /\ AttachmentCurrent
BY DEF WorldsInit, WorldsTypeOK, WorldInv, WorldOfPermitted, AttachmentCurrent

\* The sets of worlds after a handler.
WorldSets ==
  /\ loaded' \subseteq Players /\ folders' \subseteq Players
  /\ left' \subseteq Players /\ failed' \subseteq Players

\* createPlayerWorld gives the player a world or notes that there is none, and
\* touches no other; it makes a folder for every world it loads.
LEMMA Created ==
  ASSUME WorldsTypeOK, NEW p \in Players, CreatePlayerWorld(p)
  PROVE  /\ WorldSets /\ p \in loaded' \cup failed' /\ left' = left
         /\ loaded \subseteq loaded' /\ loaded' \subseteq loaded \cup {p}
         /\ loaded' \ folders' \subseteq loaded \ folders
         /\ failed \ {p} \subseteq failed'
<1>1. /\ \/ UNCHANGED <<loaded, folders>>
         \/ loaded' = loaded \cup {p} /\ folders' = folders \cup {p}
      /\ failed' = (IF p \in loaded' THEN failed \ {p} ELSE failed \cup {p})
      /\ UNCHANGED left
  BY Zenon DEF CreatePlayerWorld
<1>2. /\ loaded \subseteq Players /\ folders \subseteq Players
      /\ left \subseteq Players /\ failed \subseteq Players
  BY DEF WorldsTypeOK
<1>3. loaded' \subseteq Players /\ folders' \subseteq Players
  BY <1>1, <1>2
<1>4. loaded \subseteq loaded' /\ loaded' \subseteq loaded \cup {p}
  BY <1>1
<1>5. loaded' \ folders' \subseteq loaded \ folders
  BY <1>1
<1>6. p \in loaded' \cup failed' /\ failed' \subseteq Players
  BY <1>1, <1>2
<1>7. failed \ {p} \subseteq failed'
  BY <1>1
<1>8. QED
  BY <1>1, <1>2, <1>3, <1>4, <1>5, <1>6, <1>7 DEF WorldSets

\* deletePlayerWorld touches no world but the player's, which is left if it stays.
LEMMA Deleted ==
  ASSUME WorldsTypeOK, NEW p \in Players, DeletePlayerWorld(p)
  PROVE  /\ WorldSets /\ failed' = failed
         /\ loaded' \subseteq loaded /\ loaded \ {p} \subseteq loaded'
         /\ folders \ {p} \subseteq folders'
         /\ left' = (left \cup {p}) \cap loaded'
<1>1. /\ loaded' \in {loaded \ {p}, loaded} /\ folders' \in {folders \ {p}, folders}
      /\ failed' = failed /\ left' = (left \cup {p}) \cap loaded'
  BY PlayersAssumption DEF DeletePlayerWorld
<1>2. QED
  BY <1>1 DEF WorldsTypeOK, WorldSets

LEMMA StepWorldsType == WorldsTypeOK /\ [WorldsNext]_worlds => WorldsTypeOK'
<1> SUFFICES ASSUME WorldsTypeOK, [WorldsNext]_worlds
             PROVE  WorldsTypeOK'
  OBVIOUS
<1> USE DEF WorldsTypeOK
<1>1. ASSUME NEW p \in Players, LoggedIn(p)
      PROVE  WorldsTypeOK'
  <2>1. session'[p] \in Nat
    BY <1>1 DEF LoggedIn
  <2>2. /\ DOMAIN attachments' \subseteq Players
        /\ \A q \in DOMAIN attachments' : attachments'[q] \in Nat
    BY <1>1, <2>1 DEF LoggedIn, Put
  <2>3. WorldSets /\ playerIps' \subseteq Players
    BY <1>1, Created DEF LoggedIn, WorldSets
  <2>4. QED
    BY <1>1, <2>2, <2>3 DEF LoggedIn, WorldSets
<1>2. ASSUME NEW p \in Players, LoggedOut(p)
      PROVE  WorldsTypeOK'
  <2>1. WorldSets
    BY <1>2, Deleted DEF LoggedOut, WorldSets
  <2>2. QED
    BY <1>2, <2>1 DEF LoggedOut, WorldSets
<1>3. ASSUME NEW p \in Players, Operator(p)
      PROVE  WorldsTypeOK'
  BY <1>3 DEF Operator
<1>4. ASSUME NEW x \in Players, Fun(x)
      PROVE  WorldsTypeOK'
  <2>1. /\ granted' \in [Players -> {"unset", "yes", "no"}]
        /\ WorldSets /\ saved' \subseteq Players
    <3>1. CASE Matches(x) = {}
      BY <1>4, <3>1 DEF Fun, WorldSets
    <3>2. CASE Matches(x) # {}
      <4>1. PICK p \in Matches(x) :
              /\ granted' = [granted EXCEPT ![p] = "yes"] /\ CreatePlayerWorld(p)
              /\ saved' = IF p \in loaded' THEN config' ELSE saved
        BY <1>4, <3>2 DEF Fun
      <4>2. p \in Players /\ config' \subseteq Players
        BY <1>4, Found DEF Fun
      <4>3. WorldSets
        BY <4>1, <4>2, Created
      <4>4. QED
        BY <4>1, <4>2, <4>3
    <3>3. QED
      BY <3>1, <3>2
  <2>2. QED
    BY <1>4, <2>1 DEF Fun, WorldSets
<1>5. ASSUME NEW x \in Players, Nofun(x)
      PROVE  WorldsTypeOK'
  <2>1. /\ granted' \in [Players -> {"unset", "yes", "no"}]
        /\ WorldSets /\ saved' \subseteq Players
    <3>1. CASE Matches(x) = {}
      BY <1>5, <3>1 DEF Nofun, DeleteStringWorld, WorldSets
    <3>2. CASE Matches(x) # {}
      <4>1. PICK p \in Matches(x) :
              /\ granted' = [granted EXCEPT ![p] = "no"]
              /\ IF p \in loaded THEN DeletePlayerWorld(p) /\ saved' = config'
                                 ELSE UNCHANGED <<loaded, folders, left, failed, saved>>
        BY <1>5, <3>2 DEF Nofun
      <4>2. p \in Players /\ config' \subseteq Players
        BY <1>5, Found DEF Nofun
      <4>3. WorldSets
        BY <4>1, <4>2, Deleted DEF WorldSets
      <4>4. QED
        BY <4>1, <4>2, <4>3
    <3>3. QED
      BY <3>1, <3>2
  <2>2. QED
    BY <1>5, <2>1 DEF Nofun, WorldSets
<1>6. CASE Restart
  BY <1>6 DEF Restart
<1>7. CASE UNCHANGED worlds
  BY <1>7 DEF worlds
<1>8. QED
  BY <1>1, <1>2, <1>3, <1>4, <1>5, <1>6, <1>7 DEF WorldsNext

LEMMA StepWorld == WorldsTypeOK /\ WorldInv /\ [WorldsNext]_worlds => WorldInv'
<1> SUFFICES ASSUME WorldsTypeOK, WorldInv, [WorldsNext]_worlds
             PROVE  WorldInv'
  OBVIOUS
<1> USE DEF WorldInv, WorldOfPermitted
<1>0. online \subseteq Players /\ granted \in [Players -> {"unset", "yes", "no"}]
  BY DEF WorldsTypeOK
<1>1. ASSUME NEW p \in Players, LoggedIn(p)
      PROVE  WorldInv'
  <2>1. /\ online' = online \cup {p}
        /\ granted' = [granted EXCEPT ![p] = IF p \in config THEN "yes" ELSE "unset"]
    BY <1>1 DEF LoggedIn
  <2>2. CASE HasPermission(p, granted'[p])
    <3>1. /\ p \in loaded' \cup failed' /\ left' = left
          /\ loaded \subseteq loaded' /\ loaded' \subseteq loaded \cup {p}
          /\ loaded' \ folders' \subseteq loaded \ folders
          /\ failed \ {p} \subseteq failed'
      BY <1>1, <2>2, Created DEF LoggedIn
    <3>2. QED
      BY <1>0, <2>1, <3>1
  <2>3. CASE ~HasPermission(p, granted'[p])
    <3>1. UNCHANGED <<loaded, folders, left, failed>> /\ granted'[p] # "yes"
      BY <1>1, <2>3 DEF LoggedIn, HasPermission
    <3>2. QED
      BY <1>0, <2>1, <3>1
  <2>4. QED
    BY <2>2, <2>3
<1>2. ASSUME NEW p \in Players, LoggedOut(p)
      PROVE  WorldInv'
  <2>1. online' = online \ {p} /\ granted' = granted
    BY <1>2 DEF LoggedOut
  <2>2. /\ loaded' \subseteq loaded /\ loaded \ {p} \subseteq loaded'
        /\ folders \ {p} \subseteq folders' /\ failed' = failed
        /\ left' = (left \cup {p}) \cap loaded'
    BY <1>2, Deleted DEF LoggedOut
  <2>3. QED
    BY <1>0, <2>1, <2>2
<1>3. ASSUME NEW p \in Players, Operator(p)
      PROVE  WorldInv'
  BY <1>3 DEF Operator
<1>4. ASSUME NEW x \in Players, Fun(x)
      PROVE  WorldInv'
  <2>1. CASE Matches(x) = {}
    BY <1>4, <2>1 DEF Fun
  <2>2. CASE Matches(x) # {}
    <3>1. PICK p \in Matches(x) :
            granted' = [granted EXCEPT ![p] = "yes"] /\ CreatePlayerWorld(p)
      BY <1>4, <2>2 DEF Fun
    <3>2. p \in online /\ p \in Players /\ online' = online
      BY <1>0, <1>4, Found DEF Fun
    <3>3. /\ p \in loaded' \cup failed' /\ left' = left
          /\ loaded \subseteq loaded' /\ loaded' \subseteq loaded \cup {p}
          /\ loaded' \ folders' \subseteq loaded \ folders
          /\ failed \ {p} \subseteq failed'
      BY <3>1, <3>2, Created
    <3>4. QED
      BY <1>0, <3>1, <3>2, <3>3
  <2>3. QED
    BY <2>1, <2>2
<1>5. ASSUME NEW x \in Players, Nofun(x)
      PROVE  WorldInv'
  <2>1. online' = online
    BY <1>5 DEF Nofun
  <2>2. CASE Matches(x) = {}
    <3>1. x \notin online
      BY <1>0, <2>2, Found
    <3>2. /\ granted' = granted /\ UNCHANGED <<loaded, left, failed>>
          /\ folders \ {x} \subseteq folders'
      BY <1>5, <2>2 DEF Nofun, DeleteStringWorld
    <3>3. QED
      BY <2>1, <3>1, <3>2
  <2>3. CASE Matches(x) # {}
    <3>1. PICK p \in Matches(x) :
            /\ granted' = [granted EXCEPT ![p] = "no"]
            /\ IF p \in loaded THEN DeletePlayerWorld(p)
                               ELSE UNCHANGED <<loaded, folders, left, failed>>
      BY <1>5, <2>3 DEF Nofun
    <3>2. p \in Players
      BY <1>0, Found
    <3>3. CASE p \in loaded
      <4>1. /\ loaded' \subseteq loaded /\ loaded \ {p} \subseteq loaded'
            /\ folders \ {p} \subseteq folders' /\ failed' = failed
            /\ left' = (left \cup {p}) \cap loaded'
        BY <3>1, <3>2, <3>3, Deleted
      <4>2. QED
        BY <1>0, <2>1, <3>1, <3>2, <4>1
    <3>4. CASE p \notin loaded
      BY <1>0, <2>1, <3>1, <3>2, <3>4
    <3>5. QED
      BY <3>3, <3>4
  <2>4. QED
    BY <2>2, <2>3
<1>6. CASE Restart
  BY <1>6 DEF Restart
<1>7. CASE UNCHANGED worlds
  BY <1>7 DEF worlds
<1>8. QED
  BY <1>1, <1>2, <1>3, <1>4, <1>5, <1>6, <1>7 DEF WorldsNext

LEMMA StepAttachment ==
  WorldsTypeOK /\ AttachmentCurrent /\ [WorldsNext]_worlds => AttachmentCurrent'
<1> SUFFICES ASSUME WorldsTypeOK, AttachmentCurrent, [WorldsNext]_worlds,
                    NEW q \in online'
             PROVE  q \in DOMAIN attachments' /\ attachments'[q] = session'[q]
  BY DEF AttachmentCurrent
<1> USE DEF WorldsTypeOK, AttachmentCurrent
<1>1. ASSUME NEW p \in Players, LoggedIn(p)
      PROVE  q \in DOMAIN attachments' /\ attachments'[q] = session'[q]
  <2>1. attachments' = Put(attachments, p, session'[p])
        /\ session' = [session EXCEPT ![p] = @ + 1] /\ online' = online \cup {p}
    BY <1>1 DEF LoggedIn
  <2>2. QED
    BY <2>1 DEF Put
<1>2. ASSUME NEW p \in Players, LoggedOut(p)
      PROVE  q \in DOMAIN attachments' /\ attachments'[q] = session'[q]
  BY <1>2 DEF LoggedOut
<1>3. ASSUME NEW p \in Players, Operator(p)
      PROVE  q \in DOMAIN attachments' /\ attachments'[q] = session'[q]
  BY <1>3 DEF Operator
<1>4. ASSUME NEW x \in Players, Fun(x) \/ Nofun(x)
      PROVE  q \in DOMAIN attachments' /\ attachments'[q] = session'[q]
  BY <1>4 DEF Fun, Nofun
<1>5. CASE Restart
  BY <1>5 DEF Restart
<1>6. CASE UNCHANGED worlds
  BY <1>6 DEF worlds
<1>7. QED
  BY <1>1, <1>2, <1>3, <1>4, <1>5, <1>6 DEF WorldsNext
-----------------------------------------------------------------------------
(* Every step of the plugin is one of its worlds, or leaves them alone *)

LEMMA StepRefines == [Next]_vars => [WorldsNext]_worlds
<1> SUFFICES ASSUME [Next]_vars
             PROVE  WorldsNext \/ UNCHANGED worlds
  OBVIOUS
<1>1. ASSUME NEW p \in Players, Login(p)
      PROVE  WorldsNext
  BY <1>1 DEF Login, WorldsNext
<1>2. ASSUME NEW p \in Players, Logout(p)
      PROVE  WorldsNext
  BY <1>2 DEF Logout, WorldsNext
<1>3. ASSUME NEW p \in Players, Command(p)
      PROVE  UNCHANGED worlds
  BY <1>3 DEF Command
<1>4. ASSUME NEW p \in Players, Operator(p) \/ Fun(p) \/ Nofun(p)
      PROVE  WorldsNext
  BY <1>4 DEF WorldsNext
<1>5. ASSUME NEW i \in DOMAIN queues, Thread(i)
      PROVE  UNCHANGED worlds
  BY <1>5 DEF Thread
<1>6. CASE Crash
  BY <1>6 DEF Crash, WorldsNext
<1>7. CASE UNCHANGED vars
  BY <1>7 DEF vars
<1>8. QED
  BY <1>1, <1>2, <1>3, <1>4, <1>5, <1>6, <1>7 DEF Next

LEMMA InvWorlds == Spec => [](WorldsTypeOK /\ WorldInv /\ AttachmentCurrent)
<1>1. /\ WorldsTypeOK /\ WorldInv /\ AttachmentCurrent /\ [WorldsNext]_worlds
      => (WorldsTypeOK /\ WorldInv /\ AttachmentCurrent)'
  BY StepWorldsType, StepWorld, StepAttachment
<1>2. Init => WorldsInit
  BY DEF Init
<1>3. QED
  BY <1>1, <1>2, InitWorlds, StepRefines, PTL DEF Spec

\* PlayerListener.java:52-143, MyPlugin.java:52-98: a player who is logged in
\* and was given the permission has a world unless it could not be made, and a
\* loaded world has lost its folder only if it stayed loaded after a logout or a
\* /nofun of its player.
THEOREM PermittedHaveWorlds == Spec => []WorldOfPermitted
<1>1. WorldInv => WorldOfPermitted
  BY DEF WorldInv
<1>2. QED
  BY <1>1, InvWorlds, PTL

\* PlayerListener.java:96-143: the attachment the map holds for a player who is
\* logged in is the one of that login.
THEOREM AttachmentsAreCurrent == Spec => []AttachmentCurrent
BY InvWorlds, PTL
-----------------------------------------------------------------------------
(* The queues and the threads *)

\* A sequence with one element more, or another in the place of one.
LEMMA AppendType ==
  ASSUME NEW S, NEW q \in Seq(S), NEW e \in S
  PROVE  /\ Append(q, e) \in Seq(S) /\ Len(Append(q, e)) = Len(q) + 1
         /\ Append(q, e)[Len(q) + 1] = e
         /\ \A i \in 1 .. Len(q) : Append(q, e)[i] = q[i]
OBVIOUS

LEMMA ExceptType ==
  ASSUME NEW S, NEW q \in Seq(S), NEW i \in 1 .. Len(q), NEW e \in S
  PROVE  [q EXCEPT ![i] = e] \in Seq(S) /\ Len([q EXCEPT ![i] = e]) = Len(q)
OBVIOUS

LEMMA DomainIs ==
  ASSUME NEW S, NEW q \in Seq(S)
  PROVE  DOMAIN q = 1 .. Len(q) /\ Len(q) \in Nat /\ \A i \in DOMAIN q : q[i] \in S
OBVIOUS

LEMMA TailType ==
  ASSUME NEW S, NEW q \in Seq(S), q # <<>>
  PROVE  Tail(q) \in Seq(S) /\ Head(q) \in S
OBVIOUS

LEMMA InitProxies == Init => TypeOK /\ ThreadOfSession
<1> SUFFICES ASSUME Init
             PROVE  TypeOK /\ ThreadOfSession
  OBVIOUS
<1>1. WorldsTypeOK
  BY InitWorlds DEF Init
<1>2. <<>> \in Seq(Seq(Seq(Nat))) /\ <<>> \in Seq(Sender) /\ <<>> \in Seq(Nat)
  OBVIOUS
<1>3. ProxiesTypeOK
  BY <1>2 DEF Init, ProxiesInit, ProxiesTypeOK, Empty
<1>4. QED
  BY <1>1, <1>3 DEF Init, TypeOK, ThreadOfSession, ProxiesInit, Empty

\* Start leaves a queue that exists, polled by a thread of the player.
LEMMA Starting ==
  ASSUME WorldsTypeOK, ProxiesTypeOK, NEW p \in Players, Start(p)
  PROVE  /\ DOMAIN playerIn' = DOMAIN playerIn \cup {p}
         /\ \A x \in DOMAIN playerIn \ {p} : playerIn'[x] = playerIn[x]
         /\ playerIn'[p] \in 1 .. Len(Queues(p))
         /\ Queues(p) \in Seq(Seq(Seq(Nat)))
         /\ Len(taken') = Len(Queues(p)) /\ Len(threads') = Len(Queues(p))
         /\ taken' \in Seq(Seq(Seq(Nat))) /\ threads' \in Seq(Sender)
<1> USE DEF ProxiesTypeOK
<1>1. CASE p \in DOMAIN playerIn
  <2>1. DOMAIN queues = 1 .. Len(queues)
    BY DomainIs
  <2>2. /\ playerIn' = playerIn /\ Queues(p) = queues /\ taken' = taken
        /\ threads' = threads
    BY <1>1 DEF Start, Queues
  <2>3. QED
    BY <1>1, <2>1, <2>2
<1>2. CASE p \notin DOMAIN playerIn
  <2> DEFINE sender == [player |-> p, session |-> session[p]]
  <2>1. sender \in Sender
    BY DEF WorldsTypeOK, Sender
  <2>2. /\ playerIn' = Put(playerIn, p, Len(queues) + 1)
        /\ Queues(p) = Append(queues, <<>>) /\ taken' = Append(taken, <<>>)
        /\ threads' = Append(threads, sender)
    BY <1>2 DEF Start, Queues
  <2>3. /\ DOMAIN playerIn' = DOMAIN playerIn \cup {p}
        /\ \A x \in DOMAIN playerIn \ {p} : playerIn'[x] = playerIn[x]
        /\ playerIn'[p] = Len(queues) + 1
    BY <2>2 DEF Put
  <2>4. <<>> \in Seq(Seq(Nat)) /\ Len(queues) \in Nat
    OBVIOUS
  <2> HIDE DEF sender
  <2>5. /\ Queues(p) \in Seq(Seq(Seq(Nat))) /\ Len(Queues(p)) = Len(queues) + 1
        /\ taken' \in Seq(Seq(Seq(Nat))) /\ Len(taken') = Len(queues) + 1
    BY <2>2, <2>4, AppendType
  <2>6. threads' \in Seq(Sender) /\ Len(threads') = Len(queues) + 1
    BY <2>1, <2>2, AppendType
  <2>7. QED
    BY <2>2, <2>3, <2>4, <2>5, <2>6
<1>3. QED
  BY <1>1, <1>2

LEMMA LoggedOffType ==
  ASSUME ProxiesTypeOK, NEW p \in Players, LoggedOff(p)
  PROVE  ProxiesTypeOK'
BY DEF ProxiesTypeOK, LoggedOff, Without

LEMMA LType ==
  ASSUME WorldsTypeOK, ProxiesTypeOK, NEW p \in Players, L(p)
  PROVE  ProxiesTypeOK'
<1> USE DEF ProxiesTypeOK
<1> DEFINE made == Queues(p)
<1>1. Start(p) /\ UNCHANGED <<playerAddresses, chunks, typed>>
  BY DEF L
<1>2. /\ made \in Seq(Seq(Seq(Nat))) /\ Len(taken') = Len(made)
      /\ Len(threads') = Len(made) /\ playerIn'[p] \in 1 .. Len(made)
      /\ DOMAIN playerIn' = DOMAIN playerIn \cup {p}
      /\ \A x \in DOMAIN playerIn \ {p} : playerIn'[x] = playerIn[x]
      /\ taken' \in Seq(Seq(Seq(Nat))) /\ threads' \in Seq(Sender)
  BY <1>1, Starting
<1>3. Len(queues) \in Nat /\ DOMAIN queues = 1 .. Len(queues)
  BY DomainIs
<1>4. Len(queues) <= Len(made)
  <2>1. CASE p \in DOMAIN playerIn
    BY <2>1, <1>3 DEF Queues
  <2>2. CASE p \notin DOMAIN playerIn
    <3>1. <<>> \in Seq(Seq(Nat))
      OBVIOUS
    <3>2. Len(Append(queues, <<>>)) = Len(queues) + 1
      BY <3>1, AppendType
    <3>3. QED
      BY <2>2, <3>2, <1>3 DEF Queues
  <2>3. QED
    BY <2>1, <2>2
<1>5. /\ queues' \in Seq(Seq(Seq(Nat))) /\ Len(queues') = Len(made)
      /\ DOMAIN playerBytes' \subseteq Players
      /\ \A x \in DOMAIN playerBytes' : playerBytes'[x] \in Seq(Nat)
  <2>1. CASE p \notin DOMAIN playerBytes
    BY <2>1, <1>2 DEF L
  <2>2. CASE p \in DOMAIN playerBytes
    <3> DEFINE row == made[playerIn'[p]]
               more == Append(row, playerBytes[p])
    <3>1. row \in Seq(Seq(Nat)) /\ playerBytes[p] \in Seq(Nat)
      BY <2>2, <1>2, DomainIs
    <3>2. more \in Seq(Seq(Nat))
      BY <3>1, AppendType
    <3>3. queues' = [made EXCEPT ![playerIn'[p]] = more]
      BY <2>2 DEF L
    <3>4. DOMAIN playerBytes' \subseteq Players
          /\ \A x \in DOMAIN playerBytes' : playerBytes'[x] \in Seq(Nat)
      <4>1. playerBytes' = Put(playerBytes, p, <<>>) /\ <<>> \in Seq(Nat)
        BY <2>2 DEF L
      <4>2. QED
        BY <4>1 DEF Put
    <3> HIDE DEF more, made
    <3>5. QED
      BY <3>2, <3>3, <3>4, <1>2, ExceptType
  <2>3. QED
    BY <2>1, <2>2
<1>6. \A x \in DOMAIN playerIn' : playerIn'[x] \in DOMAIN queues'
  <2>1. DOMAIN queues' = 1 .. Len(queues')
    BY <1>5, DomainIs
  <2> HIDE DEF made
  <2>2. TAKE x \in DOMAIN playerIn'
  <2>3. CASE x = p
    BY <2>1, <2>3, <1>2, <1>5
  <2>4. CASE x # p
    <3>1. playerIn'[x] \in 1 .. Len(queues)
      BY <2>4, <1>2, <1>3
    <3>2. Len(made) \in Nat
      BY <1>2, DomainIs
    <3>3. QED
      BY <2>1, <3>1, <3>2, <1>3, <1>4, <1>5
  <2>5. QED
    BY <2>3, <2>4
<1>7. /\ DOMAIN playerThreads' \subseteq Players
      /\ \A x \in DOMAIN playerThreads' : playerThreads'[x] \in DOMAIN threads'
  <2>1. DOMAIN threads' = 1 .. Len(threads') /\ DOMAIN threads = 1 .. Len(threads)
    BY <1>2, DomainIs
  <2>2. CASE p \in DOMAIN playerIn
    BY <2>2, <1>1 DEF Start
  <2>3. CASE p \notin DOMAIN playerIn
    <3>1. playerThreads' = Put(playerThreads, p, Len(queues) + 1)
          /\ Len(threads') = Len(queues) + 1
      <4>1. [player |-> p, session |-> session[p]] \in Sender
        BY DEF WorldsTypeOK, Sender
      <4>2. threads' = Append(threads, [player |-> p, session |-> session[p]])
            /\ playerThreads' = Put(playerThreads, p, Len(queues) + 1)
        BY <2>3, <1>1 DEF Start
      <4>3. QED
        BY <4>1, <4>2, AppendType
    <3>2. \A x \in DOMAIN playerThreads : playerThreads[x] \in 1 .. Len(queues)
      BY <2>1
    <3>3. QED
      BY <2>1, <3>1, <3>2, <1>3 DEF Put
  <2>4. QED
    BY <2>2, <2>3
<1> HIDE DEF made
<1>8. QED
  BY <1>1, <1>2, <1>5, <1>6, <1>7

LEMMA JType ==
  ASSUME ProxiesTypeOK, NEW p \in Players, J(p)
  PROVE  ProxiesTypeOK'
<1> USE DEF ProxiesTypeOK
<1>1. chunks' \in Nat /\ typed[p] \in Seq(Nat)
  BY DEF J
<1>2. /\ Append(typed[p], chunks') \in Seq(Nat) /\ <<chunks'>> \in Seq(Nat)
      /\ p \in DOMAIN playerBytes => Append(playerBytes[p], chunks') \in Seq(Nat)
  BY <1>1
<1>3. typed' \in [Players -> Seq(Nat)]
  BY <1>2 DEF J
<1>4. /\ DOMAIN playerBytes' \subseteq Players
      /\ \A x \in DOMAIN playerBytes' : playerBytes'[x] \in Seq(Nat)
  BY <1>2 DEF J, Put
<1>5. QED
  BY <1>1, <1>3, <1>4 DEF J

LEMMA TakeType ==
  ASSUME ProxiesTypeOK, NEW i \in DOMAIN queues, Take(i)
  PROVE  ProxiesTypeOK'
<1> USE DEF ProxiesTypeOK
<1>1. /\ DOMAIN queues = 1 .. Len(queues) /\ queues[i] \in Seq(Seq(Nat))
      /\ i \in 1 .. Len(queues) /\ i \in 1 .. Len(taken) /\ taken[i] \in Seq(Seq(Nat))
  BY DomainIs
<1>2. Tail(queues[i]) \in Seq(Seq(Nat)) /\ Head(queues[i]) \in Seq(Nat)
  BY <1>1, TailType DEF Take
<1>3. Append(taken[i], Head(queues[i])) \in Seq(Seq(Nat))
  BY <1>1, <1>2, AppendType
<1> DEFINE rest == Tail(queues[i])
           more == Append(taken[i], Head(queues[i]))
<1>4. queues' = [queues EXCEPT ![i] = rest] /\ taken' = [taken EXCEPT ![i] = more]
  BY DEF Take
<1> HIDE DEF rest, more
<1>5. /\ queues' \in Seq(Seq(Seq(Nat))) /\ Len(queues') = Len(queues)
      /\ taken' \in Seq(Seq(Seq(Nat))) /\ Len(taken') = Len(taken)
  <2>1. rest \in Seq(Seq(Nat)) /\ more \in Seq(Seq(Nat))
    BY <1>2, <1>3 DEF rest, more
  <2>2. QED
    BY <2>1, <1>1, <1>4, ExceptType
<1>6. DOMAIN queues' = DOMAIN queues
  BY <1>1, <1>5, DomainIs
<1>7. QED
  BY <1>5, <1>6 DEF Take

LEMMA StepType == TypeOK /\ [Next]_vars => TypeOK'
<1> SUFFICES ASSUME TypeOK, [Next]_vars
             PROVE  TypeOK'
  OBVIOUS
<1>1. WorldsTypeOK /\ ProxiesTypeOK /\ torn \subseteq Players
  BY DEF TypeOK
<1>2. WorldsTypeOK'
  BY <1>1, StepRefines, StepWorldsType
<1>3. ProxiesTypeOK' /\ torn' \subseteq Players
  <2>1. ASSUME NEW p \in Players, Login(p)
        PROVE  ProxiesTypeOK' /\ torn' \subseteq Players
    BY <1>1, <2>1 DEF Login, ProxiesTypeOK
  <2>2. ASSUME NEW p \in Players, Logout(p)
        PROVE  ProxiesTypeOK' /\ torn' \subseteq Players
    <3>1. CASE LogoutFails(p)
      BY <1>1, <2>2, <3>1 DEF Logout, proxies, ProxiesTypeOK
    <3>2. CASE ~LogoutFails(p)
      BY <1>1, <2>2, <3>2, LoggedOffType DEF Logout
    <3>3. QED
      BY <3>1, <3>2
  <2>3. ASSUME NEW p \in Players, Command(p)
        PROVE  ProxiesTypeOK' /\ torn' \subseteq Players
    <3>1. CASE J(p)
      BY <1>1, <2>3, <3>1, JType DEF Command
    <3>2. CASE K(p)
      BY <1>1, <2>3, <3>2 DEF Command, K, ProxiesTypeOK
    <3>3. CASE L(p)
      BY <1>1, <2>3, <3>3, LType DEF Command
    <3>4. QED
      BY <2>3, <3>1, <3>2, <3>3 DEF Command
  <2>4. CASE UNCHANGED <<proxies, torn>>
    BY <1>1, <2>4 DEF proxies, ProxiesTypeOK
  <2>5. ASSUME NEW i \in DOMAIN queues, Thread(i)
        PROVE  ProxiesTypeOK' /\ torn' \subseteq Players
    BY <1>1, <2>5, TakeType DEF Thread
  <2>6. CASE Crash
    <3>1. <<>> \in Seq(Seq(Seq(Nat))) /\ <<>> \in Seq(Sender) /\ <<>> \in Seq(Nat)
      OBVIOUS
    <3>2. QED
      BY <1>1, <2>6, <3>1 DEF Crash, Forget, Empty, ProxiesTypeOK
  <2>7. CASE UNCHANGED vars
    BY <1>1, <2>7 DEF vars, proxies, ProxiesTypeOK
  <2>8. QED
    BY <2>1, <2>2, <2>3, <2>4, <2>5, <2>6, <2>7 DEF Next
<1>4. QED
  BY <1>2, <1>3 DEF TypeOK

\* MyPlugin.java:30-164, PlayerListener.java:96-143: every map and queue of the plugin
\* is of the type it is declared with, in every state.
THEOREM Typing == Spec => []TypeOK
<1>1. Init => TypeOK
  BY InitProxies
<1>2. QED
  BY <1>1, StepType, PTL DEF Spec

\* The /l that makes a queue starts its thread, for the player and the session.
LEMMA LThread ==
  ASSUME TypeOK, ThreadOfSession, NEW p \in Players, Command(p), L(p)
  PROVE  ThreadOfSession'
<1>1. WorldsTypeOK /\ ProxiesTypeOK /\ p \in online
  BY DEF TypeOK, Command
<1>2. /\ online' = online /\ session' = session /\ torn' = torn /\ Start(p)
  BY DEF Command, worlds, L
<1>3. CASE p \in DOMAIN playerIn
  BY <1>2, <1>3 DEF Start, ThreadOfSession
<1>4. CASE p \notin DOMAIN playerIn
  <2> DEFINE sender == [player |-> p, session |-> session[p]]
             made == Len(queues) + 1
  <2>1. sender \in Sender /\ sender.player = p /\ sender.session = session[p]
    BY <1>1 DEF WorldsTypeOK, Sender
  <2>2. /\ playerIn' = Put(playerIn, p, made) /\ threads' = Append(threads, sender)
        /\ playerThreads' = Put(playerThreads, p, made)
    BY <1>2, <1>4 DEF Start
  <2> HIDE DEF sender
  <2>3. /\ threads'[made] = sender
        /\ \A i \in 1 .. Len(queues) : threads'[i] = threads[i]
    BY <1>1, <2>1, <2>2, AppendType DEF ProxiesTypeOK
  <2>4. \A x \in DOMAIN playerIn : playerIn[x] \in 1 .. Len(queues)
    BY <1>1, DomainIs DEF ProxiesTypeOK
  <2> HIDE DEF made
  <2>5. /\ DOMAIN playerIn' = DOMAIN playerIn \cup {p} /\ playerIn'[p] = made
        /\ DOMAIN playerThreads' = DOMAIN playerThreads \cup {p}
        /\ playerThreads'[p] = made
        /\ \A x \in DOMAIN playerIn : playerIn'[x] = playerIn[x]
        /\ \A x \in DOMAIN playerThreads \ {p} : playerThreads'[x] = playerThreads[x]
    BY <1>4, <2>2 DEF Put
  <2>6. QED
    BY <1>1, <1>2, <1>4, <2>1, <2>3, <2>4, <2>5 DEF ThreadOfSession
<1>5. QED
  BY <1>3, <1>4

LEMMA StepThread ==
  TypeOK /\ ThreadOfSession /\ [Next]_vars => ThreadOfSession'
<1> SUFFICES ASSUME TypeOK, ThreadOfSession, [Next]_vars
             PROVE  ThreadOfSession'
  OBVIOUS
<1>1. ASSUME NEW p \in Players, Login(p)
      PROVE  ThreadOfSession'
  <2>1. /\ p \notin online /\ online' = online \cup {p}
        /\ session' = [session EXCEPT ![p] = @ + 1]
        /\ UNCHANGED <<playerIn, playerThreads, threads, torn>>
    BY <1>1 DEF Login, LoggedIn
  <2>2. QED
    BY <2>1 DEF ThreadOfSession, TypeOK, WorldsTypeOK
<1>2. ASSUME NEW p \in Players, Logout(p)
      PROVE  ThreadOfSession'
  <2>1. online' = online \ {p} /\ session' = session
    BY <1>2 DEF Logout, LoggedOut
  <2>2. CASE LogoutFails(p)
    BY <1>2, <2>1, <2>2 DEF Logout, proxies, ThreadOfSession
  <2>3. CASE ~LogoutFails(p)
    <3>1. /\ playerIn' = Without(playerIn, p) /\ torn' = torn \ {p}
          /\ playerThreads' = Without(playerThreads, p) /\ threads' = threads
      BY <1>2, <2>3 DEF Logout, LoggedOff
    <3>2. QED
      BY <2>1, <3>1 DEF ThreadOfSession, Without
  <2>4. QED
    BY <2>2, <2>3
<1>3. ASSUME NEW p \in Players, Command(p)
      PROVE  ThreadOfSession'
  <2>1. CASE J(p) \/ K(p)
    BY <1>3, <2>1 DEF Command, worlds, J, K, ThreadOfSession
  <2>2. CASE L(p)
    BY <1>3, <2>2, LThread
  <2>3. QED
    BY <1>3, <2>1, <2>2 DEF Command
<1>4. ASSUME NEW p \in Players, (Operator(p) \/ Fun(p) \/ Nofun(p)),
             UNCHANGED <<proxies, torn>>
      PROVE  ThreadOfSession'
  <2>1. online' = online /\ session' = session
    BY <1>4 DEF Operator, Fun, Nofun
  <2>2. QED
    BY <1>4, <2>1 DEF proxies, ThreadOfSession
<1>5. ASSUME NEW i \in DOMAIN queues, Thread(i)
      PROVE  ThreadOfSession'
  BY <1>5 DEF Thread, Take, worlds, ThreadOfSession
<1>6. CASE Crash
  BY <1>6 DEF Crash, Forget, Empty, ThreadOfSession
<1>7. CASE UNCHANGED vars
  BY <1>7 DEF vars, worlds, proxies, ThreadOfSession
<1>8. QED
  BY <1>1, <1>2, <1>3, <1>4, <1>5, <1>6, <1>7 DEF Next

\* MyPlugin.java:136-164, PlayerListener.java:124-143: the queue /l adds to is polled by a thread
\* started for the same player and, unless a logout was cut short, the same session.
THEOREM ThreadsOfSessions == Spec => []ThreadOfSession
<1>1. Init => TypeOK /\ ThreadOfSession
  BY InitProxies
<1>2. TypeOK /\ ThreadOfSession /\ [Next]_vars => (TypeOK /\ ThreadOfSession)'
  BY StepType, StepThread
<1>3. QED
  BY <1>1, <1>2, PTL DEF Spec
-----------------------------------------------------------------------------
(* The chunks *)

\* Who is neither logged in nor left by a logout cut short has no queue and no chunks.
CleanedUp == \A p \in Players \ (online \cup torn) :
  p \notin DOMAIN playerIn /\ p \notin DOMAIN playerBytes

LEMMA InitChunks == Init => CleanedUp /\ ChunksKept
<1> SUFFICES ASSUME Init
             PROVE  CleanedUp /\ ChunksKept
  OBVIOUS
<1>1. online = {} /\ DOMAIN playerIn = {} /\ DOMAIN playerBytes = {}
  BY DEF Init, WorldsInit, ProxiesInit, Empty
<1>2. QED
  BY <1>1 DEF CleanedUp, ChunksKept

LEMMA StepCleaned == CleanedUp /\ [Next]_vars => CleanedUp'
<1> SUFFICES ASSUME CleanedUp, [Next]_vars, NEW q \in Players, q \notin online', q \notin torn'
             PROVE  q \notin DOMAIN playerIn' /\ q \notin DOMAIN playerBytes'
  BY DEF CleanedUp
<1>1. ASSUME q \notin online, q \notin torn, UNCHANGED <<playerIn, playerBytes>>
      PROVE  q \notin DOMAIN playerIn' /\ q \notin DOMAIN playerBytes'
  BY <1>1 DEF CleanedUp
<1>2. ASSUME NEW p \in Players, Login(p)
      PROVE  q \notin DOMAIN playerIn' /\ q \notin DOMAIN playerBytes'
  <2>1. q \notin online /\ q \notin torn
    BY <1>2 DEF Login, LoggedIn
  <2>2. QED
    BY <1>1, <1>2, <2>1 DEF Login
<1>3. ASSUME NEW p \in Players, Logout(p)
      PROVE  q \notin DOMAIN playerIn' /\ q \notin DOMAIN playerBytes'
  <2>1. online' = online \ {p}
    BY <1>3 DEF Logout, LoggedOut
  <2>2. CASE LogoutFails(p)
    <3>1. torn' = torn \cup {p} /\ UNCHANGED <<playerIn, playerBytes>>
      BY <1>3, <2>2 DEF Logout, proxies
    <3>2. QED
      BY <1>1, <2>1, <3>1
  <2>3. CASE ~LogoutFails(p)
    <3>1. /\ torn' = torn \ {p} /\ playerBytes' = Without(playerBytes, p)
          /\ playerIn' = Without(playerIn, p)
      BY <1>3, <2>3 DEF Logout, LoggedOff
    <3>2. /\ DOMAIN playerIn' = DOMAIN playerIn \ {p}
          /\ DOMAIN playerBytes' = DOMAIN playerBytes \ {p}
      BY <3>1, WithoutIs
    <3>3. QED
      BY <2>1, <3>1, <3>2 DEF CleanedUp
  <2>4. QED
    BY <2>2, <2>3
<1>4. ASSUME NEW p \in Players, Command(p)
      PROVE  q \notin DOMAIN playerIn' /\ q \notin DOMAIN playerBytes'
  <2>1. p \in online /\ online' = online /\ torn' = torn
    BY <1>4 DEF Command, worlds
  <2>2. q \notin DOMAIN playerIn /\ q \notin DOMAIN playerBytes /\ q # p
    BY <2>1 DEF CleanedUp
  <2>3. CASE J(p)
    <3>1. playerIn' = playerIn /\ DOMAIN playerBytes' = DOMAIN playerBytes \cup {p}
      BY <2>3 DEF J, Put
    <3>2. QED
      BY <2>2, <3>1
  <2>4. CASE K(p)
    BY <2>2, <2>4 DEF K
  <2>5. CASE L(p)
    <3>1. DOMAIN playerIn' \subseteq DOMAIN playerIn \cup {p}
      BY <2>5 DEF L, Start, Put
    <3>2. DOMAIN playerBytes' \subseteq DOMAIN playerBytes \cup {p}
      BY <2>5 DEF L, Put
    <3>3. QED
      BY <2>2, <3>1, <3>2
  <2>6. QED
    BY <1>4, <2>3, <2>4, <2>5 DEF Command
<1>5. ASSUME NEW p \in Players, Operator(p) \/ Fun(p) \/ Nofun(p), UNCHANGED <<proxies, torn>>
      PROVE  q \notin DOMAIN playerIn' /\ q \notin DOMAIN playerBytes'
  <2>1. online' = online
    BY <1>5 DEF Operator, Fun, Nofun
  <2>2. QED
    BY <1>1, <1>5, <2>1 DEF proxies
<1>6. ASSUME NEW i \in DOMAIN queues, Thread(i)
      PROVE  q \notin DOMAIN playerIn' /\ q \notin DOMAIN playerBytes'
  BY <1>1, <1>6 DEF Thread, Take, worlds
<1>7. CASE Crash
  BY <1>7 DEF Crash, Forget, Empty
<1>8. CASE UNCHANGED vars
  BY <1>1, <1>8 DEF vars, worlds, proxies
<1>9. QED
  BY <1>2, <1>3, <1>4, <1>5, <1>6, <1>7, <1>8 DEF Next

LEMMA Kinds ==
  ASSUME ProxiesTypeOK, NEW p \in Players
  PROVE  /\ Sent(p) \in Seq(Nat) /\ Pending(p) \in Seq(Nat) /\ typed[p] \in Seq(Nat)
         /\ p \in DOMAIN playerIn =>
              /\ playerIn[p] \in 1 .. Len(queues)
              /\ queues[playerIn[p]] \in Seq(Seq(Nat))
              /\ taken[playerIn[p]] \in Seq(Seq(Nat))
<1>1. ASSUME p \in DOMAIN playerIn
      PROVE  /\ playerIn[p] \in 1 .. Len(queues)
             /\ queues[playerIn[p]] \in Seq(Seq(Nat)) /\ taken[playerIn[p]] \in Seq(Seq(Nat))
  <2>1. DOMAIN queues = 1 .. Len(queues) /\ playerIn[p] \in DOMAIN queues
        /\ DOMAIN taken = 1 .. Len(queues)
    BY <1>1, DomainIs DEF ProxiesTypeOK
  <2>2. QED
    BY <2>1, DomainIs DEF ProxiesTypeOK
<1>2. Sent(p) \in Seq(Nat)
  <2>1. CASE p \in DOMAIN playerIn
    <3>1. taken[playerIn[p]] \o queues[playerIn[p]] \in Seq(Seq(Nat))
      BY <1>1, <2>1, ConcatProperties
    <3>2. QED
      BY <2>1, <3>1, FlattenType DEF Sent
  <2>2. CASE p \notin DOMAIN playerIn
    BY <2>2 DEF Sent
  <2>3. QED
    BY <2>1, <2>2
<1>3. Pending(p) \in Seq(Nat) /\ typed[p] \in Seq(Nat)
  BY DEF Pending, ProxiesTypeOK
<1>4. QED
  BY <1>1, <1>2, <1>3

\* No queue is the one of two players.
LEMMA Apart ==
  ASSUME ThreadOfSession, NEW p \in DOMAIN playerIn, NEW q \in DOMAIN playerIn, p # q
  PROVE  playerIn[p] # playerIn[q]
BY DEF ThreadOfSession

\* What is sent for p stays when its queue does.
LEMMA SentSame ==
  ASSUME NEW p, p \in DOMAIN playerIn' <=> p \in DOMAIN playerIn,
         p \in DOMAIN playerIn =>
           /\ playerIn'[p] = playerIn[p]
           /\ queues'[playerIn[p]] = queues[playerIn[p]]
           /\ taken'[playerIn[p]] = taken[playerIn[p]]
  PROVE  Sent(p)' = Sent(p)
<1>1. CASE p \in DOMAIN playerIn
  BY <1>1 DEF Sent
<1>2. CASE p \notin DOMAIN playerIn
  BY <1>2 DEF Sent
<1>3. QED
  BY <1>1, <1>2

\* A request taken from its queue is still sent.
LEMMA TakeSent ==
  ASSUME ProxiesTypeOK, NEW i \in DOMAIN queues, Take(i), NEW p \in Players
  PROVE  Sent(p)' = Sent(p)
<1>1. playerIn' = playerIn
  BY DEF Take
<1>2. CASE p \in DOMAIN playerIn /\ playerIn[p] = i
  <2> DEFINE t == taken[i]
             q == queues[i]
  <2>1. q \in Seq(Seq(Nat)) /\ t \in Seq(Seq(Nat)) /\ i \in 1 .. Len(queues)
    BY <1>2, Kinds
  <2>2. DOMAIN taken = 1 .. Len(queues) /\ q # <<>>
    BY DomainIs DEF ProxiesTypeOK, Take
  <2>3. queues'[i] = Tail(q) /\ taken'[i] = Append(t, Head(q))
    BY <2>1, <2>2 DEF Take
  <2> HIDE DEF t, q
  <2>4. Append(t, Head(q)) \o Tail(q) = t \o q
    BY <2>1, <2>2, Regroup
  <2>5. taken'[i] \o queues'[i] = t \o q
    BY <2>3, <2>4, Zenon
  <2>6. QED
    BY <1>1, <1>2, <2>5, Zenon DEF Sent, t, q
<1>3. CASE p \in DOMAIN playerIn /\ playerIn[p] # i
  <2>1. queues'[playerIn[p]] = queues[playerIn[p]] /\ taken'[playerIn[p]] = taken[playerIn[p]]
    <3>1. playerIn[p] \in 1 .. Len(queues) /\ DOMAIN queues = 1 .. Len(queues)
          /\ DOMAIN taken = 1 .. Len(queues)
      BY <1>3, Kinds, DomainIs DEF ProxiesTypeOK
    <3>2. QED
      BY <1>3, <3>1 DEF Take
  <2>2. QED
    BY <1>1, <1>3, <2>1, SentSame
<1>4. CASE p \notin DOMAIN playerIn
  BY <1>1, <1>4 DEF Sent
<1>5. QED
  BY <1>2, <1>3, <1>4

\* What ChunksKept says of a player.
Kept(q) == Sent(q) \o Pending(q) = typed[q]

\* /j adds the chunk to what is collected.
LEMMA JSent ==
  ASSUME ProxiesTypeOK, NEW p \in Players, J(p), NEW q \in Players,
         Kept(q)
  PROVE  Kept(q)'
<1> USE DEF Kept
<1>1. Sent(q)' = Sent(q)
  BY SentSame DEF J
<1>2. CASE q # p
  <2>1. Pending(q)' = Pending(q) /\ typed'[q] = typed[q]
    BY <1>2 DEF J, Put, Pending, ProxiesTypeOK
  <2>2. QED
    BY <1>1, <2>1
<1>3. CASE q = p
  <2> DEFINE c == chunks'
             s == Sent(q)
             t == Pending(q)
  <2>1. c \in Nat /\ s \in Seq(Nat) /\ t \in Seq(Nat)
    BY Kinds DEF J, ProxiesTypeOK
  <2>2. typed'[q] = Append(typed[q], c)
    BY <1>3 DEF J, ProxiesTypeOK
  <2>3. Pending(q)' = Append(t, c)
    <3>1. /\ q \in DOMAIN playerBytes'
          /\ playerBytes'[q] = IF q \in DOMAIN playerBytes THEN Append(playerBytes[q], c) ELSE <<c>>
      BY <1>3 DEF J, Put
    <3>2. Append(<<>>, c) = <<c>>
      OBVIOUS
    <3>3. QED
      BY <3>1, <3>2 DEF Pending
  <2> HIDE DEF c, s, t
  <2>4. s \o Append(t, c) = Append(s \o t, c)
    BY <2>1, Regroup
  <2>5. s \o t = typed[q]
    BY DEF s, t
  <2>6. Sent(q)' = s
    BY <1>1 DEF s
  <2>7. QED
    BY <2>2, <2>3, <2>4, <2>5, <2>6, Zenon
<1>4. QED
  BY <1>2, <1>3

\* /l leaves the requests of the others alone ...
LEMMA LOthers ==
  ASSUME WorldsTypeOK, ProxiesTypeOK, ThreadOfSession, NEW p \in Players, L(p),
         NEW q \in Players, q # p
  PROVE  Sent(q)' = Sent(q) /\ Pending(q)' = Pending(q)
<1>1. Start(p)
  BY DEF L
<1>2. Pending(q)' = Pending(q)
  BY DEF L, Put, Pending
<1>3. q \in DOMAIN playerIn' <=> q \in DOMAIN playerIn
  BY <1>1 DEF Start, Put
<1>4. ASSUME q \in DOMAIN playerIn
      PROVE  /\ playerIn'[q] = playerIn[q]
             /\ queues'[playerIn[q]] = queues[playerIn[q]]
             /\ taken'[playerIn[q]] = taken[playerIn[q]]
  <2> DEFINE k == playerIn[q]
             made == Queues(p)
  <2>1. k \in 1 .. Len(queues) /\ Len(queues) \in Nat /\ Len(taken) = Len(queues)
    BY <1>4, Kinds, DomainIs DEF ProxiesTypeOK
  <2>2. playerIn'[q] = k /\ playerIn'[p] # k
    <3>1. CASE p \in DOMAIN playerIn
      BY <1>1, <1>4, <3>1, Apart DEF Start
    <3>2. CASE p \notin DOMAIN playerIn
      BY <1>1, <1>4, <2>1, <3>2 DEF Start, Put
    <3>3. QED
      BY <3>1, <3>2
  <2>3. made[k] = queues[k] /\ taken'[k] = taken[k] /\ k \in DOMAIN made
    <3>1. CASE p \in DOMAIN playerIn
      BY <1>1, <2>1, <3>1, DomainIs DEF Start, Queues, ProxiesTypeOK
    <3>2. CASE p \notin DOMAIN playerIn
      <4>1. made = Append(queues, <<>>) /\ taken' = Append(taken, <<>>)
        BY <1>1, <3>2 DEF Start, Queues
      <4>2. queues \in Seq(Seq(Seq(Nat))) /\ taken \in Seq(Seq(Seq(Nat))) /\ <<>> \in Seq(Seq(Nat))
        BY DEF ProxiesTypeOK
      <4> HIDE DEF k
      <4>3. QED
        BY <2>1, <4>1, <4>2, AppendType, DomainIs
    <3>3. QED
      BY <3>1, <3>2
  <2>4. queues' = made \/ \E r : queues' = [made EXCEPT ![playerIn'[p]] = r]
    BY DEF L
  <2> HIDE DEF made
  <2>5. queues'[k] = made[k]
    BY <2>2, <2>3, <2>4
  <2>6. QED
    BY <2>2, <2>3, <2>5
<1>5. QED
  BY <1>2, <1>3, <1>4, SentSame

\* ... and makes what the player has collected a request.
LEMMA LSent ==
  ASSUME WorldsTypeOK, ProxiesTypeOK, NEW p \in Players, L(p)
  PROVE  (Sent(p) \o Pending(p))' = Sent(p) \o Pending(p)
<1> DEFINE made == Queues(p)
           k == playerIn'[p]
           b == Pending(p)
           t == taken'[k]
<1>1. Start(p)
  BY DEF L
<1>2. /\ made \in Seq(Seq(Seq(Nat))) /\ k \in 1 .. Len(made) /\ p \in DOMAIN playerIn'
      /\ taken' \in Seq(Seq(Seq(Nat))) /\ Len(taken') = Len(made)
  BY <1>1, Starting
<1>3. made[k] \in Seq(Seq(Nat)) /\ t \in Seq(Seq(Nat)) /\ b \in Seq(Nat)
  <2>1. made[k] \in Seq(Seq(Nat)) /\ taken'[k] \in Seq(Seq(Nat))
    <3> HIDE DEF made, k
    <3>1. DOMAIN made = 1 .. Len(made) /\ DOMAIN taken' = 1 .. Len(taken')
      BY <1>2, DomainIs
    <3>2. QED
      BY <1>2, <3>1, DomainIs
  <2>2. QED
    BY <2>1, Kinds
\* What was sent is in the queue there is now, or nothing was.
<1>4. Sent(p) = FlattenSeq(t \o made[k])
  <2>1. CASE p \in DOMAIN playerIn
    BY <1>1, <2>1 DEF Start, Queues, Sent
  <2>2. CASE p \notin DOMAIN playerIn
    <3>1. /\ made = Append(queues, <<>>) /\ taken' = Append(taken, <<>>)
          /\ k = Len(queues) + 1
      BY <1>1, <2>2 DEF Start, Queues, Put
    <3>2. made[k] = <<>> /\ t = <<>>
      <4>1. queues \in Seq(Seq(Seq(Nat))) /\ taken \in Seq(Seq(Seq(Nat))) /\ <<>> \in Seq(Seq(Nat))
            /\ Len(taken) = Len(queues)
        BY DEF ProxiesTypeOK
      <4> HIDE DEF made, k
      <4>2. QED
        BY <3>1, <4>1, AppendType
    <3>3. <<>> \o <<>> = <<>>
      OBVIOUS
    <3>4. FlattenSeq(t \o made[k]) = <<>>
      BY <3>2, <3>3, FlattenEmpty, Zenon
    <3>5. QED
      BY <2>2, <3>4 DEF Sent
  <2>3. QED
    BY <2>1, <2>2
<1>5. Sent(p)' = FlattenSeq(t \o queues'[k])
  BY <1>2 DEF Sent
<1>6. CASE p \notin DOMAIN playerBytes
  <2>1. queues' = made /\ playerBytes' = playerBytes
    BY <1>6 DEF L
  <2>2. Pending(p)' = b
    BY <2>1 DEF Pending
  <2>3. QED
    BY <1>4, <1>5, <2>1, <2>2, Zenon
<1>7. CASE p \in DOMAIN playerBytes
  <2> DEFINE r == made[k]
  <2>1. queues'[k] = Append(r, b)
    <3>1. queues' = [made EXCEPT ![k] = Append(r, b)]
      BY <1>7 DEF L, Pending
    <3> HIDE DEF made, k, b
    <3>2. DOMAIN made = 1 .. Len(made)
      BY <1>2, DomainIs
    <3>3. QED
      BY <1>2, <3>1, <3>2
  <2>2. Pending(p)' = <<>>
    BY <1>7 DEF L, Put, Pending
  <2>3. t \o Append(r, b) = Append(t \o r, b) /\ t \o r \in Seq(Seq(Nat))
    <3> HIDE DEF t, r, b
    <3>1. r \in Seq(Seq(Nat))
      BY <1>3 DEF r
    <3>2. QED
      BY <1>3, <3>1, Regroup
  <2>4. FlattenSeq(Append(t \o r, b)) = FlattenSeq(t \o r) \o b
    <3> HIDE DEF t, r, b
    <3>1. QED
      BY <1>3, <2>3, FlattenAppend
  <2>5. Sent(p)' = Sent(p) \o b
    BY <1>4, <1>5, <2>1, <2>3, <2>4, Zenon
  <2>6. (Sent(p) \o b) \o <<>> = Sent(p) \o b
    BY <1>3, Kinds
  <2>7. QED
    BY <2>2, <2>5, <2>6, Zenon
<1>8. QED
  BY <1>6, <1>7

LEMMA StepChunks ==
  TypeOK /\ ThreadOfSession /\ CleanedUp /\ ChunksKept /\ [Next]_vars => ChunksKept'
<1> SUFFICES ASSUME TypeOK, ThreadOfSession, CleanedUp, ChunksKept, [Next]_vars,
                    NEW q \in online', q \notin torn'
             PROVE  Kept(q)'
  BY DEF ChunksKept, Kept
<1>1. WorldsTypeOK /\ ProxiesTypeOK /\ online \subseteq Players
  BY DEF TypeOK, WorldsTypeOK
<1>2. ASSUME q \in online, q \notin torn
      PROVE  Kept(q) /\ q \in Players
  BY <1>1, <1>2 DEF ChunksKept, Kept
<1>3. ASSUME Kept(q), Sent(q)' = Sent(q), Pending(q)' = Pending(q), typed'[q] = typed[q]
      PROVE  Kept(q)'
  BY <1>3, Zenon DEF Kept
<1>4. ASSUME Kept(q), UNCHANGED proxies
      PROVE  Kept(q)'
  <2>1. Sent(q)' = Sent(q) /\ Pending(q)' = Pending(q) /\ typed'[q] = typed[q]
    BY <1>4, SentSame DEF proxies, Pending
  <2>2. QED
    BY <1>4, <1>3, <2>1
<1>5. ASSUME NEW p \in Players, Login(p)
      PROVE  Kept(q)'
  <2>1. /\ p \notin online /\ online' = online \cup {p} /\ torn' = torn
        /\ typed' = [typed EXCEPT ![p] = <<>>] /\ typed \in [Players -> Seq(Nat)]
    BY <1>1, <1>5 DEF Login, LoggedIn, ProxiesTypeOK
  <2>2. Sent(q)' = Sent(q) /\ Pending(q)' = Pending(q)
    BY <1>5, SentSame DEF Login, Pending
  <2>3. CASE q = p
    <3>1. Sent(q) = <<>> /\ Pending(q) = <<>>
      BY <2>1, <2>3 DEF CleanedUp, Sent, Pending
    <3>2. typed'[q] = <<>> /\ <<>> \o <<>> = <<>>
      BY <2>1, <2>3
    <3>3. QED
      BY <2>2, <3>1, <3>2, Zenon DEF Kept
  <2>4. CASE q # p
    <3>1. typed'[q] = typed[q] /\ q \in online /\ q \notin torn
      BY <2>1, <2>4
    <3>2. QED
      BY <1>2, <1>3, <2>2, <3>1
  <2>5. QED
    BY <2>3, <2>4
<1>6. ASSUME NEW p \in Players, Logout(p)
      PROVE  Kept(q)'
  <2>1. online' = online \ {p}
    BY <1>6 DEF Logout, LoggedOut
  <2>2. CASE LogoutFails(p)
    <3>1. torn' = torn \cup {p} /\ UNCHANGED proxies
      BY <1>6, <2>2 DEF Logout
    <3>2. QED
      BY <1>2, <1>4, <2>1, <3>1
  <2>3. CASE ~LogoutFails(p)
    <3>1. torn' = torn \ {p} /\ LoggedOff(p)
      BY <1>6, <2>3 DEF Logout
    <3>2. q \in online /\ q \notin torn /\ q # p
      BY <2>1, <3>1
    <3>3. Sent(q)' = Sent(q) /\ typed'[q] = typed[q]
      BY <3>1, <3>2, SentSame, WithoutIs DEF LoggedOff
    <3>4. playerBytes' = Without(playerBytes, p)
      BY <3>1 DEF LoggedOff
    <3>5. Pending(q)' = Pending(q)
      <4>1. /\ q \in DOMAIN playerBytes' <=> q \in DOMAIN playerBytes
            /\ q \in DOMAIN playerBytes => playerBytes'[q] = playerBytes[q]
        BY <3>2, <3>4, WithoutIs, Zenon
      <4>2. QED
        BY <4>1 DEF Pending
    <3>6. QED
      BY <1>2, <1>3, <3>2, <3>3, <3>5
  <2>4. QED
    BY <2>2, <2>3
<1>7. ASSUME NEW p \in Players, Command(p)
      PROVE  Kept(q)'
  <2>1. online' = online /\ torn' = torn
    BY <1>7 DEF Command, worlds
  <2>2. Kept(q) /\ q \in Players
    BY <1>2, <2>1
  <2>3. CASE J(p)
    BY <1>1, <2>2, <2>3, JSent
  <2>4. CASE K(p)
    <3>1. Sent(q)' = Sent(q) /\ Pending(q)' = Pending(q) /\ typed'[q] = typed[q]
      BY <2>4, SentSame DEF K, Pending
    <3>2. QED
      BY <1>3, <2>2, <3>1
  <2>5. CASE L(p)
    <3>1. typed' = typed
      BY <2>5 DEF L
    <3>2. CASE q = p
      BY <1>1, <2>2, <2>5, <3>1, <3>2, LSent DEF Kept
    <3>3. CASE q # p
      BY <1>1, <1>3, <2>2, <2>5, <3>1, <3>3, LOthers
    <3>4. QED
      BY <3>2, <3>3
  <2>6. QED
    BY <1>7, <2>3, <2>4, <2>5 DEF Command
<1>8. ASSUME NEW p \in Players, Operator(p) \/ Fun(p) \/ Nofun(p), UNCHANGED <<proxies, torn>>
      PROVE  Kept(q)'
  <2>1. online' = online /\ torn' = torn /\ UNCHANGED proxies
    BY <1>8 DEF Operator, Fun, Nofun
  <2>2. QED
    BY <1>2, <1>4, <2>1
<1>9. ASSUME NEW i \in DOMAIN queues, Thread(i)
      PROVE  Kept(q)'
  <2>1. online' = online /\ torn' = torn /\ Take(i)
    BY <1>9 DEF Thread, worlds
  <2>2. Pending(q)' = Pending(q) /\ typed'[q] = typed[q]
    BY <2>1 DEF Take, Pending
  <2>3. QED
    BY <1>1, <1>2, <1>3, <2>1, <2>2, TakeSent
<1>10. CASE Crash
  BY <1>10 DEF Crash, Restart
<1>11. CASE UNCHANGED vars
  BY <1>2, <1>4, <1>11 DEF vars, worlds
<1>12. QED
  BY <1>5, <1>6, <1>7, <1>8, <1>9, <1>10, <1>11 DEF Next

\* MyPlugin.java:99-164, ProxyServer.java:29-44, PlayerListener.java:96-143: whatever the others type,
\* the threads take and the crashes forget, the requests of a session and what is
\* collected are, in order, the chunks typed in it.
THEOREM KeepsChunks == Spec => []ChunksKept
<1> DEFINE IInv == TypeOK /\ ThreadOfSession /\ CleanedUp /\ ChunksKept
<1>1. Init => IInv
  BY InitProxies, InitChunks
<1>2. IInv /\ [Next]_vars => IInv'
  BY StepType, StepThread, StepCleaned, StepChunks
<1>3. QED
  BY <1>1, <1>2, PTL DEF Spec
-----------------------------------------------------------------------------
(* The bytes of a slot *)

\* The conversions of bytes are inverse to each other, signs included.
LEMMA ByteKept ==
  ASSUME NEW b \in Byte
  PROVE  b % 256 \in 0 .. 255 /\ AsByte(b % 256) = b
BY DEF Byte, AsByte

LEMMA AsByteType ==
  ASSUME NEW n \in Int
  PROVE  AsByte(n) \in Byte
BY DEF Byte, AsByte

LEMMA FirstKept ==
  ASSUME NEW b \in Byte
  PROVE  Amount(b) \in Byte /\ First(Material(b), Amount(b)) = b
<1>1. CASE b % 2 = 0
  <2>1. Amount(b) = b + 1 /\ Material(b) = "LEATHER_CHESTPLATE"
    BY <1>1 DEF Amount, Material
  <2>2. (b + 1) \div 2 = b \div 2 /\ 2 * (b \div 2) = b /\ b + 1 \in Byte
    BY <1>1 DEF Byte
  <2>3. First("LEATHER_CHESTPLATE", b + 1) = AsByte(b)
    BY <2>2 DEF First, Byte
  <2>4. AsByte(b) = b
    BY DEF AsByte, Byte
  <2>5. QED
    BY <2>1, <2>2, <2>3, <2>4
<1>2. CASE b % 2 # 0
  <2>1. Amount(b) = b /\ Material(b) = "LEATHER_LEGGINGS"
    BY <1>2 DEF Amount, Material
  <2>2. 2 * (b \div 2) + 1 = b
    BY <1>2 DEF Byte
  <2>3. First("LEATHER_LEGGINGS", b) = AsByte(b)
    BY <2>2 DEF First, Byte
  <2>4. AsByte(b) = b
    BY DEF AsByte, Byte
  <2>5. QED
    BY <2>1, <2>3, <2>4
<1>3. QED
  BY <1>1, <1>2

LEMMA TwoBytes ==
  ASSUME NEW h \in Int, NEW r \in Int, -128 <= h, h <= 127, 0 <= r, r <= 255
  PROVE  /\ (256 * h) + r \in Int
         /\ ((256 * h) + r) \div 256 = h /\ ((256 * h) + r) % 256 = r
<1>1. (256 * h) + r \in Int
  OBVIOUS
<1>2. ((256 * h) + r) \div 256 = h
  OBVIOUS
<1>3. ((256 * h) + r) % 256 = r
  OBVIOUS
<1>4. QED
  BY <1>1, <1>2, <1>3

LEMMA LevelKept ==
  ASSUME NEW high \in Byte, NEW low \in Byte
  PROVE  /\ Level(high, low) \in Int
         /\ AsByte((Level(high, low) \div 256) % 256) = high
         /\ AsByte(Level(high, low) % 256) = low
<1> DEFINE r == low % 256
           v == (256 * high) + r
<1>1. r \in 0 .. 255 /\ AsByte(r) = low
  BY ByteKept
<1>2. Level(high, low) = v
  BY DEF Level
<1> HIDE DEF r
<1>3. /\ v \in Int
      /\ v \div 256 = high /\ v % 256 = r
  BY <1>1, TwoBytes DEF Byte
<1> HIDE DEF v
<1>4. AsByte(high % 256) = high
  BY ByteKept
<1>5. QED
  BY <1>1, <1>2, <1>3, <1>4

\* Rank counts up by one at each enchantment the server knows.
LEMMA RankStep ==
  ASSUME known \subseteq 1 .. Enchants, NEW n \in Nat
  PROVE  /\ Rank(0) = 0 /\ Rank(n) \in Nat
         /\ n + 1 \in known => Rank(n + 1) = Rank(n) + 1
         /\ n + 1 \notin known => Rank(n + 1) = Rank(n)
<1>1. \A m \in Nat : IsFiniteSet(known \cap 1 .. m)
  <2>1. SUFFICES ASSUME NEW m \in Nat PROVE IsFiniteSet(known \cap 1 .. m)
    OBVIOUS
  <2>2. IsFiniteSet(1 .. m)
    BY FS_Interval
  <2>3. QED
    BY <2>2, FS_Subset, known \cap 1 .. m \subseteq 1 .. m
<1>2. Rank(0) = 0
  <2>1. known \cap 1 .. 0 = {}
    OBVIOUS
  <2>2. QED
    BY <2>1, FS_EmptySet DEF Rank
<1>3. Rank(n) \in Nat
  BY <1>1, FS_CardinalityType DEF Rank
<1>4. ASSUME n + 1 \in known PROVE Rank(n + 1) = Rank(n) + 1
  <2>1. known \cap 1 .. n + 1 = (known \cap 1 .. n) \cup {n + 1} /\ n + 1 \notin known \cap 1 .. n
    BY <1>4
  <2>2. QED
    BY <1>1, <2>1, FS_AddElement DEF Rank
<1>5. ASSUME n + 1 \notin known PROVE Rank(n + 1) = Rank(n)
  <2>1. known \cap 1 .. n + 1 = known \cap 1 .. n
    BY <1>5
  <2>2. QED
    BY <2>1 DEF Rank
<1>6. QED
  BY <1>2, <1>3, <1>4, <1>5

\* It does not decrease, and it is at least 1 at an enchantment the server knows.
LEMMA RankMonotone ==
  ASSUME known \subseteq 1 .. Enchants, NEW m \in Nat, NEW n \in Nat, m <= n
  PROVE  /\ Rank(m) <= Rank(n)
         /\ m \in known => Rank(m) >= 1
<1>1. IsFiniteSet(known \cap 1 .. n) /\ IsFiniteSet(known \cap 1 .. m)
  <2>1. IsFiniteSet(1 .. n) /\ IsFiniteSet(1 .. m)
    BY FS_Interval
  <2>2. QED
    BY <2>1, FS_Subset, known \cap 1 .. n \subseteq 1 .. n, known \cap 1 .. m \subseteq 1 .. m
<1>2. known \cap 1 .. m \subseteq known \cap 1 .. n
  OBVIOUS
<1>3. Rank(m) <= Rank(n)
  BY <1>1, <1>2, FS_Subset DEF Rank
<1>4. ASSUME m \in known PROVE Rank(m) >= 1
  <2>1. m - 1 \in Nat /\ (m - 1) + 1 = m
    BY <1>4
  <2>2. Rank(m) = Rank(m - 1) + 1 /\ Rank(m - 1) \in Nat
    BY <1>4, <2>1, RankStep
  <2>3. QED
    BY <2>2
<1>5. QED
  BY <1>3, <1>4

LEMMA AppendTwo ==
  ASSUME NEW S, NEW s \in Seq(S), NEW a \in S, NEW b \in S
  PROVE  /\ s \o <<a, b>> \in Seq(S) /\ Len(s \o <<a, b>>) = Len(s) + 2
         /\ \A i \in 1 .. Len(s) : (s \o <<a, b>>)[i] = s[i]
         /\ (s \o <<a, b>>)[Len(s) + 1] = a /\ (s \o <<a, b>>)[Len(s) + 2] = b
OBVIOUS

\* The bytes of a slot, by what they stand for.
LEMMA SlotBytes ==
  ASSUME bytes \in Seq(Byte), Len(bytes) = BYTES_PER_SLOT
  PROVE  /\ \A i \in 1 .. 4 : bytes[i] \in Byte
         /\ \A e \in 1 .. Enchants : bytes[3 + 2 * e] \in Byte /\ bytes[4 + 2 * e] \in Byte
<1>1. \A i \in 1 .. 4 + 2 * Enchants : bytes[i] \in Byte
  BY DEF BYTES_PER_SLOT
<1>2. Enchants \in Nat
  BY TranscoderAssumption DEF TranscoderAssumption
<1>3. \A i \in 1 .. 4 : i \in 1 .. 4 + 2 * Enchants
  BY <1>2
<1>4. \A e \in 1 .. Enchants : 3 + 2 * e \in 1 .. 4 + 2 * Enchants
                            /\ 4 + 2 * e \in 1 .. 4 + 2 * Enchants
  BY <1>2
<1>5. QED
  BY <1>1, <1>3, <1>4
-----------------------------------------------------------------------------
LEMMA TranscoderInit == SlotInit => SlotInv
<1> SUFFICES ASSUME SlotInit PROVE SlotInv
  OBVIOUS
<1>1. pc = "start" /\ next = 1 /\ item = NoItem /\ out = <<>>
      /\ bytes \in Inputs /\ known \subseteq 1 .. Enchants
  BY DEF SlotInit
<1>2. NoItem \in Item
  BY DEF NoItem, Item, Byte
<1>3. bytes \in Seq(Byte) /\ Enchants \in Nat
  BY <1>1, TranscoderAssumption DEF TranscoderAssumption, Byte
<1>4. SlotTypeOK
  BY <1>1, <1>2, <1>3 DEF SlotTypeOK
<1>5. ItemInv /\ NextInv /\ KnownKept
  BY <1>1 DEF ItemInv, NextInv, KnownKept, Decoding
<1>6. QED
  BY <1>4, <1>5 DEF SlotInv

\* The first four bytes of the slot go into the piece, its amount and its colour.
LEMMA EncodeStep ==
  ASSUME SlotInv, Encode
  PROVE  SlotInv'
<1>1. /\ pc = "start" /\ next = 1 /\ UNCHANGED <<bytes, known, next, out>>
      /\ SlotTypeOK /\ Enchants \in Nat
  BY TranscoderAssumption DEF SlotInv, NextInv, Encode, TranscoderAssumption
<1>2. CASE Len(bytes) # BYTES_PER_SLOT
  <2>1. pc' = "null" /\ item' = item
    BY <1>2 DEF Encode
  <2>2. SlotTypeOK'
    BY <1>1, <2>1 DEF SlotTypeOK
  <2>3. ItemInv' /\ NextInv' /\ KnownKept'
    BY <2>1 DEF ItemInv, NextInv, KnownKept, Decoding
  <2>4. QED
    BY <2>2, <2>3 DEF SlotInv
<1>3. CASE Len(bytes) = BYTES_PER_SLOT
  <2> DEFINE m == Material(bytes[1])
             n == Amount(bytes[1])
             c == [i \in 1 .. 3 |-> bytes[i + 1] % 256]
  <2>1. pc' = "encoding" /\ item' = [NoItem EXCEPT !.material = m, !.amount = n, !.color = c]
    BY <1>3 DEF Encode
  <2>2. \A i \in 1 .. 4 : bytes[i] \in Byte
    BY <1>1, <1>3, SlotBytes DEF SlotTypeOK
  <2>3. m \in {"LEATHER_CHESTPLATE", "LEATHER_LEGGINGS"} /\ n \in Byte
    BY <2>2, FirstKept DEF Material
  <2>4. c \in [1 .. 3 -> 0 .. 255]
    <3>1. ASSUME NEW i \in 1 .. 3 PROVE bytes[i + 1] % 256 \in 0 .. 255
      BY <2>2, ByteKept, i + 1 \in 1 .. 4
    <3>2. QED
      BY <3>1
  <2>5. \A i \in 1 .. 3 : c[i] = bytes[i + 1] % 256
    OBVIOUS
  <2>6. m = Material(bytes[1]) /\ n = Amount(bytes[1])
    OBVIOUS
  <2> HIDE DEF m, n, c
  <2>7. item' \in Item /\ item'.material = m /\ item'.amount = n /\ item'.color = c
    <3>1. NoItem \in Item
      BY DEF NoItem, Item, Byte
    <3>2. QED
      BY <2>1, <2>3, <2>4, <3>1 DEF Item
  <2>8. SlotTypeOK'
    BY <1>1, <2>1, <2>7 DEF SlotTypeOK
  <2>9. ItemInv'
    <3>1. \A e \in known' : ~(e < next' \/ pc' # "encoding")
      BY <1>1, <2>1 DEF SlotTypeOK
    <3>2. QED
      BY <1>1, <1>3, <2>5, <2>6, <2>7, <3>1 DEF ItemInv
  <2>10. NextInv' /\ KnownKept'
    BY <2>1 DEF NextInv, KnownKept, Decoding
  <2>11. QED
    BY <2>8, <2>9, <2>10 DEF SlotInv
<1>4. QED
  BY <1>2, <1>3

\* One more enchantment has its level.
LEMMA EncodeEnchantStep ==
  ASSUME SlotInv, EncodeEnchant
  PROVE  SlotInv'
<1>1. /\ pc = "encoding" /\ next <= Enchants /\ next' = next + 1
      /\ UNCHANGED <<bytes, known, pc, out>>
      /\ SlotTypeOK /\ ItemInv /\ Enchants \in Nat
  BY TranscoderAssumption DEF SlotInv, EncodeEnchant, TranscoderAssumption
<1>2. next \in 1 .. Enchants /\ next' \in 1 .. Enchants + 1
  BY <1>1 DEF SlotTypeOK
<1> DEFINE v == Level(bytes[3 + 2 * next], bytes[4 + 2 * next])
<1>3. v \in Int
  <2>1. bytes[3 + 2 * next] \in Byte /\ bytes[4 + 2 * next] \in Byte
    BY <1>1, <1>2, SlotBytes DEF SlotTypeOK, ItemInv
  <2>2. QED
    BY <2>1, LevelKept
<1>4. item' = IF next \in known THEN [item EXCEPT !.level[next] = v] ELSE item
  BY DEF EncodeEnchant
<1>5. v = Level(bytes[3 + 2 * next], bytes[4 + 2 * next])
  OBVIOUS
<1> HIDE DEF v
<1>6. /\ item' \in Item /\ item'.material = item.material /\ item'.amount = item.amount
      /\ item'.color = item.color
      /\ next \in known => item'.level[next] = v
      /\ \A e \in 1 .. Enchants : e # next => item'.level[e] = item.level[e]
  <2>1. item \in Item
    BY <1>1 DEF SlotTypeOK
  <2>2. CASE next \in known
    BY <1>2, <1>3, <1>4, <2>1, <2>2 DEF Item
  <2>3. CASE next \notin known
    BY <1>4, <2>1, <2>3
  <2>4. QED
    BY <2>2, <2>3
<1>7. SlotTypeOK'
  BY <1>1, <1>2, <1>6 DEF SlotTypeOK
<1>8. ItemInv'
  <2>1. ASSUME NEW e \in known, e < next'
        PROVE  item'.level[e] = Level(bytes[3 + 2 * e], bytes[4 + 2 * e])
    <3>1. CASE e = next
      BY <1>5, <1>6, <3>1
    <3>2. CASE e # next
      <4>1. e < next /\ e \in 1 .. Enchants
        BY <1>1, <1>2, <2>1, <3>2 DEF SlotTypeOK
      <4>2. QED
        BY <1>1, <1>6, <3>2, <4>1 DEF ItemInv
    <3>3. QED
      BY <3>1, <3>2
  <2>2. QED
    BY <1>1, <1>6, <2>1 DEF ItemInv
<1>9. NextInv' /\ KnownKept'
  BY <1>1 DEF NextInv, KnownKept, Decoding
<1>10. QED
  BY <1>7, <1>8, <1>9 DEF SlotInv

\* handleEnchants returns.
LEMMA ReturnStep ==
  ASSUME SlotInv, Encoded \/ Decoded
  PROVE  SlotInv'
<1>1. /\ (pc = "encoding" /\ pc' = "encoded") \/ (pc = "decoding" /\ pc' = "decoded")
      /\ next = Enchants + 1 /\ UNCHANGED <<bytes, known, next, item, out>>
  BY DEF Encoded, Decoded
<1>2. SlotTypeOK /\ ItemInv /\ KnownKept /\ Enchants \in Nat
  BY TranscoderAssumption DEF SlotInv, TranscoderAssumption
<1>3. SlotTypeOK' /\ NextInv'
  BY <1>1, <1>2 DEF SlotTypeOK, NextInv
<1>4. ItemInv'
  <2>1. \A e \in known : e < next
    BY <1>1, <1>2 DEF SlotTypeOK
  <2>2. QED
    BY <1>1, <1>2, <2>1 DEF ItemInv, Decoding
<1>5. KnownKept'
  BY <1>1, <1>2 DEF KnownKept, Decoding, Rank
<1>6. QED
  BY <1>3, <1>4, <1>5 DEF SlotInv

\* The first four bytes come back.
LEMMA DecodeStep ==
  ASSUME SlotInv, Decode
  PROVE  SlotInv'
<1>1. /\ pc = "encoded" /\ pc' = "decoding" /\ next' = 1
      /\ UNCHANGED <<bytes, known, item>>
      /\ SlotTypeOK /\ ItemInv /\ Enchants \in Nat
  BY TranscoderAssumption DEF SlotInv, Decode, TranscoderAssumption
<1>2. out' = <<First(item.material, item.amount), AsByte(item.color[1]),
              AsByte(item.color[2]), AsByte(item.color[3])>>
  BY DEF Decode
<1>3. \A i \in 1 .. 4 : bytes[i] \in Byte
  BY <1>1, SlotBytes DEF SlotTypeOK, ItemInv
<1>4. First(item.material, item.amount) = bytes[1]
  BY <1>1, <1>3, FirstKept DEF ItemInv
<1>5. \A i \in 1 .. 3 : AsByte(item.color[i]) = bytes[i + 1]
  <2>1. SUFFICES ASSUME NEW i \in 1 .. 3 PROVE AsByte(item.color[i]) = bytes[i + 1]
    OBVIOUS
  <2>2. bytes[i + 1] \in Byte /\ item.color[i] = bytes[i + 1] % 256
    BY <1>1, <1>3, i + 1 \in 1 .. 4 DEF ItemInv
  <2>3. QED
    BY <2>2, ByteKept
<1>6. out' = <<bytes[1], bytes[2], bytes[3], bytes[4]>>
  BY <1>2, <1>4, <1>5, 1 + 1 = 2, 2 + 1 = 3, 3 + 1 = 4
<1>7. out' \in Seq(Byte) /\ Len(out') = 4 /\ \A i \in 1 .. 4 : out'[i] = bytes[i]
  BY <1>3, <1>6
<1>8. SlotTypeOK'
  BY <1>1, <1>7 DEF SlotTypeOK
<1>9. ItemInv' /\ NextInv'
  BY <1>1 DEF ItemInv, NextInv, Decoding
<1>10. KnownKept'
  <2>1. \A e \in known : ~(e < next')
    BY <1>1 DEF SlotTypeOK
  <2>2. Rank(next' - 1) = 0
    BY <1>1, RankStep DEF SlotTypeOK
  <2>3. Len(out') = 4 + 2 * Rank(next' - 1)
    BY <1>7, <2>2
  <2>4. QED
    BY <1>1, <1>7, <2>1, <2>3 DEF KnownKept, Rank
<1>11. QED
  BY <1>8, <1>9, <1>10 DEF SlotInv

\* One more enchantment has given its two bytes, if the server knows it.
LEMMA DecodeEnchantStep ==
  ASSUME SlotInv, DecodeEnchant
  PROVE  SlotInv'
<1>1. /\ pc = "decoding" /\ next <= Enchants /\ next' = next + 1
      /\ UNCHANGED <<bytes, known, pc, item>>
      /\ SlotTypeOK /\ ItemInv /\ KnownKept /\ Enchants \in Nat
  BY TranscoderAssumption DEF SlotInv, DecodeEnchant, TranscoderAssumption
<1>2. /\ next \in 1 .. Enchants /\ next' \in 1 .. Enchants + 1 /\ next - 1 \in Nat
      /\ (next - 1) + 1 = next /\ next' - 1 = next
  BY <1>1 DEF SlotTypeOK
<1> DEFINE h == bytes[3 + 2 * next]
           l == bytes[4 + 2 * next]
<1>3. h \in Byte /\ l \in Byte
  BY <1>1, <1>2, SlotBytes DEF SlotTypeOK, ItemInv, Decoding
<1>4. /\ Rank(next - 1) \in Nat
      /\ next \in known => Rank(next) = Rank(next - 1) + 1
      /\ next \notin known => Rank(next) = Rank(next - 1)
  BY <1>1, <1>2, RankStep DEF SlotTypeOK
<1>5. /\ Len(out) = 4 + 2 * Rank(next - 1)
      /\ \A i \in 1 .. 4 : out[i] = bytes[i]
      /\ \A e \in known : e < next =>
           /\ out[3 + 2 * Rank(e)] = bytes[3 + 2 * e]
           /\ out[4 + 2 * Rank(e)] = bytes[4 + 2 * e]
  BY <1>1 DEF KnownKept, Decoding
<1>6. next \in known => out' = out \o <<h, l>>
  <2>1. SUFFICES ASSUME next \in known PROVE out' = out \o <<h, l>>
    OBVIOUS
  <2>2. item.level[next] = Level(h, l)
    BY <1>1, <2>1 DEF ItemInv, Decoding
  <2>3. out' = out \o <<AsByte((item.level[next] \div 256) % 256), AsByte(item.level[next] % 256)>>
    BY <2>1 DEF DecodeEnchant
  <2> HIDE DEF h, l
  <2>4. AsByte((Level(h, l) \div 256) % 256) = h /\ AsByte(Level(h, l) % 256) = l
    BY <1>3, LevelKept
  <2>5. QED
    BY <2>2, <2>3, <2>4
<1>7. next \notin known => out' = out
  BY DEF DecodeEnchant
<1>8. h = bytes[3 + 2 * next] /\ l = bytes[4 + 2 * next]
  OBVIOUS
<1> HIDE DEF h, l
<1>9. /\ out' \in Seq(Byte) /\ Len(out') = 4 + 2 * Rank(next)
      /\ \A i \in 1 .. Len(out) : out'[i] = out[i]
      /\ next \in known => out'[3 + 2 * Rank(next)] = h /\ out'[4 + 2 * Rank(next)] = l
  <2>1. out \in Seq(Byte)
    BY <1>1 DEF SlotTypeOK
  <2>2. CASE next \in known
    <3>1. /\ out' \in Seq(Byte) /\ Len(out') = Len(out) + 2
          /\ \A i \in 1 .. Len(out) : out'[i] = out[i]
          /\ out'[Len(out) + 1] = h /\ out'[Len(out) + 2] = l
      BY <1>3, <1>6, <2>1, <2>2, AppendTwo
    <3>2. /\ Len(out) + 2 = 4 + 2 * Rank(next)
          /\ Len(out) + 1 = 3 + 2 * Rank(next) /\ Len(out) + 2 = 4 + 2 * Rank(next)
      BY <1>4, <1>5, <2>2
    <3>3. QED
      BY <3>1, <3>2
  <2>3. CASE next \notin known
    BY <1>4, <1>5, <1>7, <2>1, <2>3
  <2>4. QED
    BY <2>2, <2>3
<1>10. SlotTypeOK'
  BY <1>1, <1>2, <1>9 DEF SlotTypeOK
<1>11. ItemInv' /\ NextInv'
  BY <1>1 DEF ItemInv, NextInv, Decoding
<1>12. KnownKept'
  <2>1. \A i \in 1 .. 4 : out'[i] = bytes[i]
    <3>1. \A i \in 1 .. 4 : i \in 1 .. Len(out)
      BY <1>4, <1>5
    <3>2. QED
      BY <1>5, <1>9, <3>1
  <2>2. ASSUME NEW e \in known, e < next'
        PROVE  /\ out'[3 + 2 * Rank(e)] = bytes[3 + 2 * e]
               /\ out'[4 + 2 * Rank(e)] = bytes[4 + 2 * e]
    <3>1. CASE e = next
      BY <1>8, <1>9, <3>1
    <3>2. CASE e # next
      <4>1. e \in Nat /\ e < next /\ e <= next - 1
        BY <1>1, <1>2, <2>2, <3>2 DEF SlotTypeOK
      <4>2. Rank(e) <= Rank(next - 1) /\ Rank(e) >= 1 /\ Rank(e) \in Nat
        BY <1>1, <1>2, <4>1, RankMonotone, RankStep DEF SlotTypeOK
      <4>3. 3 + 2 * Rank(e) \in 1 .. Len(out) /\ 4 + 2 * Rank(e) \in 1 .. Len(out)
        BY <1>4, <1>5, <4>2
      <4>4. QED
        BY <1>5, <1>9, <4>1, <4>3
    <3>3. QED
      BY <3>1, <3>2
  <2>3. QED
    BY <1>1, <1>2, <1>9, <2>1, <2>2 DEF KnownKept, Rank
<1>13. QED
  BY <1>10, <1>11, <1>12 DEF SlotInv
-----------------------------------------------------------------------------
\* Every step preserves the invariant, so it holds in every state.
LEMMA TranscoderInvariant == SlotSpec => []SlotInv
<1>1. ASSUME SlotInv, [SlotNext]_slotVars PROVE SlotInv'
  <2>1. CASE UNCHANGED slotVars
    BY <1>1, <2>1 DEF slotVars, SlotInv, SlotTypeOK, ItemInv, NextInv, KnownKept, Decoding, Rank
  <2>2. CASE Encode
    BY <1>1, <2>2, EncodeStep
  <2>3. CASE EncodeEnchant
    BY <1>1, <2>3, EncodeEnchantStep
  <2>4. CASE Encoded \/ Decoded
    BY <1>1, <2>4, ReturnStep
  <2>5. CASE Decode
    BY <1>1, <2>5, DecodeStep
  <2>6. CASE DecodeEnchant
    BY <1>1, <2>6, DecodeEnchantStep
  <2>7. QED
    BY <1>1, <2>1, <2>2, <2>3, <2>4, <2>5, <2>6 DEF SlotNext
<1>2. QED
  BY <1>1, TranscoderInit, PTL DEF SlotSpec

\* The levels, the amount and the colour of the item are in the range the server
\* keeps them in, and what is decoded are bytes, with every int cut down to one.
THEOREM TranscoderTyping == SlotSpec => []SlotTypeOK
<1>1. SlotInv => SlotTypeOK
  BY DEF SlotInv
<1>2. QED
  BY <1>1, TranscoderInvariant, PTL

\* applyEnchant passes over the enchantments a server does not know, in encoding
\* and in decoding: the bytes of the others survive, and move up.
THEOREM KnownSurvive == SlotSpec => []KnownKept
<1>1. SlotInv => KnownKept
  BY DEF SlotInv
<1>2. QED
  BY <1>1, TranscoderInvariant, PTL

\* decodeItemStack undoes encodeItemStack on a server that knows every enchantment.
THEOREM SlotsRoundTrip == SlotSpec => []RoundTrip
<1>1. SlotInv => RoundTrip
  <2>1. SUFFICES ASSUME SlotInv, pc = "decoded", known = 1 .. Enchants PROVE out = bytes
    BY DEF RoundTrip
  <2>2. Enchants \in Nat /\ next = Enchants + 1 /\ next - 1 = Enchants
    BY <2>1, TranscoderAssumption DEF SlotInv, NextInv, TranscoderAssumption
  <2>3. \A e \in 0 .. Enchants : Rank(e) = e
    <3>1. SUFFICES ASSUME NEW e \in 0 .. Enchants PROVE Rank(e) = e
      OBVIOUS
    <3>2. known \cap 1 .. e = 1 .. e
      BY <2>1, <2>2
    <3>3. Cardinality(1 .. e) = e
      BY <2>2, FS_Interval
    <3>4. QED
      BY <3>2, <3>3 DEF Rank
  <2>4. /\ out \in Seq(Byte) /\ bytes \in Seq(Byte)
        /\ Len(bytes) = 4 + 2 * Enchants /\ Len(out) = 4 + 2 * Enchants
    BY <2>1, <2>2, <2>3 DEF SlotInv, SlotTypeOK, ItemInv, KnownKept, Decoding, BYTES_PER_SLOT
  <2>5. ASSUME NEW i \in 1 .. 4 + 2 * Enchants PROVE out[i] = bytes[i]
    <3>1. CASE i <= 4
      BY <2>1, <2>5, <3>1, <2>2 DEF SlotInv, KnownKept, Decoding
    <3>2. CASE i > 4
      <4>1. PICK e \in 1 .. Enchants : i = 3 + 2 * e \/ i = 4 + 2 * e
        <5>1. (i - 3) \div 2 \in 1 .. Enchants
          BY <2>2, <3>2
        <5>2. i = 3 + 2 * ((i - 3) \div 2) \/ i = 4 + 2 * ((i - 3) \div 2)
          BY <2>2, <3>2
        <5>3. QED
          BY <5>1, <5>2
      <4>2. /\ out[3 + 2 * Rank(e)] = bytes[3 + 2 * e]
            /\ out[4 + 2 * Rank(e)] = bytes[4 + 2 * e]
        BY <2>1, <2>2 DEF SlotInv, KnownKept, Decoding
      <4>3. Rank(e) = e
        BY <2>2, <2>3
      <4>4. QED
        BY <4>1, <4>2, <4>3
    <3>3. QED
      BY <2>2, <3>1, <3>2
  <2>6. QED
    BY <2>2, <2>4, <2>5
<1>2. QED
  BY <1>1, TranscoderInvariant, PTL
=============================================================================
