--------------------------- MODULE ProxyCommands ---------------------------
(***************************************************************************)
(* The commands /j, /k and /l of MyPlugin, with which a player hands an    *)
(* HTTP request to the proxy piece by piece, and playerLoggedOff.  They    *)
(* run on the main thread of the Minecraft server; each ProxyServer thread *)
(* polls the queue of one session (module ProxyServer says what it does    *)
(* with a request).  Plugin says who is logged in.                         *)
(***************************************************************************)
EXTENDS Integers, Sequences, PlayerWorlds

CONSTANTS
  MaxChunks,    \* bound: /j commands
  MaxRequests   \* bound: /l commands that queue a request

ASSUME CommandsAssumption == MaxChunks \in Nat /\ MaxRequests \in Nat

VARIABLES
  playerBytes,      \* the maps of MyPlugin, by player: chunks collected,
  playerAddresses,  \* (its keys)
  playerIn,         \* the queue of the player's thread,
  playerThreads,    \* the thread
  queues,           \* every queue made, with the requests in it
  threads,          \* ... and the thread that polls it: for whose session
  taken,            \* ... and the requests polled
  chunks,           \* number of chunks typed, by anyone
  typed             \* the chunks each player has typed in the current session

proxies == <<playerBytes, playerAddresses, playerIn, playerThreads, queues, threads,
             taken, chunks, typed>>

Empty == [p \in {} |-> 0]
Sender == [player : Players, session : Nat]

ProxiesTypeOK ==
  /\ DOMAIN playerBytes \subseteq Players
  /\ \A p \in DOMAIN playerBytes : playerBytes[p] \in Seq(Nat)
  /\ playerAddresses \subseteq Players
  /\ DOMAIN playerIn \subseteq Players /\ DOMAIN playerThreads \subseteq Players
  /\ \A p \in DOMAIN playerIn : playerIn[p] \in DOMAIN queues
  /\ \A p \in DOMAIN playerThreads : playerThreads[p] \in DOMAIN threads
  /\ queues \in Seq(Seq(Seq(Nat))) /\ taken \in Seq(Seq(Seq(Nat)))
  /\ threads \in Seq(Sender)
  /\ Len(taken) = Len(queues) /\ Len(threads) = Len(queues)
  /\ chunks \in Nat /\ typed \in [Players -> Seq(Nat)]

\* onEnable.
Forget ==
  /\ playerBytes' = Empty /\ playerAddresses' = {} /\ playerIn' = Empty
  /\ playerThreads' = Empty /\ queues' = <<>> /\ threads' = <<>> /\ taken' = <<>>

ProxiesInit ==
  /\ playerBytes = Empty /\ playerAddresses = {} /\ playerIn = Empty
  /\ playerThreads = Empty /\ queues = <<>> /\ threads = <<>> /\ taken = <<>>
  /\ chunks = 0 /\ typed = [p \in Players |-> <<>>]
-----------------------------------------------------------------------------
\* /j chunk: appended to what has been collected.
J(p) ==
  /\ chunks < MaxChunks /\ chunks' = chunks + 1
  /\ playerBytes' = Put(playerBytes, p,
       IF p \in DOMAIN playerBytes THEN Append(playerBytes[p], chunks') ELSE <<chunks'>>)
  /\ typed' = [typed EXCEPT ![p] = Append(@, chunks')]
  /\ UNCHANGED <<playerAddresses, playerIn, playerThreads, queues, threads, taken>>

\* /k address.
K(p) ==
  /\ playerAddresses' = playerAddresses \cup {p}
  /\ UNCHANGED <<playerBytes, playerIn, playerThreads, queues, threads, taken,
                 chunks, typed>>

\* The first /l of a session makes its queue and starts its thread.
Start(p) ==
  IF p \in DOMAIN playerIn
    THEN UNCHANGED <<playerIn, playerThreads, threads, taken>>
    ELSE /\ playerIn' = Put(playerIn, p, Len(queues) + 1)
         /\ threads' = Append(threads, [player |-> p, session |-> session[p]])
         /\ taken' = Append(taken, <<>>)
         /\ playerThreads' = Put(playerThreads, p, Len(queues) + 1)

Queues(p) == IF p \in DOMAIN playerIn THEN queues ELSE Append(queues, <<>>)

\* Mutant of L: a request is added, as a text, when there is none; -1 is "null".
LAddsNull(p) ==
  LET request == IF p \in DOMAIN playerBytes THEN playerBytes[p] ELSE <<-1>>
  IN  /\ Start(p)
      /\ queues' = [Queues(p) EXCEPT ![playerIn'[p]] = Append(@, request)]
      /\ playerBytes' = IF p \in DOMAIN playerBytes THEN Put(playerBytes, p, <<>>)
                                                    ELSE playerBytes
      /\ UNCHANGED <<playerAddresses, chunks, typed>>

\* Mutant of L: the chunks are not cleared.
LKeepsBytes(p) ==
  /\ Start(p)
  /\ IF p \notin DOMAIN playerBytes
       THEN queues' = Queues(p)
       ELSE queues' = [Queues(p) EXCEPT ![playerIn'[p]] = Append(@, playerBytes[p])]
  /\ UNCHANGED <<playerBytes, playerAddresses, chunks, typed>>

\* /l: the chunks collected become a request, whether or not there was a /k.
\* Without any /j, null is added to the queue, which raises.
L(p) ==
  /\ Start(p)
  /\ IF p \notin DOMAIN playerBytes
       THEN queues' = Queues(p) /\ UNCHANGED playerBytes
       ELSE /\ queues' = [Queues(p) EXCEPT ![playerIn'[p]] = Append(@, playerBytes[p])]
            /\ playerBytes' = Put(playerBytes, p, <<>>)
  /\ UNCHANGED <<playerAddresses, chunks, typed>>

\* Mutant of LoggedOff: the queue stays.
LoggedOffKeepsQueue(p) ==
  /\ playerBytes' = Without(playerBytes, p)
  /\ playerAddresses' = playerAddresses \ {p}
  /\ playerThreads' = Without(playerThreads, p)
  /\ UNCHANGED <<playerIn, queues, threads, taken, chunks, typed>>

\* playerLoggedOff.  The thread is interrupted, which it ignores; a player who
\* has none makes the last statements raise.
LoggedOff(p) ==
  /\ playerBytes' = Without(playerBytes, p)
  /\ playerAddresses' = playerAddresses \ {p}
  /\ playerIn' = Without(playerIn, p)
  /\ playerThreads' = Without(playerThreads, p)
  /\ UNCHANGED <<queues, threads, taken, chunks, typed>>

\* A ProxyServer thread polls its queue, whoever is logged in.
Take(i) ==
  /\ queues[i] # <<>>
  /\ queues' = [queues EXCEPT ![i] = Tail(@)]
  /\ taken' = [taken EXCEPT ![i] = Append(@, Head(queues[i]))]
  /\ UNCHANGED <<playerBytes, playerAddresses, playerIn, playerThreads, threads,
                 chunks, typed>>
=============================================================================
