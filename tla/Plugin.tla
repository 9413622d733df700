------------------------------- MODULE Plugin -------------------------------
(***************************************************************************)
(* The plugin as a whole: logins and logouts (PlayerListener), the         *)
(* commands (MyPlugin) and the threads that poll the requests.  A logout   *)
(* cut short by an exception in PlayerListener never reaches               *)
(* playerLoggedOff.                                                        *)
(***************************************************************************)
EXTENDS ProxyCommands, SequencesExt

VARIABLE torn   \* players with a logout cut short, not cleaned up since

vars == <<worlds, proxies, torn>>

Init == WorldsInit /\ ProxiesInit /\ torn = {}
TypeOK == WorldsTypeOK /\ ProxiesTypeOK /\ torn \subseteq Players

Requests(sets) == FoldSeq(LAMBDA q, m : Len(q) + m, 0, sets)

Login(p) ==
  /\ LoggedIn(p) /\ typed' = [typed EXCEPT ![p] = <<>>]
  /\ UNCHANGED <<playerBytes, playerAddresses, playerIn, playerThreads, queues,
                 threads, taken, chunks, torn>>

Logout(p) ==
  /\ LoggedOut(p)
  /\ IF LogoutFails(p) THEN torn' = torn \cup {p} /\ UNCHANGED proxies
                       ELSE torn' = torn \ {p} /\ LoggedOff(p)

Command(p) ==
  /\ p \in online
  /\ J(p) \/ K(p) \/ (Requests(queues) + Requests(taken) < MaxRequests /\ L(p))
  /\ UNCHANGED <<worlds, torn>>

Thread(i) == Take(i) /\ UNCHANGED <<worlds, torn>>

Crash == Restart /\ Forget /\ torn' = {} /\ UNCHANGED <<chunks, typed>>

Next ==
  \/ \E p \in Players : Login(p) \/ Logout(p) \/ Command(p)
  \/ \E p \in Players : (Operator(p) \/ Fun(p) \/ Nofun(p)) /\ UNCHANGED <<proxies, torn>>
  \/ \E i \in DOMAIN queues : Thread(i)
  \/ Crash

Spec == Init /\ [][Next]_vars
-----------------------------------------------------------------------------
(* Safety *)

\* The queue /l adds to is polled by a thread started for the same player, and,
\* unless a logout was cut short, for the same session: its replies go to the
\* player who is there.
ThreadOfSession == \A p \in DOMAIN playerIn :
  /\ p \in DOMAIN playerThreads /\ playerThreads[p] = playerIn[p]
  /\ threads[playerIn[p]].player = p
  /\ p \notin torn => p \in online /\ threads[playerIn[p]].session = session[p]

Sent(p) == IF p \in DOMAIN playerIn
             THEN FlattenSeq(taken[playerIn[p]] \o queues[playerIn[p]]) ELSE <<>>
Pending(p) == IF p \in DOMAIN playerBytes THEN playerBytes[p] ELSE <<>>

\* The requests of a session, one after the other, with what is collected, are
\* the chunks the player has typed in it: none is lost, repeated, reordered or
\* left from an earlier session, unless a logout was cut short.
ChunksKept == \A p \in online \ torn : Sent(p) \o Pending(p) = typed[p]
=============================================================================
