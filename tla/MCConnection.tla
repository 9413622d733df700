---------------------------- MODULE MCConnection ----------------------------
(***************************************************************************)
(* Connection on small instances, with what is checked of one connection   *)
(* and of two.                                                             *)
(***************************************************************************)
EXTENDS ConnectionInvariants

\* The server has closed, or the thread has ended: after the end of the stream,
\* a join() that raised, or a chat that cannot be encoded.
Down(c) == stage[c] = "closed" \/ netpc[c] = "dead"

\* A chat queued is heard by the server, however much else the server sends,
\* unless the connection is lost.
ChatHeard == \A c \in Conns : \A k \in (1 .. MaxChats) \ Unencodable :
  written >= k ~> (\E i \in DOMAIN heard[c] : heard[c][i] = k) \/ Down(c)

\* A keep alive is answered, however much else the server sends, unless the
\* connection is lost.
KeepAliveAnswered == \A c \in Conns : \A k \in 1 .. MaxPushes :
  alive[c] >= k ~> Len(echoed[c]) >= k \/ Down(c)

\* connect() leads to the play state, status() to a thread that has stopped,
\* unless the connection is lost.
CallCompletes == \A c \in Conns :
  Returned(c) ~> Down(c) \/ (IF mode[c] = "connect" THEN reactor[c] = "playing"
                                                       ELSE netpc[c] = "stopped")
-----------------------------------------------------------------------------
(* What the repository says of a connection and a second one breaks *)

\* connection.py:24-26, 47, 61: a Connection is the connection to the server at
\* the address it was made with, and its write_packet writes to that server.
ReachesItsServer == \A c \in Conns : \A i \in DOMAIN c2s[c] : c2s[c][i].via = peer[c]
=============================================================================
