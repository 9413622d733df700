----------------------------- MODULE ChatCodec -----------------------------
(***************************************************************************)
(* The text of a request on its way through the chat: send_message         *)
(* (start.py) escapes it, cuts it and types the pieces as commands, the     *)
(* server splits each command into words, and the plugin (MyPlugin.java)   *)
(* joins the words, unescapes each piece and puts the pieces together.     *)
(***************************************************************************)
EXTENDS Integers, Sequences, SequencesExt

CONSTANTS
  PieceSize,   \* characters of text in a command; the code has 90
  Inputs,      \* what the socket of a local program yields
  None         \* nothing sent yet; no entry in the map

VARIABLES
  sent,        \* the text send_message was called with
  commands,    \* chat messages on their way to the plugin, in order
  bytes,       \* the player's entry in playerBytes
  requests     \* what /l has put into the queue of the player

vars == <<sent, commands, bytes, requests>>

\* The characters the two sides treat differently, and any other.
Blank == " "
Slash == "\\"
Newline == "newline"
Return == "return"
Chars == {Blank, Slash, Newline, Return, "n", "r", "x"}

ASSUME CodecAssumption ==
  PieceSize \in Nat \ {0} /\ Inputs \subseteq Seq(Chars) /\ None \notin Seq(Chars)

TypeOK ==
  /\ sent \in Seq(Chars) \cup {None} /\ requests \in Seq(Seq(Chars))
  /\ bytes \in Seq(Chars) \cup {None}
  /\ commands \in Seq([name : {"j", "k", "l"}, text : Seq(Chars)])

\* A player who has made a request before has an empty entry.
Init == sent = None /\ commands = <<>> /\ bytes \in {None, <<>>} /\ requests = <<>>
-----------------------------------------------------------------------------
(* The client *)

\* data.replace(c, by) for a single character
Replaced(data, c, by) == FlattenSeq([i \in 1 .. Len(data) |-> IF data[i] = c THEN by ELSE <<data[i]>>])

\* Mutant of Escaped: newlines first, so that their blanks are escaped again.
EscapedNewlinesFirst(data) ==
  LET lines == Replaced(Replaced(data, Newline, <<Slash, Blank, "n">>),
                        Return, <<Slash, Blank, "r">>)
  IN Replaced(lines, Blank, <<Slash, Blank>>)

\* Mutant of Escaped: carriage returns are left as they are.
EscapedWithoutReturns(data) ==
  Replaced(Replaced(data, Blank, <<Slash, Blank>>), Newline, <<Slash, Blank, "n">>)

Escaped(data) ==
  LET blanks == Replaced(data, Blank, <<Slash, Blank>>)
      lines  == Replaced(blanks, Newline, <<Slash, Blank, "n">>)
  IN Replaced(lines, Return, <<Slash, Blank, "r">>)

\* The whole pieces, and the remainder if there is one.
Pieces(data) ==
  LET num == Len(data) \div PieceSize
      whole == [x \in 1 .. num |-> SubSeq(data, PieceSize * (x - 1) + 1, PieceSize * x)]
  IN IF Len(data) % PieceSize > 0
       THEN Append(whole, SubSeq(data, PieceSize * num + 1, Len(data)))
       ELSE whole

\* send_message(data, addr, connection): it writes the commands, which reach the
\* plugin in this order.
SendMessage(data) ==
  LET pieces == Pieces(Escaped(data)) IN
    /\ sent = None /\ sent' = data
    /\ commands' = <<[name |-> "k", text |-> <<>>]>>
                   \o [x \in 1 .. Len(pieces) |-> [name |-> "j", text |-> pieces[x]]]
                   \o <<[name |-> "l", text |-> <<>>]>>
    /\ UNCHANGED <<bytes, requests>>
-----------------------------------------------------------------------------
(* The server *)

\* The words of a command, with one blank between each two: the server takes a run
\* of blanks for one, and those at the ends for none.
Joined(text) ==
  LET word(i) == i \in 1 .. Len(text) /\ text[i] # Blank
      stays(i) == word(i) \/ (word(i + 1) /\ \E k \in 1 .. i : word(k))
  IN FlattenSeq([i \in 1 .. Len(text) |-> IF stays(i) THEN <<text[i]>> ELSE <<>>])

\* value.replace(pattern, c): no occurrence of a pattern that begins with its only
\* backslash overlaps another.
Substituted(value, pattern, c) ==
  LET starts(i) == /\ i \in 1 .. Len(value) - Len(pattern) + 1
                   /\ SubSeq(value, i, i + Len(pattern) - 1) = pattern
      inside(i) == \E k \in 1 .. Len(pattern) - 1 : starts(i - k)
  IN FlattenSeq([i \in 1 .. Len(value) |->
       IF starts(i) THEN <<c>> ELSE IF inside(i) THEN <<>> ELSE <<value[i]>>])

Unescaped(value) ==
  LET lines == Substituted(value, <<Slash, Blank, "n">>, Newline)
      returns == Substituted(lines, <<Slash, Blank, "r">>, Return)
  IN Substituted(returns, <<Slash, Blank>>, Blank)

\* Mutant of J: the entry is taken to be there.
JAlwaysReplaces(text) ==
  LET value == Unescaped(Joined(text)) IN
    /\ bytes' = IF Joined(text) = <<>> THEN bytes
                ELSE IF bytes = None THEN <<"null">> \o value ELSE bytes \o value
    /\ UNCHANGED requests

\* /j: without words it raises (substring to -1), and the piece is lost.
J(text) ==
  LET value == Unescaped(Joined(text)) IN
    /\ bytes' = IF Joined(text) = <<>> THEN bytes
                ELSE IF bytes = None THEN value ELSE bytes \o value
    /\ UNCHANGED requests

\* /k: an address that nothing reads.
K == UNCHANGED <<bytes, requests>>

\* /l: without an entry it raises.
L == IF bytes = None
       THEN UNCHANGED <<bytes, requests>>
       ELSE requests' = Append(requests, bytes) /\ bytes' = <<>>

OnCommand ==
  /\ commands # <<>> /\ commands' = Tail(commands) /\ UNCHANGED sent
  /\ \/ Head(commands).name = "j" /\ J(Head(commands).text)
     \/ Head(commands).name = "k" /\ K
     \/ Head(commands).name = "l" /\ L
-----------------------------------------------------------------------------
Next == (\E data \in Inputs : SendMessage(data)) \/ OnCommand

Spec == Init /\ [][Next]_vars
-----------------------------------------------------------------------------
\* No piece has a blank at its end or its beginning, where the server drops it: no
\* cut falls into an escape or behind the blank of one, and the text does not end
\* with a blank.
CleanCuts(data) == \A x \in DOMAIN Pieces(Escaped(data)) :
  LET piece == Pieces(Escaped(data))[x] IN Blank \notin {piece[1], piece[Len(piece)]}

\* The escape of a blank before an n or an r is that of a newline or a return.
Unambiguous(data) == \A i \in 1 .. Len(data) - 1 :
  data[i] = Blank => data[i + 1] \notin {"n", "r"}

\* A request arrives as it was sent exactly if its blanks are clear of the cuts and
\* of the letters n and r: nothing else, no backslash, line end or number of pieces,
\* does any harm, and each of the two always does.
Intact == sent \notin {None, <<>>} /\ commands = <<>> =>
  (requests = <<sent>> <=> CleanCuts(sent) /\ Unambiguous(sent))

\* No command has a line end, for which the server would drop the connection, or is
\* longer than a chat message may be.
Typeable == \A i \in DOMAIN commands : LET text == commands[i].text IN
  Len(text) <= PieceSize /\ \A k \in DOMAIN text : text[k] \notin {Newline, Return}
=============================================================================
