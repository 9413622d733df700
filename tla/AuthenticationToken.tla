------------------------ MODULE AuthenticationToken ------------------------
(***************************************************************************)
(* An AuthenticationToken (minecraft/authentication.py), which one         *)
(* application thread authenticates, refreshes and invalidates, and from   *)
(* which the networking thread of a connection joins.  The authentication  *)
(* and session servers are external: they issue and revoke pairs of access *)
(* and client tokens, and know the profile of each user.                   *)
(***************************************************************************)
EXTENDS Naturals, Sequences

CONSTANTS
  Users,      \* accounts; each has one profile, named like the user
  None,       \* the value of an attribute that is not set
  MaxIssued   \* bound: access tokens the server issues

ASSUME TokenAssumption ==
  None \notin Users /\ None \notin Nat /\ MaxIssued \in Nat

VARIABLES
  \* the attributes of the object; id and name are those of its profile
  token,
  \* the application thread: the call, the answer of the server, the number of
  \* attributes assigned from it, how the last call ended
  call, answer, done, result,
  \* the networking thread: where it is in join, what it has read, how it ended
  join, read, joined,
  \* the server: what it issued, the access tokens that count
  issued, live,
  \* for the properties: authenticate or refresh has succeeded, and no call
  \* that may change anything was made since; it was so all through the join
  settled, calm

app    == <<call, answer, done, result>>
net    == <<join, read, joined>>
server == <<issued, live>>
vars   == <<token, app, net, server, settled, calm>>

Attributes == {"username", "access", "client", "id", "name"}
Calls == {"none", "authenticate", "refresh", "validate", "invalidate", "sign_out"}
Value == Users \cup Nat \cup {None}

\* Mutant of Assigned: refresh does not keep the access token.
AssignedForgets(c) ==
  CASE c = "authenticate" -> <<"username", "access", "client", "id", "name">>
    [] c = "refresh"      -> <<"client", "id", "name">>
    [] OTHER              -> <<>>

\* The attributes a call assigns, and those join reads, in order.
Assigned(c) ==
  CASE c = "authenticate" -> <<"username", "access", "client", "id", "name">>
    [] c = "refresh"      -> <<"access", "client", "id", "name">>
    [] OTHER              -> <<>>
Reads == <<"access", "id", "name">>

TypeOK ==
  /\ token \in [Attributes -> Value]
  /\ call \in Calls /\ answer \in [Attributes -> Value]
  /\ done \in 0 .. 5 /\ result \in {"none", "True", "raised"}
  /\ join \in 0 .. 4 /\ read \in [Attributes -> Value]
  /\ joined \in {"none", "True", "refused", "raised"}
  /\ issued \in Seq([user : Users, client : Nat]) /\ live \subseteq DOMAIN issued
  /\ settled \in BOOLEAN /\ calm \in BOOLEAN

Unset == [a \in Attributes |-> None]

\* A new object, or one made from the tokens of an earlier session, which may
\* have been revoked since.
Init ==
  /\ \/ token = Unset /\ issued = <<>> /\ live = {}
     \/ \E u \in Users : \E kept \in {u, None} :
          /\ token = [Unset EXCEPT !["username"] = kept, !["access"] = 1, !["client"] = 1]
          /\ issued = <<[user |-> u, client |-> 1]>> /\ live \in SUBSET {1}
  /\ call = "none" /\ answer = Unset /\ done = 0 /\ result = "none"
  /\ join = 0 /\ read = Unset /\ joined = "none"
  /\ settled = FALSE /\ calm = FALSE

\* authenticated
Authenticated == \A a \in Attributes : token[a] # None

\* The server knows the pair the token holds; whose it is.
Known == token["access"] \in live /\ issued[token["access"]].client = token["client"]
Owner == issued[token["access"]].user
-----------------------------------------------------------------------------
(* The application thread, one call at a time: the server acts on the       *)
(* request, and then the thread on the answer.                              *)

Ask(c, said) ==
  /\ call = "none" /\ call' = c /\ answer' = said /\ done' = 0
  /\ settled' = (settled /\ c = "validate") /\ calm' = (calm /\ c = "validate")
  /\ UNCHANGED <<token, result, net>>

\* A new access token of u, with the client token c.  The answer to a user who
\* has no profile lacks it.
Issue(call_, u, c, revoked) ==
  /\ Len(issued) < MaxIssued
  /\ issued' = Append(issued, [user |-> u, client |-> c])
  /\ live' = (live \ revoked) \cup {Len(issued) + 1}
  /\ \E profile \in {u, None} :
       Ask(call_, [username |-> u, access |-> Len(issued) + 1, client |-> c,
                   id |-> profile, name |-> profile])

\* authenticate(username, password).
Authenticate(u) == Issue("authenticate", u, Len(issued) + 1, {})

\* refresh(): the server exchanges the access token.
Refresh == Known /\ Issue("refresh", Owner, token["client"], {token["access"]})

\* validate(), which succeeds for an access token that counts.
Validate == token["access"] \in live /\ Ask("validate", Unset) /\ UNCHANGED server

\* Mutant of Invalidate: the object forgets the access token too.
InvalidateForgets ==
  /\ call = "none" /\ call' = "invalidate" /\ answer' = Unset /\ done' = 0
  /\ settled' = FALSE /\ calm' = FALSE
  /\ token' = [token EXCEPT !["access"] = None]
  /\ live' = IF Known THEN live \ {token["access"]} ELSE live
  /\ UNCHANGED <<result, net, issued>>

\* invalidate(): the pair, if the server knows it, counts no more.
Invalidate ==
  /\ Ask("invalidate", Unset) /\ UNCHANGED issued
  /\ live' = IF Known THEN live \ {token["access"]} ELSE live

\* sign_out(username, password).
SignOut(u) ==
  /\ Ask("sign_out", Unset) /\ UNCHANGED issued
  /\ live' = {n \in live : issued[n].user # u}

\* The server refuses the request or the token lacks what it takes: a call
\* raises and nothing has happened.
Refused ==
  /\ call = "none" /\ result' = "raised"
  /\ UNCHANGED <<token, call, answer, done, net, server, settled, calm>>

\* The answer is lost, or has a status or a text that the call takes for an
\* error: no attribute has been assigned.
Lost ==
  /\ call # "none" /\ done = 0
  /\ call' = "none" /\ result' = "raised"
  /\ UNCHANGED <<token, answer, done, net, server, settled, calm>>

\* The next attribute; a part the answer lacks raises KeyError and leaves the
\* attributes assigned before it.
Assign ==
  /\ done < Len(Assigned(call))
  /\ LET a == Assigned(call)[done + 1] IN
       IF answer[a] # None
         THEN /\ token' = [token EXCEPT ![a] = answer[a]] /\ done' = done + 1
              /\ UNCHANGED <<call, result>>
         ELSE /\ call' = "none" /\ done' = 0 /\ result' = "raised"
              /\ UNCHANGED token
  /\ UNCHANGED <<answer, net, server, settled, calm>>

\* Mutant of Return: validate returns what it compares with None.
ReturnCompared ==
  /\ call # "none" /\ done = Len(Assigned(call))
  /\ call' = "none" /\ done' = 0
  /\ result' = IF call = "validate" THEN "None" ELSE "True"
  /\ settled' = (settled \/ call \in {"authenticate", "refresh"})
  /\ UNCHANGED <<token, answer, net, server, calm>>

Return ==
  /\ call # "none" /\ done = Len(Assigned(call))
  /\ call' = "none" /\ done' = 0 /\ result' = "True"
  /\ settled' = (settled \/ call \in {"authenticate", "refresh"})
  /\ UNCHANGED <<token, answer, net, server, calm>>

Application ==
  \/ \E u \in Users : Authenticate(u) \/ SignOut(u)
  \/ Refresh \/ Validate \/ Invalidate \/ Refused \/ Lost \/ Assign \/ Return
-----------------------------------------------------------------------------
(* join(server_id), on the networking thread *)

JoinCheck ==
  /\ join = 0
  /\ IF Authenticated THEN join' = 1 /\ joined' = "none" /\ calm' = settled
                      ELSE join' = 0 /\ joined' = "raised" /\ UNCHANGED calm
  /\ UNCHANGED <<token, app, read, server, settled>>

\* The access token, then the parts of the profile.
JoinRead ==
  /\ join \in 1 .. 3
  /\ read' = [read EXCEPT ![Reads[join]] = token[Reads[join]]] /\ join' = join + 1
  /\ UNCHANGED <<token, app, joined, server, settled, calm>>

\* The session server lets in the owner of an access token that counts.
Admitted ==
  /\ read["access"] \in live
  /\ read["id"] = issued[read["access"]].user /\ read["name"] = read["id"]

JoinPost ==
  /\ join = 4 /\ join' = 0
  /\ joined' \in {IF Admitted THEN "True" ELSE "refused", "raised"}
  /\ UNCHANGED <<token, app, read, server, settled, calm>>

Networking == JoinCheck \/ JoinRead \/ JoinPost
-----------------------------------------------------------------------------
Next == Application \/ Networking

Spec == Init /\ [][Next]_vars
-----------------------------------------------------------------------------
(* Safety *)

\* A join that found the token authenticated sends an access token and a whole
\* profile, whatever the application thread does to the token meanwhile.
JoinWhole == join = 4 => \A i \in DOMAIN Reads : read[Reads[i]] # None

\* When authenticate or refresh has returned True, and until the next call, the
\* token holds a pair the server knows, with the profile, and the name if any, of
\* the account it is for: however many earlier calls were cut short.
KeepsPromise == settled =>
  /\ Known /\ token["id"] = Owner /\ token["name"] = Owner
  /\ token["username"] \in {Owner, None}

\* A join of such a token that no other call runs into is never refused.
JoinAdmitted == calm => joined # "refused"
-----------------------------------------------------------------------------
(* The inductive invariant behind them *)

Granting == call \in {"authenticate", "refresh"}

\* The answer under way belongs to the access token issued last, which counts.
AnswerInv == Granting =>
  /\ answer["access"] \in live /\ answer["username"] \in Users
  /\ issued[answer["access"]] = [user |-> answer["username"], client |-> answer["client"]]
  /\ {answer["id"], answer["name"]} \subseteq {answer["username"], None}

\* The attributes assigned so far are those of the answer.
AssignInv ==
  /\ done <= Len(Assigned(call))
  /\ \A i \in 1 .. done : /\ token[Assigned(call)[i]] = answer[Assigned(call)[i]]
                         /\ answer[Assigned(call)[i]] # None
  /\ call = "refresh" => token["username"] \in {answer["username"], None}

\* The name is that of the owner of the access token, except between the
\* assignments of the two.
OwnerInv == token["access"] # None /\ ~(call = "authenticate" /\ done = 1) =>
  token["access"] \in DOMAIN issued /\ token["username"] \in {Owner, None}

\* Between calls, a settled token is whole.
SettledInv == settled =>
  /\ call \in {"none", "validate"}
  /\ Known /\ token["id"] = Owner /\ token["name"] = Owner

\* A join starts from an authenticated token, which stays so, and what a calm
\* one has read the token still has.
JoinInv ==
  /\ join > 0 => Authenticated
  /\ \A i \in 1 .. 3 : i < join => read[Reads[i]] # None
  /\ calm => settled /\ joined # "refused"
  /\ calm => \A i \in 1 .. 3 : i < join => read[Reads[i]] = token[Reads[i]]

IInv == TypeOK /\ AnswerInv /\ AssignInv /\ OwnerInv /\ SettledInv /\ JoinInv
=============================================================================
