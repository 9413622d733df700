---------------------------- MODULE TokenProofs ----------------------------
(***************************************************************************)
(* Theorems about AuthenticationToken, for every set of accounts and every *)
(* number of tokens issued.                                                *)
(***************************************************************************)
EXTENDS AuthenticationToken, SequenceTheorems, TLAPS

\* The attributes a call assigns, counted.
LEMMA AssignedLength ==
  /\ Len(Assigned("authenticate")) = 5 /\ Len(Assigned("refresh")) = 4
  /\ \A c \in Calls : c \notin {"authenticate", "refresh"} => Len(Assigned(c)) = 0
BY DEF Assigned, Calls

\* ... are attributes.
LEMMA AssignedAttributes ==
  ASSUME NEW c \in Calls, NEW i \in 1 .. Len(Assigned(c))
  PROVE  Assigned(c)[i] \in Attributes
<1>1. CASE c = "authenticate"
  BY <1>1 DEF Assigned, Attributes
<1>2. CASE c = "refresh"
  BY <1>2 DEF Assigned, Attributes
<1>3. CASE c \notin {"authenticate", "refresh"}
  BY <1>3, AssignedLength
<1>4. QED
  BY <1>1, <1>2, <1>3

LEMMA ReadsAttributes ==
  ASSUME NEW i \in 1 .. 3
  PROVE  Reads[i] \in {"access", "id", "name"}
BY DEF Reads

\* An object starts without a call, a join or a promise.
LEMMA TokenInit == Init => IInv
<1> SUFFICES ASSUME Init PROVE IInv
  OBVIOUS
<1> USE TokenAssumption DEF TokenAssumption
<1>1. Unset \in [Attributes -> Value]
  BY DEF Unset, Value
<1> DEFINE Started ==
      /\ token \in [Attributes -> Value] /\ issued \in Seq([user : Users, client : Nat])
      /\ live \subseteq DOMAIN issued
      /\ token["access"] # None =>
           token["access"] \in DOMAIN issued /\ token["username"] \in {Owner, None}
<1>2. Started
  <2>1. CASE token = Unset /\ issued = <<>> /\ live = {}
    BY <1>1, <2>1 DEF Unset, Attributes
  <2>2. ASSUME NEW u \in Users, NEW kept \in {u, None},
               token = [Unset EXCEPT !["username"] = kept, !["access"] = 1, !["client"] = 1],
               issued = <<[user |-> u, client |-> 1]>>, live \in SUBSET {1}
        PROVE  Started
    <3>1. kept \in Value /\ 1 \in Value
      BY DEF Value
    <3>2. token \in [Attributes -> Value]
      BY <1>1, <2>2, <3>1
    <3>3. token["access"] = 1 /\ token["username"] = kept
      BY <2>2 DEF Unset, Attributes
    <3>4. DOMAIN issued = {1} /\ issued[1].user = u
      BY <2>2
    <3>5. issued \in Seq([user : Users, client : Nat])
      BY <2>2
    <3>6. QED
      BY <2>2, <3>2, <3>3, <3>4, <3>5 DEF Owner
  <2> HIDE DEF Started
  <2>3. QED
    BY <2>1, <2>2 DEF Init
<1>3. /\ call = "none" /\ answer = Unset /\ done = 0 /\ result = "none"
      /\ join = 0 /\ read = Unset /\ joined = "none" /\ settled = FALSE /\ calm = FALSE
  BY DEF Init
<1>4. TypeOK
  <2>1. call \in Calls /\ answer \in [Attributes -> Value] /\ read \in [Attributes -> Value]
    BY <1>1, <1>3 DEF Calls
  <2>2. /\ done \in 0 .. 5 /\ join \in 0 .. 4 /\ result \in {"none", "True", "raised"}
        /\ joined \in {"none", "True", "refused", "raised"}
    BY <1>3, SMT
  <2>3. settled \in BOOLEAN /\ calm \in BOOLEAN
    BY <1>3, Zenon
  <2>4. QED
    BY <1>2, <2>1, <2>2, <2>3, Zenon DEF TypeOK
<1>5. AnswerInv /\ AssignInv /\ SettledInv /\ JoinInv
  <2>1. Len(Assigned("none")) = 0
    BY AssignedLength DEF Calls
  <2>2. QED
    BY <1>3, <2>1 DEF AnswerInv, AssignInv, SettledInv, JoinInv, Granting
<1>6. QED
  BY <1>2, <1>4, <1>5 DEF IInv, OwnerInv

\* A token issued leaves those before it as they are.
LEMMA IssuedKept ==
  ASSUME NEW call_ \in Calls, NEW u \in Users, NEW c \in Nat, NEW revoked,
         TypeOK, Issue(call_, u, c, revoked)
  PROVE  /\ issued' \in Seq([user : Users, client : Nat])
         /\ DOMAIN issued \subseteq DOMAIN issued' /\ live' \subseteq DOMAIN issued'
         /\ \A i \in DOMAIN issued : issued'[i] = issued[i]
         /\ Len(issued) + 1 \in live'
         /\ issued'[Len(issued) + 1] = [user |-> u, client |-> c]
<1>1. issued \in Seq([user : Users, client : Nat]) /\ live \subseteq DOMAIN issued
  BY DEF TypeOK
<1>2. /\ issued' = Append(issued, [user |-> u, client |-> c])
      /\ live' = (live \ revoked) \cup {Len(issued) + 1}
  BY DEF Issue
<1> DEFINE r == [user |-> u, client |-> c]
<1>3. r \in [user : Users, client : Nat]
  OBVIOUS
<1> HIDE DEF r
<1>4. issued' = Append(issued, r)
  BY <1>2 DEF r
<1>5. /\ issued' \in Seq([user : Users, client : Nat]) /\ Len(issued') = Len(issued) + 1
      /\ issued'[Len(issued) + 1] = r /\ \A i \in 1 .. Len(issued) : issued'[i] = issued[i]
  BY <1>1, <1>3, <1>4
<1>6. DOMAIN issued = 1 .. Len(issued) /\ DOMAIN issued' = 1 .. Len(issued) + 1
      /\ Len(issued) \in Nat
  BY <1>1, <1>5
<1>7. QED
  BY <1>1, <1>2, <1>5, <1>6 DEF r

\* The entries of a sequence have the type of its elements.
LEMMA EntryType ==
  ASSUME NEW S, NEW s \in Seq(S), NEW n \in DOMAIN s
  PROVE  s[n] \in S
OBVIOUS

\* What holds between calls while none is made.
LEMMA AtRest ==
  ASSUME IInv, call = "none"
  PROVE  /\ token["access"] # None =>
              token["access"] \in DOMAIN issued /\ token["username"] \in {Owner, None}
         /\ Known => token["access"] \in DOMAIN issued /\ Owner \in Users
                     /\ token["client"] \in Nat /\ token["username"] \in {Owner, None}
<1>1. token["access"] # None =>
        token["access"] \in DOMAIN issued /\ token["username"] \in {Owner, None}
  BY DEF IInv, OwnerInv
<1>2. ASSUME Known PROVE token["access"] \in DOMAIN issued /\ Owner \in Users
                         /\ token["client"] \in Nat /\ token["username"] \in {Owner, None}
  <2>1. token["access"] \in DOMAIN issued /\ issued \in Seq([user : Users, client : Nat])
    BY <1>2 DEF IInv, TypeOK, Known
  <2>2. token["access"] \in Nat
    BY <2>1
  <2>3. token["access"] # None
    BY <2>2, TokenAssumption DEF TokenAssumption
  <2>4. issued[token["access"]] \in [user : Users, client : Nat]
    BY <2>1, EntryType
  <2>5. QED
    BY <1>1, <1>2, <2>1, <2>3, <2>4 DEF Known, Owner
<1>3. QED
  BY <1>1, <1>2

\* A call that is made leaves the token and the networking thread alone, and only
\* validate leaves the promise in force.
LEMMA AskStep ==
  ASSUME IInv, NEW c \in Calls, NEW said \in [Attributes -> Value], Ask(c, said)
  PROVE  /\ call = "none" /\ call' = c /\ answer' = said /\ done' = 0
         /\ UNCHANGED <<token, result, join, read, joined>>
         /\ settled' \in BOOLEAN /\ calm' \in BOOLEAN
         /\ settled' => settled /\ c = "validate"
         /\ calm' => calm /\ c = "validate"
         /\ JoinInv'
<1>1. /\ call = "none" /\ call' = c /\ answer' = said /\ done' = 0
      /\ UNCHANGED <<token, result, join, read, joined>>
      /\ settled' = (settled /\ c = "validate") /\ calm' = (calm /\ c = "validate")
  BY DEF Ask, net
<1>2. settled' \in BOOLEAN /\ calm' \in BOOLEAN
      /\ (settled' => settled /\ c = "validate") /\ (calm' => calm /\ c = "validate")
  BY <1>1, Zenon
<1>3. calm' => settled' /\ joined # "refused"
  <2>1. calm => settled /\ joined # "refused"
    BY DEF IInv, JoinInv
  <2>2. QED
    BY <1>1, <2>1, Zenon
<1>4. JoinInv'
  <2>1. JoinInv
    BY DEF IInv
  <2>2. /\ join' > 0 => Authenticated'
        /\ \A i \in 1 .. 3 : i < join' => read'[Reads[i]] # None
    BY <1>1, <2>1 DEF JoinInv, Authenticated
  <2>3. ASSUME calm' PROVE \A i \in 1 .. 3 : i < join' => read'[Reads[i]] = token'[Reads[i]]
    <3>1. calm
      BY <1>2, <2>3, Zenon
    <3>2. QED
      BY <1>1, <2>1, <3>1 DEF JoinInv
  <2>4. joined' = joined
    BY <1>1
  <2>5. QED
    BY <1>3, <2>2, <2>3, <2>4, Zenon DEF JoinInv
<1>5. QED
  BY <1>1, <1>2, <1>4, Zenon

\* authenticate and refresh begin: the answer is for the token just issued.
LEMMA IssueStep ==
  ASSUME IInv, NEW call_ \in {"authenticate", "refresh"}, NEW u \in Users, NEW c \in Nat,
         NEW revoked, Issue(call_, u, c, revoked),
         call_ = "refresh" => token["username"] \in {u, None}
  PROVE  IInv'
<1> DEFINE m == Len(issued) + 1
<1>1. TypeOK /\ issued \in Seq([user : Users, client : Nat]) /\ call_ \in Calls
  BY DEF IInv, TypeOK, Calls
<1>2. m \in Nat /\ m # None
  BY <1>1, TokenAssumption DEF TokenAssumption
<1>3. PICK profile \in {u, None} :
        Ask(call_, [username |-> u, access |-> m, client |-> c,
                    id |-> profile, name |-> profile])
  BY DEF Issue
<1> DEFINE said == [username |-> u, access |-> m, client |-> c,
                    id |-> profile, name |-> profile]
<1>4. said \in [Attributes -> Value]
  BY <1>2 DEF Attributes, Value
<1>5. /\ said["username"] = u /\ said["access"] = m /\ said["client"] = c
      /\ said["id"] = profile /\ said["name"] = profile
  OBVIOUS
<1>6. Ask(call_, said)
  BY <1>3
<1> HIDE DEF said
<1>7. /\ call = "none" /\ call' = call_ /\ answer' = said /\ done' = 0
      /\ UNCHANGED <<token, result, join, read, joined>>
      /\ settled' \in BOOLEAN /\ calm' \in BOOLEAN /\ ~settled' /\ JoinInv'
  <2>1. call_ # "validate"
    OBVIOUS
  <2>2. QED
    BY <1>1, <1>4, <1>6, <2>1, AskStep, Zenon
<1>8. /\ issued' \in Seq([user : Users, client : Nat])
      /\ DOMAIN issued \subseteq DOMAIN issued' /\ live' \subseteq DOMAIN issued'
      /\ \A i \in DOMAIN issued : issued'[i] = issued[i]
      /\ m \in live' /\ issued'[m] = [user |-> u, client |-> c]
  BY <1>1, IssuedKept
<1> HIDE DEF m
<1>9. TypeOK'
  <2>1. /\ call' \in Calls /\ answer' \in [Attributes -> Value] /\ done' \in 0 .. 5
        /\ token' \in [Attributes -> Value] /\ result' \in {"none", "True", "raised"}
        /\ join' \in 0 .. 4 /\ read' \in [Attributes -> Value]
        /\ joined' \in {"none", "True", "refused", "raised"}
    BY <1>1, <1>4, <1>7 DEF TypeOK
  <2>2. QED
    BY <1>7, <1>8, <2>1, Zenon DEF TypeOK
<1>10. AnswerInv'
  BY <1>5, <1>7, <1>8 DEF AnswerInv, Granting
<1>11. AssignInv'
  BY <1>5, <1>7, AssignedLength DEF AssignInv
<1>12. OwnerInv'
  BY <1>7, <1>8, AtRest DEF OwnerInv, Owner
<1>13. SettledInv'
  BY <1>7, Zenon DEF SettledInv
<1>14. QED
  BY <1>7, <1>9, <1>10, <1>11, <1>12, <1>13, Zenon DEF IInv

\* The calls that assign nothing begin: tokens are revoked, and only validate,
\* which revokes none, leaves the promise in force.
LEMMA RevokeStep ==
  ASSUME IInv, NEW c \in Calls, c \notin {"none", "authenticate", "refresh"}, Ask(c, Unset),
         issued' = issued, live' \subseteq live, c = "validate" => live' = live
  PROVE  IInv'
<1>1. Unset \in [Attributes -> Value]
  BY DEF Unset, Value
<1>2. /\ call = "none" /\ call' = c /\ answer' = Unset /\ done' = 0
      /\ UNCHANGED <<token, result, join, read, joined>>
      /\ settled' \in BOOLEAN /\ calm' \in BOOLEAN
      /\ settled' => settled /\ c = "validate"
      /\ JoinInv'
  BY <1>1, AskStep, Zenon
<1>3. TypeOK'
  <2>1. TypeOK
    BY DEF IInv
  <2>2. /\ call' \in Calls /\ answer' \in [Attributes -> Value] /\ done' \in 0 .. 5
        /\ token' \in [Attributes -> Value] /\ result' \in {"none", "True", "raised"}
        /\ join' \in 0 .. 4 /\ read' \in [Attributes -> Value]
        /\ joined' \in {"none", "True", "refused", "raised"}
        /\ issued' \in Seq([user : Users, client : Nat]) /\ live' \subseteq DOMAIN issued'
    BY <1>1, <1>2, <2>1 DEF TypeOK
  <2>3. QED
    BY <1>2, <2>2, Zenon DEF TypeOK
<1>4. AnswerInv' /\ AssignInv'
  BY <1>2, AssignedLength DEF AnswerInv, AssignInv, Granting
<1>5. OwnerInv'
  BY <1>2, AtRest DEF OwnerInv, Owner
<1>6. SettledInv'
  <2>1. SUFFICES ASSUME settled' PROVE /\ call' \in {"none", "validate"} /\ Known'
                                       /\ token'["id"] = Owner' /\ token'["name"] = Owner'
    BY DEF SettledInv
  <2>2. settled /\ c = "validate"
    BY <1>2, <2>1, Zenon
  <2>3. Known /\ token["id"] = Owner /\ token["name"] = Owner
    BY <2>2 DEF IInv, SettledInv
  <2>4. QED
    BY <1>2, <2>2, <2>3 DEF Known, Owner
<1>7. QED
  BY <1>2, <1>3, <1>4, <1>5, <1>6, Zenon DEF IInv

\* The networking thread is not concerned by what changes neither the token nor
\* the promise.
LEMMA JoinKept ==
  ASSUME JoinInv, UNCHANGED <<token, join, read, joined, calm>>, settled => settled'
  PROVE  JoinInv'
<1>1. /\ join' > 0 => Authenticated'
      /\ \A i \in 1 .. 3 : i < join' => read'[Reads[i]] # None
  BY DEF JoinInv, Authenticated
<1>2. ASSUME calm' PROVE /\ settled' /\ joined' # "refused"
                         /\ \A i \in 1 .. 3 : i < join' => read'[Reads[i]] = token'[Reads[i]]
  BY <1>2 DEF JoinInv
<1>3. QED
  BY <1>1, <1>2, Zenon DEF JoinInv

\* A call raises before it has assigned anything.
LEMMA RaiseStep ==
  ASSUME IInv, Refused \/ Lost
  PROVE  IInv'
<1>1. /\ call' = "none" /\ done' = 0 /\ result' = "raised"
      /\ UNCHANGED <<token, answer, join, read, joined, issued, live, settled, calm>>
      /\ ~(call = "authenticate" /\ done = 1)
  <2>1. CASE Refused
    <3>1. call' = call /\ done' = done /\ call = "none" /\ result' = "raised"
          /\ UNCHANGED <<token, answer, join, read, joined, issued, live, settled, calm>>
      BY <2>1 DEF Refused, net, server
    <3>2. done <= Len(Assigned("none")) /\ done \in 0 .. 5
      BY <3>1 DEF IInv, AssignInv, TypeOK
    <3>3. Len(Assigned("none")) = 0
      BY AssignedLength DEF Calls
    <3>4. QED
      BY <3>1, <3>2, <3>3
  <2>2. CASE Lost
    BY <2>2 DEF Lost, net, server
  <2>3. QED
    BY <2>1, <2>2
<1>2. TypeOK /\ JoinInv /\ OwnerInv /\ SettledInv
  BY DEF IInv
<1>3. TypeOK'
  BY <1>1, <1>2 DEF TypeOK, Calls
<1>4. AnswerInv' /\ AssignInv'
  <2>1. Len(Assigned("none")) = 0
    BY AssignedLength DEF Calls
  <2>2. QED
    BY <1>1, <2>1 DEF AnswerInv, AssignInv, Granting
<1>5. OwnerInv'
  BY <1>1, <1>2 DEF OwnerInv, Owner
<1>6. SettledInv'
  BY <1>1, <1>2 DEF SettledInv, Known, Owner
<1>7. JoinInv'
  BY <1>1, <1>2, JoinKept
<1>8. QED
  BY <1>3, <1>4, <1>5, <1>6, <1>7 DEF IInv

\* A call returns True: after authenticate or refresh the token is whole.
LEMMA ReturnStep ==
  ASSUME IInv, Return
  PROVE  IInv'
<1>1. /\ call # "none" /\ done = Len(Assigned(call))
      /\ call' = "none" /\ done' = 0 /\ result' = "True"
      /\ settled' = (settled \/ call \in {"authenticate", "refresh"})
      /\ UNCHANGED <<token, answer, join, read, joined, issued, live, calm>>
  BY DEF Return, net, server
<1>2. TypeOK /\ AnswerInv /\ AssignInv /\ JoinInv /\ OwnerInv /\ SettledInv
  BY DEF IInv
<1>3. settled' \in BOOLEAN /\ (settled => settled')
      /\ (settled' => settled \/ call \in {"authenticate", "refresh"})
  BY <1>1, <1>2, Zenon DEF TypeOK
<1>4. TypeOK'
  <2>1. /\ call' \in Calls /\ answer' \in [Attributes -> Value] /\ done' \in 0 .. 5
        /\ token' \in [Attributes -> Value] /\ result' \in {"none", "True", "raised"}
        /\ join' \in 0 .. 4 /\ read' \in [Attributes -> Value]
        /\ joined' \in {"none", "True", "refused", "raised"}
        /\ issued' \in Seq([user : Users, client : Nat]) /\ live' \subseteq DOMAIN issued'
    BY <1>1, <1>2 DEF TypeOK, Calls
  <2>2. calm' \in BOOLEAN
    BY <1>1, <1>2, Zenon DEF TypeOK
  <2>3. QED
    BY <1>3, <2>1, <2>2, Zenon DEF TypeOK
<1>5. AnswerInv' /\ AssignInv'
  <2>1. Len(Assigned("none")) = 0
    BY AssignedLength DEF Calls
  <2>2. QED
    BY <1>1, <2>1 DEF AnswerInv, AssignInv, Granting
<1>6. OwnerInv'
  <2>1. ASSUME call = "authenticate" PROVE done = 5
    BY <1>1, <2>1, AssignedLength
  <2>2. QED
    BY <1>1, <1>2, <2>1 DEF OwnerInv, Owner
<1>7. SettledInv'
  <2>1. SUFFICES ASSUME settled'
                 PROVE  Known /\ token["id"] = Owner /\ token["name"] = Owner
    BY <1>1 DEF SettledInv, Known, Owner
  <2>2. CASE settled
    BY <1>2, <2>2 DEF SettledInv
  <2>3. CASE call \in {"authenticate", "refresh"}
    <3>1. /\ token["access"] = answer["access"] /\ token["client"] = answer["client"]
          /\ token["id"] = answer["id"] /\ token["name"] = answer["name"]
          /\ answer["id"] # None /\ answer["name"] # None
      <4>1. CASE call = "authenticate"
        <5>1. \A i \in 1 .. 5 : token[Assigned(call)[i]] = answer[Assigned(call)[i]]
                              /\ answer[Assigned(call)[i]] # None
          BY <1>1, <1>2, <4>1, AssignedLength DEF AssignInv
        <5>2. /\ Assigned(call)[2] = "access" /\ Assigned(call)[3] = "client"
              /\ Assigned(call)[4] = "id" /\ Assigned(call)[5] = "name"
          BY <4>1 DEF Assigned
        <5>3. QED
          BY <5>1, <5>2
      <4>2. CASE call = "refresh"
        <5>1. \A i \in 1 .. 4 : token[Assigned(call)[i]] = answer[Assigned(call)[i]]
                              /\ answer[Assigned(call)[i]] # None
          BY <1>1, <1>2, <4>2, AssignedLength DEF AssignInv
        <5>2. /\ Assigned(call)[1] = "access" /\ Assigned(call)[2] = "client"
              /\ Assigned(call)[3] = "id" /\ Assigned(call)[4] = "name"
          BY <4>2 DEF Assigned
        <5>3. QED
          BY <5>1, <5>2
      <4>3. QED
        BY <2>3, <4>1, <4>2
    <3>2. /\ answer["access"] \in live
          /\ issued[answer["access"]] = [user |-> answer["username"], client |-> answer["client"]]
          /\ {answer["id"], answer["name"]} \subseteq {answer["username"], None}
      BY <1>2, <2>3 DEF AnswerInv, Granting
    <3>3. QED
      BY <3>1, <3>2 DEF Known, Owner
  <2>4. QED
    BY <1>3, <2>1, <2>2, <2>3, Zenon
<1>8. JoinInv'
  BY <1>1, <1>2, <1>3, JoinKept
<1>9. QED
  BY <1>4, <1>5, <1>6, <1>7, <1>8 DEF IInv

\* While a call has attributes left to assign, one more fits.
LEMMA RoomLeft ==
  ASSUME NEW len \in {4, 5}, NEW n \in 0 .. 5, n < len
  PROVE  /\ n + 1 <= len /\ n + 1 \in 0 .. 5
         /\ len = 5 => n \in 0 .. 4
         /\ len = 4 => n \in 0 .. 3
OBVIOUS

\* An attribute is assigned, or the answer lacks it and the call ends.
LEMMA AssignStep ==
  ASSUME IInv, Assign
  PROVE  IInv'
<1> DEFINE a == Assigned(call)[done + 1]
<1>1. TypeOK /\ AnswerInv /\ AssignInv /\ JoinInv /\ OwnerInv /\ SettledInv
  BY DEF IInv
<1>2. /\ done < Len(Assigned(call)) /\ done \in 0 .. 5 /\ call \in Calls
      /\ UNCHANGED <<answer, join, read, joined, issued, live, settled, calm>>
  BY <1>1 DEF Assign, net, server, TypeOK
<1>3. call \in {"authenticate", "refresh"}
  BY <1>2, AssignedLength
<1>4. /\ done + 1 <= Len(Assigned(call)) /\ done + 1 \in 0 .. 5
      /\ call = "authenticate" => done \in 0 .. 4
      /\ call = "refresh" => done \in 0 .. 3
  <2>1. done \in 0 .. 5 /\ done < Len(Assigned(call))
    BY <1>2
  <2>2. Len(Assigned(call)) \in {4, 5} /\ (call = "authenticate" => Len(Assigned(call)) = 5)
        /\ (call = "refresh" => Len(Assigned(call)) = 4)
    BY <1>3, AssignedLength
  <2>3. /\ done + 1 <= Len(Assigned(call)) /\ done + 1 \in 0 .. 5
        /\ Len(Assigned(call)) = 5 => done \in 0 .. 4
        /\ Len(Assigned(call)) = 4 => done \in 0 .. 3
    BY <2>1, <2>2, RoomLeft
  <2>4. QED
    BY <2>2, <2>3, Zenon
<1>5. a \in Attributes
  BY <1>2, <1>3, AssignedAttributes, AssignedLength
<1>6. /\ answer["access"] \in live /\ answer["access"] \in DOMAIN issued
      /\ answer["access"] # None /\ answer["username"] \in Users
      /\ issued[answer["access"]].user = answer["username"]
  <2>1. answer["access"] \in live /\ answer["username"] \in Users
        /\ issued[answer["access"]].user = answer["username"]
    BY <1>1, <1>3 DEF AnswerInv, Granting
  <2>2. answer["access"] \in DOMAIN issued /\ issued \in Seq([user : Users, client : Nat])
    BY <1>1, <2>1 DEF TypeOK
  <2>3. answer["access"] \in Nat
    BY <2>2
  <2>4. QED
    BY <2>1, <2>2, <2>3, TokenAssumption DEF TokenAssumption
<1>7. ~settled /\ ~calm
  BY <1>1, <1>3, Zenon DEF SettledInv, JoinInv
<1>8. AnswerInv /\ call' = call => AnswerInv'
  BY <1>2 DEF AnswerInv, Granting
<1>9. CASE answer[a] # None
  <2>1. /\ token' = [token EXCEPT ![a] = answer[a]] /\ done' = done + 1
        /\ call' = call /\ result' = result
    BY <1>9 DEF Assign
  <2> HIDE DEF a
  <2>2. token \in [Attributes -> Value] /\ answer \in [Attributes -> Value]
    BY <1>1 DEF TypeOK
  <2>3. token' \in [Attributes -> Value] /\ token'[a] = answer[a]
        /\ \A b \in Attributes : b # a => token'[b] = token[b]
    BY <1>5, <2>1, <2>2
  <2>4. done' <= Len(Assigned(call)) /\ done' \in 0 .. 5
    BY <1>4, <2>1
  <2>5. TypeOK'
    <3>1. settled' \in BOOLEAN /\ calm' \in BOOLEAN
      BY <1>1, <1>2, Zenon DEF TypeOK
    <3>2. /\ call' \in Calls /\ answer' \in [Attributes -> Value]
          /\ result' \in {"none", "True", "raised"}
          /\ join' \in 0 .. 4 /\ read' \in [Attributes -> Value]
          /\ joined' \in {"none", "True", "refused", "raised"}
          /\ issued' \in Seq([user : Users, client : Nat]) /\ live' \subseteq DOMAIN issued'
      BY <1>1, <1>2, <2>1 DEF TypeOK
    <3>3. QED
      BY <2>3, <2>4, <3>1, <3>2, Zenon DEF TypeOK
  <2>6. AssignInv'
    <3>1. ASSUME NEW i \in 1 .. done'
          PROVE  /\ token'[Assigned(call)[i]] = answer[Assigned(call)[i]]
                 /\ answer[Assigned(call)[i]] # None
      <4>1. CASE i = done + 1
        BY <1>9, <2>3, <4>1 DEF a
      <4>2. CASE i # done + 1
        <5>1. i \in 1 .. done /\ i \in 1 .. Len(Assigned(call))
          BY <1>2, <1>3, <2>1, <4>2, AssignedLength
        <5>2. Assigned(call)[i] \in Attributes
          BY <1>2, <5>1, AssignedAttributes
        <5>3. /\ token[Assigned(call)[i]] = answer[Assigned(call)[i]]
              /\ answer[Assigned(call)[i]] # None
          BY <1>1, <5>1 DEF AssignInv
        <5>4. QED
          BY <2>3, <5>2, <5>3
      <4>3. QED
        BY <4>1, <4>2
    <3>2. ASSUME call = "refresh" PROVE token'["username"] \in {answer["username"], None}
      <4>1. a # "username"
        <5>1. done \in 0 .. 3
          BY <1>4, <3>2
        <5>2. QED
          BY <3>2, <5>1 DEF a, Assigned
      <4>2. token'["username"] = token["username"]
        BY <2>3, <4>1 DEF Attributes
      <4>3. QED
        BY <1>1, <3>2, <4>2 DEF AssignInv
    <3>3. QED
      BY <1>2, <2>1, <2>4, <3>1, <3>2 DEF AssignInv
  <2>7. OwnerInv'
    <3>1. CASE a = "access"
      <4>1. token'["access"] = answer["access"] /\ token'["username"] = token["username"]
        BY <2>3, <3>1 DEF Attributes
      <4>2. token["username"] \in {answer["username"], None}
        <5>1. CASE call = "authenticate"
          <6>1. done = 1
            <7>1. done \in 0 .. 4
              BY <1>4, <5>1
            <7>2. QED
              BY <3>1, <5>1, <7>1 DEF a, Assigned
          <6>2. token[Assigned(call)[1]] = answer[Assigned(call)[1]]
            BY <1>1, <6>1 DEF AssignInv
          <6>3. QED
            BY <5>1, <6>2 DEF Assigned
        <5>2. CASE call = "refresh"
          BY <1>1, <5>2 DEF AssignInv
        <5>3. QED
          BY <1>3, <5>1, <5>2
      <4>3. QED
        BY <1>2, <1>6, <4>1, <4>2 DEF OwnerInv, Owner
    <3>2. CASE a = "username"
      <4>1. call = "authenticate" /\ done = 0
        <5>1. CASE call = "authenticate"
          <6>1. done \in 0 .. 4
            BY <1>4, <5>1
          <6>2. QED
            BY <3>2, <5>1, <6>1 DEF a, Assigned
        <5>2. CASE call = "refresh"
          <6>1. done \in 0 .. 3
            BY <1>4, <5>2
          <6>2. QED
            BY <3>2, <5>2, <6>1 DEF a, Assigned
        <5>3. QED
          BY <1>3, <5>1, <5>2
      <4>2. QED
        BY <2>1, <4>1 DEF OwnerInv
    <3>3. CASE a \notin {"access", "username"}
      <4>1. token'["access"] = token["access"] /\ token'["username"] = token["username"]
        BY <2>3, <3>3 DEF Attributes
      <4>2. ~(call = "authenticate" /\ done = 1)
        BY <3>3 DEF a, Assigned
      <4>3. QED
        BY <1>1, <1>2, <4>1, <4>2 DEF OwnerInv, Owner
    <3>4. QED
      BY <3>1, <3>2, <3>3
  <2>8. SettledInv'
    BY <1>2, <1>7, Zenon DEF SettledInv
  <2>9. JoinInv'
    <3>1. /\ join' > 0 => Authenticated'
          /\ \A i \in 1 .. 3 : i < join' => read'[Reads[i]] # None
      BY <1>1, <1>2, <1>9, <2>3 DEF JoinInv, Authenticated
    <3>2. ~calm'
      BY <1>2, <1>7, Zenon
    <3>3. QED
      BY <3>1, <3>2, Zenon DEF JoinInv
  <2>10. QED
    BY <1>1, <1>8, <2>1, <2>5, <2>6, <2>7, <2>8, <2>9 DEF IInv
<1>10. CASE answer[a] = None
  <2>1. call' = "none" /\ done' = 0 /\ result' = "raised" /\ UNCHANGED token
    BY <1>10 DEF Assign
  <2>2. ~(call = "authenticate" /\ done = 1)
    BY <1>6, <1>10 DEF Assigned
  <2>3. TypeOK'
    BY <1>1, <1>2, <2>1 DEF TypeOK, Calls
  <2>4. AnswerInv' /\ AssignInv'
    <3>1. Len(Assigned("none")) = 0
      BY AssignedLength DEF Calls
    <3>2. QED
      BY <2>1, <3>1 DEF AnswerInv, AssignInv, Granting
  <2>5. OwnerInv'
    BY <1>1, <1>2, <2>1, <2>2 DEF OwnerInv, Owner
  <2>6. SettledInv'
    BY <1>2, <1>7, Zenon DEF SettledInv
  <2>7. JoinInv'
    BY <1>1, <1>2, <2>1, JoinKept
  <2>8. QED
    BY <2>3, <2>4, <2>5, <2>6, <2>7 DEF IInv
<1>11. QED
  BY <1>9, <1>10

\* The networking thread changes nothing but its join and whether it is calm.
LEMMA JoinFrame ==
  ASSUME IInv, UNCHANGED <<token, app, server, settled>>, JoinInv', calm' \in BOOLEAN,
         join' \in 0 .. 4, read' \in [Attributes -> Value],
         joined' \in {"none", "True", "refused", "raised"}
  PROVE  IInv'
<1>1. TypeOK /\ AnswerInv /\ AssignInv /\ OwnerInv /\ SettledInv
  BY DEF IInv
<1>2. UNCHANGED <<token, call, answer, done, result, issued, live, settled>>
  BY DEF app, server
<1>3. TypeOK'
  <2>1. settled' \in BOOLEAN
    BY <1>1, <1>2, Zenon DEF TypeOK
  <2>2. /\ token' \in [Attributes -> Value] /\ call' \in Calls
        /\ answer' \in [Attributes -> Value] /\ done' \in 0 .. 5
        /\ result' \in {"none", "True", "raised"}
        /\ issued' \in Seq([user : Users, client : Nat]) /\ live' \subseteq DOMAIN issued'
    BY <1>1, <1>2 DEF TypeOK
  <2>3. QED
    BY <2>1, <2>2, Zenon DEF TypeOK
<1>4. AnswerInv' /\ AssignInv'
  BY <1>1, <1>2 DEF AnswerInv, AssignInv, Granting
<1>5. OwnerInv'
  BY <1>1, <1>2 DEF OwnerInv, Owner
<1>6. SettledInv'
  BY <1>1, <1>2 DEF SettledInv, Known, Owner
<1>7. QED
  BY <1>3, <1>4, <1>5, <1>6 DEF IInv

\* A join begins if the token is authenticated, and raises otherwise.
LEMMA JoinCheckStep ==
  ASSUME IInv, JoinCheck
  PROVE  IInv'
<1>1. TypeOK /\ JoinInv
  BY DEF IInv
<1>2. /\ join = 0 /\ UNCHANGED <<token, app, server, settled>> /\ read' = read
  BY DEF JoinCheck
<1>3. CASE Authenticated
  <2>1. join' = 1 /\ joined' = "none" /\ calm' = settled /\ settled' = settled
    BY <1>3 DEF JoinCheck
  <2>2. calm' \in BOOLEAN /\ (calm' => settled' /\ joined' # "refused")
    BY <1>1, <2>1, Zenon DEF TypeOK
  <2>3. JoinInv'
    <3>1. /\ join' > 0 => Authenticated'
          /\ \A i \in 1 .. 3 : i < join' => read'[Reads[i]] # None
          /\ \A i \in 1 .. 3 : i < join' => read'[Reads[i]] = token'[Reads[i]]
      BY <1>2, <1>3, <2>1 DEF Authenticated
    <3>2. QED
      BY <2>2, <3>1, Zenon DEF JoinInv
  <2>4. join' \in 0 .. 4 /\ joined' \in {"none", "True", "refused", "raised"}
        /\ read' \in [Attributes -> Value]
    BY <1>1, <1>2, <2>1 DEF TypeOK
  <2>5. QED
    BY <1>2, <2>2, <2>3, <2>4, JoinFrame
<1>4. CASE ~Authenticated
  <2>1. join' = 0 /\ joined' = "raised" /\ calm' = calm /\ settled' = settled
    BY <1>4 DEF JoinCheck
  <2>2. calm' \in BOOLEAN /\ (calm' => settled' /\ joined' # "refused")
    <3>1. calm => settled
      BY <1>1, Zenon DEF JoinInv
    <3>2. QED
      BY <1>1, <2>1, <3>1, Zenon DEF TypeOK
  <2>3. JoinInv'
    <3>1. /\ join' > 0 => Authenticated'
          /\ \A i \in 1 .. 3 : i < join' => read'[Reads[i]] # None
          /\ \A i \in 1 .. 3 : i < join' => read'[Reads[i]] = token'[Reads[i]]
      BY <2>1
    <3>2. QED
      BY <2>2, <3>1, Zenon DEF JoinInv
  <2>4. join' \in 0 .. 4 /\ joined' \in {"none", "True", "refused", "raised"}
        /\ read' \in [Attributes -> Value]
    BY <1>1, <1>2, <2>1 DEF TypeOK
  <2>5. QED
    BY <1>2, <2>2, <2>3, <2>4, JoinFrame
<1>5. QED
  BY <1>3, <1>4

\* What a join reads is set, since an authenticated token stays so.
LEMMA JoinReadStep ==
  ASSUME IInv, JoinRead
  PROVE  IInv'
<1>1. TypeOK /\ JoinInv
  BY DEF IInv
<1> DEFINE a == Reads[join]
<1>2. /\ join \in 1 .. 3 /\ UNCHANGED <<token, app, joined, server, settled, calm>>
      /\ read' = [read EXCEPT ![a] = token[a]] /\ join' = join + 1
  BY DEF JoinRead
<1>3. a \in Attributes
  BY <1>2, ReadsAttributes DEF Attributes
<1>4. \A i \in 1 .. 3 : i # join => Reads[i] # a
  BY <1>2 DEF Reads
<1> HIDE DEF a
<1>5. token \in [Attributes -> Value] /\ read \in [Attributes -> Value]
  BY <1>1 DEF TypeOK
<1>6. /\ read' \in [Attributes -> Value] /\ read'[a] = token[a]
      /\ \A b \in Attributes : b # a => read'[b] = read[b]
  BY <1>2, <1>3, <1>5
<1>7. Authenticated /\ token[a] # None
  BY <1>1, <1>2, <1>3 DEF JoinInv, Authenticated
<1>8. ASSUME NEW i \in 1 .. 3, i < join'
      PROVE  read'[Reads[i]] # None /\ (calm => read'[Reads[i]] = token[Reads[i]])
  <2>1. CASE i = join
    BY <1>6, <1>7, <2>1 DEF a
  <2>2. CASE i # join
    <3>1. i < join
      BY <1>2, <1>8, <2>2
    <3>2. Reads[i] # a /\ Reads[i] \in Attributes
      BY <1>4, <2>2, ReadsAttributes DEF Attributes
    <3>3. read'[Reads[i]] = read[Reads[i]]
      BY <1>6, <3>2
    <3>4. QED
      BY <1>1, <3>1, <3>3 DEF JoinInv
  <2>3. QED
    BY <2>1, <2>2
<1>9. calm' \in BOOLEAN /\ calm' = calm /\ token' = token
      /\ (calm' => settled' /\ joined' # "refused")
  <2>1. calm => settled /\ joined # "refused"
    BY <1>1, Zenon DEF JoinInv
  <2>2. QED
    BY <1>1, <1>2, <2>1, Zenon DEF TypeOK
<1>10. JoinInv'
  <2>1. join' > 0 => Authenticated'
    BY <1>2, <1>7 DEF Authenticated
  <2>2. \A i \in 1 .. 3 : i < join' => read'[Reads[i]] # None
    BY <1>8
  <2>3. calm' => \A i \in 1 .. 3 : i < join' => read'[Reads[i]] = token'[Reads[i]]
    BY <1>8, <1>9
  <2>4. QED
    BY <1>9, <2>1, <2>2, <2>3, Zenon DEF JoinInv
<1>11. join' \in 0 .. 4 /\ joined' \in {"none", "True", "refused", "raised"}
  BY <1>1, <1>2 DEF TypeOK
<1>12. QED
  BY <1>2, <1>6, <1>9, <1>10, <1>11, JoinFrame

\* The session server admits a calm join.
LEMMA JoinPostStep ==
  ASSUME IInv, JoinPost
  PROVE  IInv'
<1>1. TypeOK /\ JoinInv /\ SettledInv
  BY DEF IInv
<1>2. /\ join = 4 /\ join' = 0 /\ UNCHANGED <<token, app, read, server, settled, calm>>
      /\ joined' \in {IF Admitted THEN "True" ELSE "refused", "raised"}
  BY DEF JoinPost
<1>3. ASSUME calm PROVE Admitted
  <2>1. settled
    BY <1>1, <1>3, Zenon DEF JoinInv
  <2>2. \A i \in 1 .. 3 : read[Reads[i]] = token[Reads[i]]
    BY <1>1, <1>2, <1>3 DEF JoinInv
  <2>3. /\ read["access"] = token["access"] /\ read["id"] = token["id"]
        /\ read["name"] = token["name"]
    BY <2>2 DEF Reads
  <2>4. QED
    BY <1>1, <2>1, <2>3 DEF SettledInv, Known, Owner, Admitted
<1>4. calm' \in BOOLEAN /\ (calm' => settled' /\ joined' # "refused")
  <2>1. calm => settled
    BY <1>1, Zenon DEF JoinInv
  <2>2. calm => joined' # "refused"
    BY <1>2, <1>3
  <2>3. QED
    BY <1>1, <1>2, <2>1, <2>2, Zenon DEF TypeOK
<1>5. JoinInv'
  <2>1. /\ join' > 0 => Authenticated'
        /\ \A i \in 1 .. 3 : i < join' => read'[Reads[i]] # None
        /\ \A i \in 1 .. 3 : i < join' => read'[Reads[i]] = token'[Reads[i]]
    BY <1>2
  <2>2. QED
    BY <1>4, <2>1, Zenon DEF JoinInv
<1>6. join' \in 0 .. 4 /\ joined' \in {"none", "True", "refused", "raised"}
      /\ read' \in [Attributes -> Value]
  BY <1>1, <1>2 DEF TypeOK
<1>7. QED
  BY <1>2, <1>4, <1>5, <1>6, JoinFrame
-----------------------------------------------------------------------------
\* Every step preserves the invariant.
LEMMA TokenStep ==
  ASSUME IInv, [Next]_vars
  PROVE  IInv'
<1>1. issued \in Seq([user : Users, client : Nat]) /\ Len(issued) + 1 \in Nat
  BY DEF IInv, TypeOK
<1>2. ASSUME NEW u \in Users, Authenticate(u) PROVE IInv'
  <2>1. Issue("authenticate", u, Len(issued) + 1, {})
    BY <1>2 DEF Authenticate
  <2>2. QED
    BY <1>1, <2>1, IssueStep
<1>3. ASSUME NEW u \in Users, SignOut(u) PROVE IInv'
  <2>1. Ask("sign_out", Unset) /\ issued' = issued /\ live' \subseteq live
    BY <1>3 DEF SignOut
  <2>2. QED
    BY <2>1, RevokeStep DEF Calls
<1>4. CASE Refresh
  <2>1. Known /\ Issue("refresh", Owner, token["client"], {token["access"]})
    BY <1>4 DEF Refresh
  <2>2. call = "none"
    BY <2>1 DEF Issue, Ask
  <2>3. Owner \in Users /\ token["client"] \in Nat /\ token["username"] \in {Owner, None}
    BY <2>1, <2>2, AtRest
  <2>4. QED
    BY <2>1, <2>3, IssueStep
<1>5. CASE Validate
  <2>1. Ask("validate", Unset) /\ issued' = issued /\ live' = live
    BY <1>5 DEF Validate, server
  <2>2. QED
    BY <2>1, RevokeStep DEF Calls
<1>6. CASE Invalidate
  <2>1. Ask("invalidate", Unset) /\ issued' = issued /\ live' \subseteq live
    BY <1>6 DEF Invalidate
  <2>2. QED
    BY <2>1, RevokeStep DEF Calls
<1>7. CASE Refused \/ Lost
  BY <1>7, RaiseStep
<1>8. CASE Assign
  BY <1>8, AssignStep
<1>9. CASE Return
  BY <1>9, ReturnStep
<1>10. CASE JoinCheck
  BY <1>10, JoinCheckStep
<1>11. CASE JoinRead
  BY <1>11, JoinReadStep
<1>12. CASE JoinPost
  BY <1>12, JoinPostStep
<1>13. CASE UNCHANGED vars
  <2>1. UNCHANGED <<token, app, server, settled>> /\ UNCHANGED <<join, read, joined, calm>>
    BY <1>13 DEF vars, net
  <2>2. TypeOK /\ JoinInv
    BY DEF IInv
  <2>3. JoinInv'
    BY <2>1, <2>2, JoinKept
  <2>4. calm' \in BOOLEAN
    BY <2>1, <2>2, Zenon DEF TypeOK
  <2>5. join' \in 0 .. 4 /\ read' \in [Attributes -> Value]
        /\ joined' \in {"none", "True", "refused", "raised"}
    BY <2>1, <2>2 DEF TypeOK
  <2>6. QED
    BY <2>1, <2>3, <2>4, <2>5, JoinFrame
<1>14. QED
  BY <1>2, <1>3, <1>4, <1>5, <1>6, <1>7, <1>8, <1>9, <1>10, <1>11, <1>12, <1>13
     DEF Next, Application, Networking

\* ... so it holds in every state.
LEMMA TokenInvariant == Spec => []IInv
BY TokenInit, TokenStep, PTL DEF Spec

\* Every attribute of the token is one a server gave it or None, join and the
\* calls are where their code can be, and what counts is what was issued.
THEOREM TokenTyping == Spec => []TypeOK
<1>1. IInv => TypeOK
  BY DEF IInv
<1>2. QED
  BY <1>1, TokenInvariant, PTL

\* join sends an access token and a whole profile, whatever authenticate, refresh
\* and invalidate do to the token while it reads it.
THEOREM JoinsWhole == Spec => []JoinWhole
<1>1. IInv => JoinWhole
  <2>1. SUFFICES ASSUME IInv, join = 4, NEW i \in DOMAIN Reads
                 PROVE  read[Reads[i]] # None
    BY DEF JoinWhole
  <2>2. i \in 1 .. 3
    BY DEF Reads
  <2>3. QED
    BY <2>1, <2>2 DEF IInv, JoinInv
<1>2. QED
  BY <1>1, TokenInvariant, PTL

\* What authenticate or refresh promises by returning True, the token keeps until
\* the next call: the server knows its pair, and profile and name are its owner's.
THEOREM PromiseKept == Spec => []KeepsPromise
<1>1. IInv => KeepsPromise
  <2>1. SUFFICES ASSUME IInv, settled
                 PROVE  /\ Known /\ token["id"] = Owner /\ token["name"] = Owner
                        /\ token["username"] \in {Owner, None}
    BY DEF KeepsPromise
  <2>2. call \in {"none", "validate"} /\ Known /\ token["id"] = Owner /\ token["name"] = Owner
    BY <2>1 DEF IInv, SettledInv
  <2>3. token["access"] # None
    <3>1. token["access"] \in DOMAIN issued /\ issued \in Seq([user : Users, client : Nat])
      BY <2>1, <2>2 DEF IInv, TypeOK, Known
    <3>2. token["access"] \in Nat
      BY <3>1
    <3>3. QED
      BY <3>2, TokenAssumption DEF TokenAssumption
  <2>4. QED
    BY <2>1, <2>2, <2>3 DEF IInv, OwnerInv
<1>2. QED
  BY <1>1, TokenInvariant, PTL

\* A join that starts from a token in that state, and that no call runs into, is
\* not refused by the session server.
THEOREM JoinsAdmitted == Spec => []JoinAdmitted
<1>1. IInv => JoinAdmitted
  BY DEF IInv, JoinInv, JoinAdmitted
<1>2. QED
  BY <1>1, TokenInvariant, PTL
=============================================================================
