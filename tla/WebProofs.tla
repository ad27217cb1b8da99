------------------------------ MODULE WebProofs ------------------------------
(***************************************************************************)
(* The invariants of the web client's parts, for every value b of their    *)
(* constants, and what follows of them: for each part by itself, and for   *)
(* the parts of module MCAccountWeb together.                              *)
(***************************************************************************)
EXTENDS MCAccountWeb, FiniteSetTheorems, WellFoundedInduction, TLAPS

-----------------------------------------------------------------------------
(* The session.  A cookie, a token and a call know of sessions that have   *)
(* been issued; a call is answered as its stage allows; a query that no    *)
(* change of the user has overtaken is its user's; and a session the       *)
(* browser holds is some tab's.  Below, o is the owners of the sessions.   *)

(* With the owners o, a session that has been issued, or none.             *)
Issued(b, s, o) == s = Client(b)!None \/ (s \in Client(b)!Ids /\ o[s] \in b.users)
OwnedBy(b, s, u, o) == s = Client(b)!None \/ o[s] = u
Refreshing(q) == q.kind = "boot" \/ q.stage = "refreshing"

(* What a call in flight knows, with the sessions l that are live and the  *)
(* cookie k.                                                               *)
Good(b, q, o, l, k) ==
  /\ q.kind \in {"boot", "login", "logout"} => q.stage = "sent"
  /\ q.kind = "login" => q.by \in b.users
  /\ Issued(b, q.token, o) /\ Issued(b, q.cookie, o) /\ Issued(b, q.grant, o)
  /\ q.grant # Client(b)!None <=> q.reply = "ok" /\ (Refreshing(q) \/ q.kind = "login")
  /\ q.kind = "logout" => q.reply # "unauthorized"
  /\ Refreshing(q) /\ q.reply = "unauthorized" => q.cookie \notin l
  /\ q.kind = "profile" /\ ~Refreshing(q) /\ q.reply = "ok" => q.token # Client(b)!None
  /\ q.stage = "resent" => q.token # Client(b)!None
  /\ q.kind = "query" /\ ~q.switched =>
       /\ OwnedBy(b, k, q.by, o)
       /\ q.stage = "refreshing" => OwnedBy(b, q.cookie, q.by, o) /\ OwnedBy(b, q.grant, q.by, o)
       /\ q.stage = "resent" => o[q.token] = q.by

Answered(q, reply, grant) == [q EXCEPT !.reply = reply, !.grant = grant]

ClientInv(b) ==
  /\ Client(b)!TypeOK
  /\ \A s \in live : owner[s] \in b.users
  /\ Issued(b, cookie, owner)
  /\ \A t \in b.tabs : Issued(b, token[t], owner)
  /\ \A c \in b.calls : clientCall[c].kind # "none" => Good(b, clientCall[c], owner, live, cookie)
  /\ ~disturbed /\ cookie \in live => \E t \in b.tabs : clientLoading[t] \/ clientUser[t] # Nobody

(* The invariant after a step, part by part.                               *)
LEMMA PartsOfClientInv ==
  ASSUME NEW b, Client(b)!TypeOK', \A s \in live' : owner'[s] \in b.users,
         Issued(b, cookie', owner'), \A t \in b.tabs : Issued(b, token'[t], owner'),
         \A c \in b.calls : clientCall'[c].kind # "none" => Good(b, clientCall'[c], owner', live', cookie'),
         ~disturbed' /\ cookie' \in live' => \E t \in b.tabs : clientLoading'[t] \/ clientUser'[t] # Nobody
  PROVE  ClientInv(b)'
BY DEF ClientInv, Issued, Good, OwnedBy, Refreshing, Client!Ids, Client!None

LEMMA CallsAreTyped ==
  ASSUME NEW b, Client(b)!TypeOK, NEW c \in b.calls, clientCall[c].kind # "none"
  PROVE  clientCall[c] \in Client(b)!Call /\ clientCall[c].kind \in Client(b)!Kinds
BY DEF Client!TypeOK, Client!Idle, Client!Call

(* Sessions only get owners once, and one that is revoked is not issued    *)
(* again.                                                                  *)
Later(b, o, l, p, m) ==
  /\ p \in [Client(b)!Ids -> b.users \cup {Nobody}]
  /\ \A s \in Client(b)!Ids : o[s] \in b.users => p[s] = o[s]
  /\ m \subseteq Client(b)!Ids /\ \A s \in m : p[s] \in b.users
  /\ \A s \in m : s \in l \/ o[s] = Nobody

LEMMA IssuedStays ==
  ASSUME NEW b, NEW o, NEW l, NEW p, NEW m, Later(b, o, l, p, m), Client(b)!WebClientAssumption, NEW s, Issued(b, s, o)
  PROVE  /\ Issued(b, s, p)
         /\ s = Client(b)!None \/ p[s] = o[s]
         /\ s \notin l => s \notin m
BY DEF Later, Issued, Client!WebClientAssumption, Client!Ids, Client!None

(* A call that goes on, but for what the browser now knows of its cookie.  *)
LEMMA GoodStays ==
  ASSUME NEW b, NEW o, NEW l, NEW p, NEW m, Later(b, o, l, p, m), Client(b)!WebClientAssumption, NEW k, NEW n,
         NEW q \in Client(b)!Call, Good(b, q, o, l, k), NEW w \in BOOLEAN,
         q.kind = "query" /\ ~w => ~q.switched /\ OwnedBy(b, n, q.by, p)
  PROVE  Good(b, [q EXCEPT !.switched = w], p, m, n)
<1> DEFINE r == [q EXCEPT !.switched = w]
<1>1. /\ r \in Client(b)!Call /\ r.kind = q.kind /\ r.stage = q.stage /\ r.by = q.by /\ r.token = q.token
      /\ r.cookie = q.cookie /\ r.grant = q.grant /\ r.reply = q.reply /\ r.switched = w
  BY DEF Client!Call
<1> HIDE DEF r
<1>2. /\ Issued(b, q.token, p) /\ Issued(b, q.cookie, p) /\ Issued(b, q.grant, p)
      /\ q.token = Client(b)!None \/ p[q.token] = o[q.token]
      /\ q.cookie = Client(b)!None \/ p[q.cookie] = o[q.cookie]
      /\ q.grant = Client(b)!None \/ p[q.grant] = o[q.grant]
      /\ q.cookie \notin l => q.cookie \notin m
  BY IssuedStays DEF Good
<1> QED
  BY <1>1, <1>2 DEF Good, Refreshing, OwnedBy

LEMMA GoodAsItIs ==
  ASSUME NEW b, NEW o, NEW l, NEW p, NEW m, Later(b, o, l, p, m), Client(b)!WebClientAssumption, NEW k, NEW n,
         NEW q \in Client(b)!Call, Good(b, q, o, l, k),
         q.kind = "query" /\ ~q.switched => OwnedBy(b, n, q.by, p)
  PROVE  Good(b, q, p, m, n)
<1>1. q.switched \in BOOLEAN /\ [q EXCEPT !.switched = q.switched] = q
  BY DEF Client!Call
<1>2. Good(b, [q EXCEPT !.switched = q.switched], p, m, n)
  BY <1>1, GoodStays
<1> QED
  BY <1>1, <1>2

(* A call that is answered, with whatever session is granted.              *)
LEMMA GoodAnswer ==
  ASSUME NEW b, NEW o, NEW l, NEW p, NEW m, Later(b, o, l, p, m), Client(b)!WebClientAssumption, NEW k, Issued(b, k, o),
         NEW q \in Client(b)!Call, Good(b, q, o, l, k), NEW reply \in Client(b)!Replies, NEW grant \in Client(b)!Ids \cup {Client(b)!None}, Issued(b, grant, p),
         grant # Client(b)!None <=> reply = "ok" /\ (Refreshing(q) \/ q.kind = "login"),
         q.kind = "logout" => reply # "unauthorized",
         Refreshing(q) /\ reply = "unauthorized" => q.cookie \notin m,
         q.kind = "profile" /\ ~Refreshing(q) /\ reply = "ok" => q.token # Client(b)!None,
         grant # Client(b)!None /\ Refreshing(q) => q.cookie # Client(b)!None /\ p[grant] = o[q.cookie]
  PROVE  Good(b, Answered(q, reply, grant), p, m, k)
<1> DEFINE r == Answered(q, reply, grant)
<1>1. /\ r \in Client(b)!Call /\ r.kind = q.kind /\ r.stage = q.stage /\ r.by = q.by /\ r.token = q.token
      /\ r.cookie = q.cookie /\ r.grant = grant /\ r.reply = reply /\ r.switched = q.switched
  BY DEF Client!Call, Answered
<1> HIDE DEF r
<1>2. /\ Issued(b, q.token, p) /\ Issued(b, q.cookie, p) /\ Issued(b, k, p)
      /\ q.token = Client(b)!None \/ p[q.token] = o[q.token]
      /\ q.cookie = Client(b)!None \/ p[q.cookie] = o[q.cookie]
      /\ k = Client(b)!None \/ p[k] = o[k]
  BY IssuedStays DEF Good
<1>3. Good(b, r, p, m, k)
  BY <1>1, <1>2 DEF Good, Refreshing, OwnedBy
<1> QED
  BY <1>3 DEF r

LEMMA AnsweredIs ==
  ASSUME NEW b, Client(b)!TypeOK, NEW c \in b.calls, clientCall[c].kind # "none", NEW reply \in Client(b)!Replies, NEW grant \in Client(b)!Ids \cup {Client(b)!None},
         Client(b)!Answer(c, reply, grant)
  PROVE  /\ clientCall' \in [b.calls -> Client(b)!Call \cup {Client(b)!Idle}]
         /\ clientCall'[c] = Answered(clientCall[c], reply, grant)
         /\ \A d \in b.calls \ {c} : clientCall'[d] = clientCall[d]
<1>1. clientCall[c] \in Client(b)!Call
  BY CallsAreTyped
<1>2. Answered(clientCall[c], reply, grant) \in Client(b)!Call
  BY <1>1 DEF Client!Call, Answered
<1>3. clientCall' = [clientCall EXCEPT ![c] = Answered(clientCall[c], reply, grant)]
  BY DEF Client!Answer, Answered
<1> QED
  BY <1>2, <1>3 DEF Client!TypeOK

LEMMA LeastNumber ==
  ASSUME NEW S \in SUBSET Nat, S # {}
  PROVE  \E k \in S : \A m \in S : k <= m
<1>1. PICK k \in S : \A m \in S : ~ (<<m, k>> \in OpToRel(<, Nat))
  BY NatLessThanWellFounded, WFMin
<1>2. \A m \in S : ~(m < k)
  BY <1>1 DEF OpToRel
<1> QED
  BY <1>2

LEMMA NextIdIsFree ==
  ASSUME NEW b, Client(b)!WebClientAssumption, Client(b)!TypeOK, \E r \in Client(b)!Ids : owner[r] = Nobody
  PROVE  Client(b)!NextId \in Client(b)!Ids /\ owner[Client(b)!NextId] = Nobody
<1> DEFINE S == {r \in Client(b)!Ids : owner[r] = Nobody}
<1>1. S \in SUBSET Nat /\ S # {}
  BY DEF Client!Ids, Client!WebClientAssumption
<1>2. PICK s \in S : \A m \in S : s <= m
  BY <1>1, LeastNumber
<1>3. s \in Client(b)!Ids /\ owner[s] = Nobody /\ \A r \in 1 .. s - 1 : owner[r] # Nobody
  BY <1>2 DEF Client!Ids, Client!WebClientAssumption
<1> QED
  BY <1>3 DEF Client!NextId

LEMMA IssueIs ==
  ASSUME NEW b, Client(b)!WebClientAssumption, ClientInv(b), NEW c \in b.calls, NEW u \in b.users, NEW replaced, Client(b)!Issue(c, u, replaced)
  PROVE  /\ Client(b)!NextId \in Client(b)!Ids /\ Client(b)!NextId # Client(b)!None /\ owner'[Client(b)!NextId] = u
         /\ Later(b, owner, live, owner', live') /\ live' = (live \ replaced) \cup {Client(b)!NextId}
         /\ Client(b)!Answer(c, "ok", Client(b)!NextId)
<1>0. Client(b)!TypeOK /\ \A s \in live : owner[s] \in b.users
  BY DEF ClientInv
<1>1. Client(b)!NextId \in Client(b)!Ids /\ owner[Client(b)!NextId] = Nobody
  BY <1>0, NextIdIsFree DEF Client!Issue
<1>2. owner' = [owner EXCEPT ![Client(b)!NextId] = u] /\ live' = (live \ replaced) \cup {Client(b)!NextId} /\ Client(b)!Answer(c, "ok", Client(b)!NextId)
  BY DEF Client!Issue
<1>3. Client(b)!NextId # Client(b)!None /\ u # Nobody
  BY <1>1 DEF Client!Ids, Client!None, Client!WebClientAssumption
<1>4. owner' \in [Client(b)!Ids -> b.users \cup {Nobody}] /\ owner'[Client(b)!NextId] = u /\ \A s \in Client(b)!Ids : s # Client(b)!NextId => owner'[s] = owner[s]
  BY <1>0, <1>1, <1>2 DEF Client!TypeOK
<1>5. Nobody \notin b.users /\ live \subseteq Client(b)!Ids
  BY <1>0 DEF Client!WebClientAssumption, Client!TypeOK
<1> QED
  BY <1>0, <1>1, <1>2, <1>3, <1>4, <1>5 DEF Later

LEMMA LaterTrivially ==
  ASSUME NEW b, ClientInv(b), Client(b)!WebClientAssumption, owner' = owner, live' \subseteq live
  PROVE  Later(b, owner, live, owner', live')
BY DEF Later, ClientInv, Client!TypeOK, Client!WebClientAssumption

(* Calls that are neither answered nor received.                           *)
LEMMA OtherCalls ==
  ASSUME NEW b, Client(b)!WebClientAssumption, ClientInv(b), Later(b, owner, live, owner', live'), cookie' = cookie,
         NEW d \in b.calls, clientCall'[d] = clientCall[d], clientCall[d].kind # "none"
  PROVE  Good(b, clientCall'[d], owner', live', cookie')
<1>1. clientCall[d] \in Client(b)!Call /\ Good(b, clientCall[d], owner, live, cookie) /\ Issued(b, cookie, owner)
  BY CallsAreTyped DEF ClientInv
<1>2. cookie = Client(b)!None \/ owner'[cookie] = owner[cookie]
  BY <1>1, IssuedStays
<1>3. clientCall[d].kind = "query" /\ ~clientCall[d].switched => OwnedBy(b, cookie, clientCall[d].by, owner')
  BY <1>1, <1>2 DEF Good, OwnedBy
<1> QED
  BY <1>1, <1>3, GoodAsItIs

(* Who answers leaves the rest of the client as it is.                     *)
LEMMA AnswerKeeps ==
  ASSUME NEW b, Client(b)!WebClientAssumption, ClientInv(b), Later(b, owner, live, owner', live'), NEW c \in b.calls, clientCall[c].kind # "none",
         NEW reply \in Client(b)!Replies, NEW grant \in Client(b)!Ids \cup {Client(b)!None}, Client(b)!Answer(c, reply, grant),
         Good(b, clientCall'[c], owner', live', cookie'),
         aged' \subseteq Client(b)!Ids, clientFaults' \in 0 .. b.faults, UNCHANGED <<cookie, Client(b)!tabVars, disturbed>>
  PROVE  ClientInv(b)'
<1>0. Client(b)!TypeOK
  BY DEF ClientInv
<1>1. /\ clientCall' \in [b.calls -> Client(b)!Call \cup {Client(b)!Idle}]
      /\ \A d \in b.calls \ {c} : clientCall'[d] = clientCall[d]
  BY <1>0, AnsweredIs
<1>2. Client(b)!TypeOK'
  BY <1>0, <1>1 DEF Client!TypeOK, Later, Client!tabVars
<1>3. Issued(b, cookie, owner') /\ \A t \in b.tabs : Issued(b, token[t], owner')
  BY IssuedStays DEF ClientInv
<1>4. cookie' = cookie /\ token' = token /\ clientUser' = clientUser /\ clientLoading' = clientLoading /\ disturbed' = disturbed
  BY DEF Client!tabVars
<1>5. ~disturbed' /\ cookie' \in live' => \E t \in b.tabs : clientLoading'[t] \/ clientUser'[t] # Nobody
  <2>1. cookie \in live' => cookie \in live
    BY IssuedStays DEF ClientInv
  <2> QED
    BY <1>4, <2>1 DEF ClientInv
<1>6. \A d \in b.calls : clientCall'[d].kind # "none" => Good(b, clientCall'[d], owner', live', cookie')
  BY <1>1, <1>4, OtherCalls
<1>7. \A s \in live' : owner'[s] \in b.users
  BY DEF Later
<1> QED
  BY <1>2, <1>3, <1>4, <1>5, <1>6, <1>7 DEF ClientInv, Issued, Good, OwnedBy, Refreshing, Client!Ids, Client!None

LEMMA ServeStep ==
  ASSUME NEW b, Client(b)!WebClientAssumption, ClientInv(b), NEW c \in b.calls, Client(b)!Serve(c)
  PROVE  ClientInv(b)'
<1> DEFINE q == clientCall[c]
<1>0. /\ q.kind # "none" /\ q \in Client(b)!Call /\ Good(b, q, owner, live, cookie) /\ Issued(b, cookie, owner) /\ Client(b)!TypeOK
      /\ cookie' = cookie /\ clientFaults' = clientFaults /\ UNCHANGED <<cookie, Client(b)!tabVars, disturbed>>
      /\ \A s \in live : owner[s] \in b.users
  BY CallsAreTyped DEF Client!Serve, Client!Busy, ClientInv
<1>t. aged \subseteq Client(b)!Ids /\ clientFaults \in 0 .. b.faults /\ Client(b)!None \notin Client(b)!Ids
  BY <1>0 DEF Client!TypeOK, Client!Ids, Client!None, Client!WebClientAssumption
<1>a. /\ \A reply \in Client(b)!Replies : reply \in {"waiting", "ok", "unauthorized", "failed"}
      /\ "ok" \in Client(b)!Replies /\ "unauthorized" \in Client(b)!Replies /\ Client(b)!None \in Client(b)!Ids \cup {Client(b)!None}
  BY DEF Client!Replies
<1>1. ASSUME Later(b, owner, live, owner', live'), NEW reply \in Client(b)!Replies, NEW grant \in Client(b)!Ids \cup {Client(b)!None}, Client(b)!Answer(c, reply, grant),
             Good(b, Answered(q, reply, grant), owner', live', cookie), aged' = aged
      PROVE  ClientInv(b)'
  <2>1. clientCall'[c] = Answered(q, reply, grant)
    <3>1. Client(b)!TypeOK /\ clientCall[c].kind # "none" /\ Client(b)!Answer(c, reply, grant)
      BY <1>0, <1>1
    <3> QED
      BY <3>1, AnsweredIs
  <2>2. Good(b, clientCall'[c], owner', live', cookie')
    BY <1>0, <1>1, <2>1
  <2> QED
    BY <1>0, <1>t, <1>1, <2>2, AnswerKeeps
<1>2. ASSUME NEW u \in b.users, NEW replaced, Client(b)!Issue(c, u, replaced), aged' = aged, Refreshing(q) \/ q.kind = "login",
             Refreshing(q) => q.cookie # Client(b)!None /\ u = owner[q.cookie]
      PROVE  ClientInv(b)'
  <2>1. /\ Client(b)!NextId \in Client(b)!Ids /\ Client(b)!NextId # Client(b)!None /\ owner'[Client(b)!NextId] = u
        /\ Later(b, owner, live, owner', live')
        /\ Client(b)!Answer(c, "ok", Client(b)!NextId)
    BY <1>2, IssueIs
  <2>2. Issued(b, Client(b)!NextId, owner')
    BY <2>1 DEF Issued
  <2>3. Good(b, Answered(q, "ok", Client(b)!NextId), owner', live', cookie)
    <3> HIDE DEF q
    <3>1. q.kind = "profile" /\ ~Refreshing(q) => FALSE
      BY <1>2
    <3> QED
      BY <1>0, <1>a, <1>2, <2>1, <2>2, <3>1, GoodAnswer
  <2> QED
    BY <1>1, <1>2, <1>a, <2>1, <2>3
<1>3. ASSUME NEW reply \in {"ok", "unauthorized"}, Client(b)!Answer(c, reply, Client(b)!None), owner' = owner, live' \subseteq live, aged' = aged,
             reply = "ok" => ~Refreshing(q) /\ q.kind # "login",
             q.kind = "logout" => reply # "unauthorized",
             Refreshing(q) /\ reply = "unauthorized" => q.cookie \notin live,
             q.kind = "profile" /\ ~Refreshing(q) /\ reply = "ok" => q.token # Client(b)!None
      PROVE  ClientInv(b)'
  <2>1. Later(b, owner, live, owner', live')
    BY <1>3, LaterTrivially
  <2>2. Issued(b, Client(b)!None, owner')
    BY DEF Issued
  <2>3. Good(b, Answered(q, reply, Client(b)!None), owner', live', cookie)
    <3> HIDE DEF q
    <3>1. reply \in Client(b)!Replies
      BY <1>3, <1>a
    <3> QED
      BY <1>0, <1>a, <1>3, <2>1, <2>2, <3>1, GoodAnswer
  <2> QED
    BY <1>1, <1>3, <1>a, <2>1, <2>3
<1>4. CASE Client(b)!AnswerRefresh(c)
  <2>1. Refreshing(q) /\ (q.kind # "logout") /\ aged' = aged
    BY <1>0, <1>4 DEF Client!AnswerRefresh, Client!Refreshes, Refreshing, Good
  <2>2. CASE q.cookie \in live /\ Client(b)!Issue(c, owner[q.cookie], {q.cookie})
    <3>1. owner[q.cookie] \in b.users /\ q.cookie # Client(b)!None
      BY <1>0, <1>t, <2>2 DEF Client!TypeOK
    <3> QED
      BY <1>2, <2>1, <2>2, <3>1
  <2>3. CASE q.cookie \notin live /\ Client(b)!Answer(c, "unauthorized", Client(b)!None) /\ UNCHANGED <<owner, live>>
    BY <1>3, <2>1, <2>3
  <2> QED
    BY <1>4, <2>2, <2>3 DEF Client!AnswerRefresh
<1>5. CASE Client(b)!AnswerLogin(c)
  <2>1. q.kind = "login" /\ ~Refreshing(q) /\ q.by \in b.users /\ aged' = aged
    BY <1>0, <1>5 DEF Client!AnswerLogin, Refreshing, Good
  <2>2. CASE Client(b)!Issue(c, q.by, {})
    BY <1>2, <2>1, <2>2
  <2>3. CASE Client(b)!Answer(c, "unauthorized", Client(b)!None) /\ UNCHANGED <<owner, live>>
    BY <1>3, <2>1, <2>3
  <2> QED
    BY <1>5, <2>2, <2>3 DEF Client!AnswerLogin
<1>6. CASE Client(b)!AnswerLogout(c)
  <2>1. q.kind = "logout" /\ ~Refreshing(q) /\ aged' = aged /\ owner' = owner /\ live' \subseteq live /\ Client(b)!Answer(c, "ok", Client(b)!None)
    BY <1>0, <1>6 DEF Client!AnswerLogout, Refreshing, Good
  <2> QED
    BY <1>3, <2>1
<1>7. CASE Client(b)!AnswerRequest(c)
  <2>1. q.kind \in {"query", "profile"} /\ ~Refreshing(q) /\ aged' = aged /\ owner' = owner /\ live' = live
    BY <1>7 DEF Client!AnswerRequest, Refreshing, Client!Refreshes, Client!serverVars
  <2>2. PICK reply \in {"ok", "unauthorized"} : Client(b)!Answer(c, reply, Client(b)!None) /\ (reply = "ok" => q.token # Client(b)!None)
    BY <1>7 DEF Client!AnswerRequest
  <2> QED
    BY <1>3, <2>1, <2>2
<1> QED
  BY <1>4, <1>5, <1>6, <1>7 DEF Client!Serve

LEMMA FailsStep ==
  ASSUME NEW b, Client(b)!WebClientAssumption, ClientInv(b), NEW c \in b.calls, Client(b)!Exhausted(c) \/ Client(b)!Lose(c)
  PROVE  ClientInv(b)'
<1> DEFINE q == clientCall[c]
<1>0. /\ q.kind # "none" /\ q \in Client(b)!Call /\ Good(b, q, owner, live, cookie) /\ Issued(b, cookie, owner) /\ Client(b)!TypeOK
      /\ UNCHANGED <<cookie, Client(b)!tabVars, disturbed>> /\ cookie' = cookie
      /\ owner' = owner /\ live' = live /\ aged' = aged /\ Client(b)!Answer(c, "failed", Client(b)!None)
  BY CallsAreTyped DEF Client!Exhausted, Client!Lose, Client!Busy, ClientInv, Client!serverVars
<1>1. aged' \subseteq Client(b)!Ids /\ clientFaults' \in 0 .. b.faults
  BY <1>0 DEF Client!TypeOK, Client!Exhausted, Client!Lose, Client!WebClientAssumption
<1>2. Later(b, owner, live, owner', live')
  BY <1>0, LaterTrivially
<1>3. Good(b, Answered(q, "failed", Client(b)!None), owner', live', cookie)
  <2>1. Issued(b, Client(b)!None, owner') /\ "failed" \in Client(b)!Replies /\ Client(b)!None \in Client(b)!Ids \cup {Client(b)!None}
    BY DEF Issued, Client!Replies
  <2> HIDE DEF q
  <2> QED
    BY <1>0, <1>2, <2>1, GoodAnswer
<1>4. clientCall'[c] = Answered(q, "failed", Client(b)!None)
  <2>1. "failed" \in Client(b)!Replies /\ Client(b)!None \in Client(b)!Ids \cup {Client(b)!None}
    BY DEF Client!Replies
  <2> QED
    <3>1. Client(b)!TypeOK /\ clientCall[c].kind # "none" /\ Client(b)!Answer(c, "failed", Client(b)!None)
      BY <1>0
    <3> QED
      BY <2>1, <3>1, AnsweredIs
<1>5. Good(b, clientCall'[c], owner', live', cookie')
  BY <1>0, <1>3, <1>4
<1>6. "failed" \in Client(b)!Replies /\ Client(b)!None \in Client(b)!Ids \cup {Client(b)!None}
  BY DEF Client!Replies
<1> QED
  BY <1>0, <1>1, <1>2, <1>5, <1>6, AnswerKeeps

LEMMA LaterItself ==
  ASSUME NEW b, ClientInv(b), Client(b)!WebClientAssumption
  PROVE  Later(b, owner, live, owner, live)
BY DEF Later, ClientInv, Client!TypeOK, Client!WebClientAssumption

LEMMA RequestIs ==
  ASSUME NEW b, Client(b)!WebClientAssumption, ClientInv(b), NEW kind \in Client(b)!Kinds, NEW t \in b.tabs, NEW by \in b.users \cup {Nobody},
         NEW withToken \in Client(b)!Ids \cup {Client(b)!None}, Issued(b, withToken, owner), kind = "login" => by \in b.users
  PROVE  Client(b)!Request(kind, t, by, withToken) \in Client(b)!Call /\ Good(b, Client(b)!Request(kind, t, by, withToken), owner, live, cookie)
<1> DEFINE q == Client(b)!Request(kind, t, by, withToken)
<1>1. cookie \in Client(b)!Ids \cup {Client(b)!None} /\ Issued(b, cookie, owner)
  BY DEF ClientInv, Client!TypeOK
<1>2. q \in Client(b)!Call
  BY <1>1 DEF Client!Call, Client!Request, Client!Stages, Client!Replies
<1>3. /\ q.kind = kind /\ q.by = by /\ q.stage = "sent" /\ q.token = withToken /\ q.cookie = cookie
      /\ q.reply = "waiting" /\ q.grant = Client(b)!None /\ q.switched = (kind = "query" /\ cookie # Client(b)!None /\ owner[cookie] # by)
  BY DEF Client!Request
<1> HIDE DEF q
<1>4. Good(b, q, owner, live, cookie)
  BY <1>1, <1>3 DEF Good, Refreshing, OwnedBy, Issued
<1> QED
  BY <1>2, <1>4 DEF q

LEMMA SentStep ==
  ASSUME NEW b, Client(b)!WebClientAssumption, ClientInv(b), NEW c \in b.calls, NEW q \in Client(b)!Call, Good(b, q, owner, live, cookie), Client(b)!Send(c, q)
  PROVE  ClientInv(b)'
<1>1. /\ clientCall' = [clientCall EXCEPT ![c] = q] /\ owner' = owner /\ live' = live /\ aged' = aged /\ cookie' = cookie
      /\ token' = token /\ clientUser' = clientUser /\ clientLoading' = clientLoading /\ disturbed' = disturbed /\ clientFaults' = clientFaults
  BY DEF Client!Send, Client!serverVars, Client!tabVars
<1>2. Client(b)!TypeOK'
  BY <1>1 DEF ClientInv, Client!TypeOK
<1>3. \A d \in b.calls : clientCall'[d].kind # "none" => Good(b, clientCall'[d], owner, live, cookie)
  BY <1>1 DEF ClientInv, Client!TypeOK
<1> QED
  BY <1>1, <1>2, <1>3 DEF ClientInv, Issued, Good, OwnedBy, Refreshing, Client!Ids, Client!None

LEMMA AskStep ==
  ASSUME NEW b, Client(b)!WebClientAssumption, ClientInv(b), NEW c \in b.calls, NEW t \in b.tabs,
         Client(b)!Boot(c, t) \/ Client(b)!Query(c, t) \/ Client(b)!UpdateProfile(c, t) \/ Client(b)!Logout(c, t) \/ \E u \in b.users : Client(b)!Login(c, t, u)
  PROVE  ClientInv(b)'
<1>1. /\ {"query", "profile", "boot", "login", "logout"} = Client(b)!Kinds
      /\ Client(b)!None \in Client(b)!Ids \cup {Client(b)!None} /\ Issued(b, Client(b)!None, owner) /\ Nobody \in b.users \cup {Nobody}
      /\ token[t] \in Client(b)!Ids \cup {Client(b)!None} /\ Issued(b, token[t], owner) /\ clientUser[t] \in b.users \cup {Nobody}
  BY DEF Client!Kinds, Issued, ClientInv, Client!TypeOK
<1>2. PICK kind \in Client(b)!Kinds, by \in b.users \cup {Nobody}, withToken \in Client(b)!Ids \cup {Client(b)!None} :
        Client(b)!Send(c, Client(b)!Request(kind, t, by, withToken)) /\ Issued(b, withToken, owner) /\ (kind = "login" => by \in b.users)
  <2>1. CASE Client(b)!Boot(c, t)
    BY <1>1, <2>1 DEF Client!Boot
  <2>2. CASE Client(b)!Query(c, t)
    BY <1>1, <2>2 DEF Client!Query
  <2>3. CASE Client(b)!UpdateProfile(c, t)
    BY <1>1, <2>3 DEF Client!UpdateProfile
  <2>4. CASE Client(b)!Logout(c, t)
    BY <1>1, <2>4 DEF Client!Logout
  <2>5. CASE \E u \in b.users : Client(b)!Login(c, t, u)
    BY <1>1, <2>5 DEF Client!Login
  <2> QED
    BY <2>1, <2>2, <2>3, <2>4, <2>5
<1>3. Client(b)!Request(kind, t, by, withToken) \in Client(b)!Call /\ Good(b, Client(b)!Request(kind, t, by, withToken), owner, live, cookie)
  BY <1>2, RequestIs
<1> QED
  BY <1>2, <1>3, SentStep

LEMMA ReloadStep ==
  ASSUME NEW b, Client(b)!WebClientAssumption, ClientInv(b), NEW t \in b.tabs, Client(b)!Reload(t)
  PROVE  ClientInv(b)'
<1>1. /\ owner' = owner /\ live' = live /\ aged' = aged /\ cookie' = cookie
      /\ token' = [token EXCEPT ![t] = Client(b)!None] /\ clientUser' = [clientUser EXCEPT ![t] = Nobody]
      /\ clientLoading' = [clientLoading EXCEPT ![t] = TRUE]
      /\ clientCall' = [c \in b.calls |-> IF Client(b)!Busy(c) /\ clientCall[c].tab = t THEN Client(b)!Idle ELSE clientCall[c]]
      /\ disturbed' \in {disturbed, TRUE}
  BY DEF Client!Reload, Client!serverVars
<1>2. clientFaults' \in 0 .. b.faults
  BY DEF Client!Reload, ClientInv, Client!TypeOK, Client!WebClientAssumption
<1>3. Client(b)!TypeOK'
  BY <1>1, <1>2 DEF ClientInv, Client!TypeOK
<1>4. \A d \in b.calls : clientCall'[d].kind # "none" => Good(b, clientCall'[d], owner, live, cookie)
  BY <1>1 DEF ClientInv, Client!Idle
<1>5. \A s \in b.tabs : Issued(b, token'[s], owner)
  BY <1>1 DEF ClientInv, Client!TypeOK, Issued
<1>6. clientLoading'[t]
  BY <1>1 DEF ClientInv, Client!TypeOK
<1> QED
  BY <1>1, <1>3, <1>4, <1>5, <1>6, PartsOfClientInv DEF ClientInv

LEMMA ElsewhereStep ==
  ASSUME NEW b, Client(b)!WebClientAssumption, ClientInv(b), NEW s \in Client(b)!Ids, Client(b)!Age(s) \/ Client(b)!Revoke(s)
  PROVE  ClientInv(b)'
<1>1. /\ owner' = owner /\ live' \subseteq live /\ aged' \subseteq Client(b)!Ids /\ cookie' = cookie
      /\ token' = token /\ clientUser' = clientUser /\ clientLoading' = clientLoading /\ clientCall' = clientCall /\ disturbed' = disturbed /\ clientFaults' = clientFaults
  BY DEF Client!Age, Client!Revoke, Client!tabVars, ClientInv, Client!TypeOK
<1>2. Later(b, owner, live, owner', live')
  BY <1>1, LaterTrivially
<1>3. \A d \in b.calls : clientCall'[d].kind # "none" => Good(b, clientCall'[d], owner', live', cookie')
  BY <1>1, <1>2, OtherCalls
<1>4. Client(b)!TypeOK'
  BY <1>1 DEF ClientInv, Client!TypeOK
<1> QED
  BY <1>1, <1>3, <1>4 DEF ClientInv, Issued, Good, OwnedBy, Refreshing, Client!Ids, Client!None

LEMMA ClientStarts ==
  ASSUME NEW b, Client(b)!WebClientAssumption, Client(b)!Init
  PROVE  ClientInv(b)
<1>1. owner \in [Client(b)!Ids -> b.users \cup {Nobody}] /\ clientCall \in [b.calls -> Client(b)!Call \cup {Client(b)!Idle}]
  BY DEF Client!Init
<1>2. clientLoading \in [b.tabs -> BOOLEAN] /\ disturbed \in BOOLEAN
  BY DEF Client!Init
<1>3. live \subseteq Client(b)!Ids /\ aged \subseteq Client(b)!Ids /\ clientFaults \in 0 .. b.faults
  BY DEF Client!Init, Client!WebClientAssumption
<1>4. /\ cookie \in Client(b)!Ids \cup {Client(b)!None} /\ token \in [b.tabs -> Client(b)!Ids \cup {Client(b)!None}] /\ clientUser \in [b.tabs -> b.users \cup {Nobody}]
  BY DEF Client!Init
<1>5. Client(b)!TypeOK
  BY <1>1, <1>2, <1>3, <1>4 DEF Client!TypeOK
<1> QED
  BY <1>5 DEF ClientInv, Client!Init, Issued, Client!Idle

(* Who receives an answer keeps the rest of the client in order, if it     *)
(* keeps its own call and its own tab in order.                            *)
LEMMA ReceiveKeeps ==
  ASSUME NEW b, Client(b)!WebClientAssumption, ClientInv(b), NEW c \in b.calls, clientCall[c].kind # "none",
         UNCHANGED <<Client(b)!serverVars, clientFaults>>, Client(b)!StoreCookie(c),
         token' \in [b.tabs -> Client(b)!Ids \cup {Client(b)!None}], clientUser' \in [b.tabs -> b.users \cup {Nobody}], clientLoading' \in [b.tabs -> BOOLEAN],
         \A t \in b.tabs : Issued(b, token'[t], owner),
         clientCall' \in [b.calls -> Client(b)!Call \cup {Client(b)!Idle}],
         \A d \in b.calls \ {c} : clientCall'[d] = Client(b)!Switched(c)[d],
         clientCall'[c] = Client(b)!Idle \/ Good(b, clientCall'[c], owner, live, cookie'),
         ~disturbed' /\ cookie' \in live => \E t \in b.tabs : clientLoading'[t] \/ clientUser'[t] # Nobody
  PROVE  ClientInv(b)'
<1>1. /\ Client(b)!TypeOK /\ owner' = owner /\ live' = live /\ aged' = aged /\ clientFaults' = clientFaults
      /\ clientCall[c] \in Client(b)!Call /\ Good(b, clientCall[c], owner, live, cookie) /\ Issued(b, cookie, owner)
      /\ \A s \in live : owner[s] \in b.users
  BY CallsAreTyped DEF ClientInv, Client!serverVars
<1>2. /\ cookie' = IF clientCall[c].grant # Client(b)!None THEN clientCall[c].grant
                   ELSE IF clientCall[c].kind = "logout" /\ clientCall[c].reply = "ok" THEN Client(b)!None ELSE cookie
      /\ disturbed' \in BOOLEAN
  BY <1>1 DEF Client!StoreCookie, Client!TypeOK
<1>3. cookie' \in Client(b)!Ids \cup {Client(b)!None} /\ Issued(b, cookie', owner)
  BY <1>1, <1>2 DEF Client!TypeOK, Client!Call, Good, Issued
<1>4. Client(b)!TypeOK'
  BY <1>1, <1>2, <1>3 DEF Client!TypeOK
<1>5. ASSUME NEW d \in b.calls, clientCall'[d].kind # "none"
      PROVE  Good(b, clientCall'[d], owner, live, cookie')
  <2>1. CASE d = c
    BY <1>5, <2>1 DEF Client!Idle
  <2>2. CASE d # c
    <3>1. clientCall'[d] = IF /\ clientCall[d].kind = "query" /\ clientCall[c].grant # Client(b)!None /\ owner[clientCall[c].grant] # clientCall[d].by
                     THEN [clientCall[d] EXCEPT !.switched = TRUE] ELSE clientCall[d]
      BY <2>2 DEF Client!Switched
    <3>2. clientCall[d].kind # "none"
      BY <1>5, <3>1
    <3>3. clientCall[d] \in Client(b)!Call /\ Good(b, clientCall[d], owner, live, cookie)
      BY <3>2, CallsAreTyped DEF ClientInv
    <3>4. Later(b, owner, live, owner, live)
      BY LaterItself
    <3>5. CASE clientCall[d].kind = "query" /\ clientCall[c].grant # Client(b)!None /\ owner[clientCall[c].grant] # clientCall[d].by
      <4>1. Good(b, [clientCall[d] EXCEPT !.switched = TRUE], owner, live, cookie')
        BY <3>3, <3>4, GoodStays
      <4> QED
        BY <3>1, <3>5, <4>1
    <3>6. CASE ~(clientCall[d].kind = "query" /\ clientCall[c].grant # Client(b)!None /\ owner[clientCall[c].grant] # clientCall[d].by)
      <4>1. clientCall[d].kind = "query" /\ ~clientCall[d].switched => OwnedBy(b, cookie', clientCall[d].by, owner)
        BY <1>2, <3>3, <3>6 DEF Good, OwnedBy
      <4>2. Good(b, clientCall[d], owner, live, cookie')
        BY <3>3, <3>4, <4>1, GoodAsItIs
      <4> QED
        BY <3>1, <3>6, <4>2
    <3> QED
      BY <3>5, <3>6
  <2> QED
    BY <2>1, <2>2
<1> QED
  BY <1>1, <1>3, <1>4, <1>5, PartsOfClientInv DEF ClientInv

LEMMA SwitchedIs ==
  ASSUME NEW b, Client(b)!TypeOK, NEW c \in b.calls
  PROVE  Client(b)!Switched(c) \in [b.calls -> Client(b)!Call \cup {Client(b)!Idle}] /\ Client(b)!Switched(c)[c] = clientCall[c]
<1>1. ASSUME NEW d \in b.calls, clientCall[d].kind = "query"
      PROVE  [clientCall[d] EXCEPT !.switched = TRUE] \in Client(b)!Call
  <2>1. clientCall[d] \in Client(b)!Call
    BY <1>1, CallsAreTyped
  <2> QED
    BY <2>1 DEF Client!Call
<1> QED
  BY <1>1 DEF Client!TypeOK, Client!Switched

LEMMA EndIs ==
  ASSUME NEW b, Client(b)!TypeOK, NEW c \in b.calls, Client(b)!End(c)
  PROVE  /\ clientCall' \in [b.calls -> Client(b)!Call \cup {Client(b)!Idle}] /\ clientCall'[c] = Client(b)!Idle
         /\ \A d \in b.calls \ {c} : clientCall'[d] = Client(b)!Switched(c)[d]
BY SwitchedIs DEF Client!End

(* What the tab shows after a refresh is the owner of a session, or nobody *)
(* after one that found none or was not answered.                          *)
LEMMA RefreshSessionIs ==
  ASSUME NEW b, Client(b)!WebClientAssumption, ClientInv(b), NEW c \in b.calls, clientCall[c].kind # "none", clientCall[c].reply # "waiting",
         NEW t \in b.tabs, Refreshing(clientCall[c]), clientCall[c].kind # "logout", Client(b)!RefreshSession(c, t), Client(b)!StoreCookie(c)
  PROVE  /\ token' \in [b.tabs -> Client(b)!Ids \cup {Client(b)!None}] /\ clientUser' \in [b.tabs -> b.users \cup {Nobody}]
         /\ \A s \in b.tabs : Issued(b, token'[s], owner)
         /\ ~disturbed' /\ cookie' \in live => clientUser'[t] # Nobody
<1>1. /\ clientCall[c] \in Client(b)!Call /\ Good(b, clientCall[c], owner, live, cookie) /\ Client(b)!TypeOK /\ Nobody \notin b.users
      /\ \A s \in b.tabs : Issued(b, token[s], owner)
  BY CallsAreTyped DEF ClientInv, Client!WebClientAssumption
<1>2. CASE clientCall[c].reply = "ok"
  <2>1. clientCall[c].grant \in Client(b)!Ids /\ owner[clientCall[c].grant] \in b.users
    BY <1>1, <1>2 DEF Good, Issued
  <2>2. token' = [token EXCEPT ![t] = clientCall[c].grant] /\ clientUser' = [clientUser EXCEPT ![t] = owner[clientCall[c].grant]]
    BY <1>2 DEF Client!RefreshSession, Client!applyAuthPayload
  <2> QED
    BY <1>1, <2>1, <2>2 DEF Client!TypeOK, Issued
<1>3. CASE clientCall[c].reply # "ok"
  <2>1. token' = [token EXCEPT ![t] = Client(b)!None] /\ clientUser' = [clientUser EXCEPT ![t] = Nobody]
    BY <1>3 DEF Client!RefreshSession, Client!SignOut
  <2>2. ~disturbed' => clientCall[c].reply = "unauthorized" /\ clientCall[c].cookie = cookie
    BY <1>1, <1>3 DEF Client!StoreCookie, Client!Refreshes, Refreshing, Client!Call, Client!Replies
  <2>3. clientCall[c].grant = Client(b)!None /\ cookie' = cookie
    BY <1>1, <1>3 DEF Good, Client!StoreCookie
  <2>4. ~disturbed' => cookie' \notin live
    BY <1>1, <2>2, <2>3 DEF Good
  <2> QED
    BY <1>1, <2>1, <2>4 DEF Client!TypeOK, Issued
<1> QED
  BY <1>2, <1>3

LEMMA ReceiveStep ==
  ASSUME NEW b, Client(b)!WebClientAssumption, ClientInv(b), NEW c \in b.calls, Client(b)!Receive(c)
  PROVE  ClientInv(b)'
<1> DEFINE q == clientCall[c]
           t == q.tab
<1>1. /\ q.kind # "none" /\ q.reply # "waiting" /\ Client(b)!StoreCookie(c) /\ UNCHANGED <<Client(b)!serverVars, clientFaults>>
      /\ q \in Client(b)!Call /\ Good(b, q, owner, live, cookie) /\ Client(b)!TypeOK /\ Nobody \notin b.users /\ t \in b.tabs
      /\ \A s \in b.tabs : Issued(b, token[s], owner)
      /\ ~disturbed /\ cookie \in live => \E s \in b.tabs : clientLoading[s] \/ clientUser[s] # Nobody
  BY CallsAreTyped DEF Client!Receive, Client!Busy, ClientInv, Client!WebClientAssumption, Client!Call
<1>2. ~disturbed' => ~disturbed /\ q.reply # "failed"
  BY <1>1 DEF Client!StoreCookie, Client!TypeOK
<1>3. cookie' = IF q.grant # Client(b)!None THEN q.grant
                ELSE IF q.kind = "logout" /\ q.reply = "ok" THEN Client(b)!None ELSE cookie
  BY <1>1 DEF Client!StoreCookie
<1>4. Client(b)!None \notin live
  BY <1>1 DEF Client!TypeOK, Client!Ids, Client!None, Client!WebClientAssumption
<1>5. CASE Client(b)!ReceiveBoot(c, t)
  <2>1. q.kind = "boot" /\ Refreshing(q) /\ Client(b)!RefreshSession(c, t) /\ clientLoading' = [clientLoading EXCEPT ![t] = FALSE] /\ Client(b)!End(c)
    BY <1>5 DEF Client!ReceiveBoot, Refreshing
  <2>2. /\ token' \in [b.tabs -> Client(b)!Ids \cup {Client(b)!None}] /\ clientUser' \in [b.tabs -> b.users \cup {Nobody}]
        /\ \A s \in b.tabs : Issued(b, token'[s], owner)
        /\ ~disturbed' /\ cookie' \in live => clientUser'[t] # Nobody
    <3>1. q.kind # "logout"
      BY <2>1
    <3> QED
      BY <1>1, <2>1, <3>1, RefreshSessionIs
  <2>3. clientLoading' \in [b.tabs -> BOOLEAN]
    BY <1>1, <2>1 DEF Client!TypeOK
  <2> QED
    BY <1>1, <2>1, <2>2, <2>3, EndIs, ReceiveKeeps
<1>6. CASE Client(b)!ReceiveLogin(c, t)
  <2>1. q.kind = "login" /\ ~Refreshing(q) /\ clientLoading' = clientLoading /\ Client(b)!End(c)
    BY <1>1, <1>6 DEF Client!ReceiveLogin, Refreshing, Good
  <2>2. CASE q.reply = "ok"
    <3>1. q.grant \in Client(b)!Ids /\ owner[q.grant] \in b.users
      BY <1>1, <2>1, <2>2 DEF Good, Issued
    <3>2. token' = [token EXCEPT ![t] = q.grant] /\ clientUser' = [clientUser EXCEPT ![t] = owner[q.grant]]
      BY <1>6, <2>2 DEF Client!ReceiveLogin, Client!applyAuthPayload
    <3>3. /\ token' \in [b.tabs -> Client(b)!Ids \cup {Client(b)!None}] /\ clientUser' \in [b.tabs -> b.users \cup {Nobody}]
          /\ \A s \in b.tabs : Issued(b, token'[s], owner)
          /\ clientUser'[t] # Nobody /\ clientLoading' \in [b.tabs -> BOOLEAN]
      BY <1>1, <2>1, <3>1, <3>2 DEF Client!TypeOK, Issued
    <3> QED
      BY <1>1, <2>1, <3>3, EndIs, ReceiveKeeps
  <2>3. CASE q.reply # "ok"
    <3>1. token' = token /\ clientUser' = clientUser /\ q.grant = Client(b)!None
      BY <1>1, <1>6, <2>1, <2>3 DEF Client!ReceiveLogin, Good
    <3>2. cookie' = cookie
      BY <1>3, <2>1, <3>1
    <3>3. /\ token' \in [b.tabs -> Client(b)!Ids \cup {Client(b)!None}] /\ clientUser' \in [b.tabs -> b.users \cup {Nobody}]
          /\ clientLoading' \in [b.tabs -> BOOLEAN]
      BY <1>1, <2>1, <3>1 DEF Client!TypeOK
    <3> QED
      BY <1>1, <1>2, <2>1, <3>1, <3>2, <3>3, EndIs, ReceiveKeeps
  <2> QED
    BY <2>2, <2>3
<1>7. CASE Client(b)!ReceiveLogout(c, t)
  <2>1. q.kind = "logout" /\ ~Refreshing(q) /\ clientLoading' = clientLoading /\ Client(b)!End(c)
        /\ token' = [token EXCEPT ![t] = Client(b)!None] /\ clientUser' = [clientUser EXCEPT ![t] = Nobody]
    BY <1>1, <1>7 DEF Client!ReceiveLogout, Client!SignOut, Refreshing, Good
  <2>2. ~disturbed' => q.reply = "ok"
    BY <1>1, <1>2, <2>1 DEF Good, Client!Call, Client!Replies
  <2>3. ~disturbed' => cookie' \notin live
    BY <1>1, <1>3, <1>4, <2>1, <2>2 DEF Good
  <2>4. /\ token' \in [b.tabs -> Client(b)!Ids \cup {Client(b)!None}] /\ clientUser' \in [b.tabs -> b.users \cup {Nobody}]
        /\ \A s \in b.tabs : Issued(b, token'[s], owner)
        /\ clientLoading' \in [b.tabs -> BOOLEAN]
    BY <1>1, <2>1 DEF Client!TypeOK, Issued
  <2> QED
    BY <1>1, <2>1, <2>3, <2>4, EndIs, ReceiveKeeps
<1>8. CASE Client(b)!ReceiveRequest(c, t)
  <2>1. q.kind \in {"query", "profile"}
    BY <1>8 DEF Client!ReceiveRequest
  <2>2. CASE Client(b)!StartRefresh(c)
    <3>1. /\ q.stage = "sent" /\ q.reply = "unauthorized" /\ token' = token /\ clientUser' = clientUser /\ clientLoading' = clientLoading
          /\ clientCall' = [clientCall EXCEPT ![c] = [q EXCEPT !.stage = "refreshing", !.reply = "waiting", !.cookie = cookie]]
      BY <2>2 DEF Client!StartRefresh, Client!tabVars
    <3> DEFINE r == [q EXCEPT !.stage = "refreshing", !.reply = "waiting", !.cookie = cookie]
    <3>2. /\ r \in Client(b)!Call /\ r.kind = q.kind /\ r.stage = "refreshing" /\ r.by = q.by /\ r.token = q.token
          /\ r.cookie = cookie /\ r.grant = q.grant /\ r.reply = "waiting" /\ r.switched = q.switched
      BY <1>1 DEF Client!Call, Client!Stages, Client!Replies, Client!TypeOK
    <3>3. q.grant = Client(b)!None
      BY <1>1, <3>1 DEF Good
    <3>4. cookie' = cookie /\ Issued(b, cookie, owner)
      BY <1>3, <2>1, <3>3 DEF ClientInv
    <3>5. Good(b, r, owner, live, cookie)
      <4> HIDE DEF r, q
      <4> QED
        BY <1>1, <2>1, <3>1, <3>2, <3>3, <3>4 DEF Good, Refreshing, OwnedBy, Issued
    <3>6. /\ clientCall' \in [b.calls -> Client(b)!Call \cup {Client(b)!Idle}] /\ clientCall'[c] = r
          /\ \A d \in b.calls \ {c} : clientCall'[d] = clientCall[d]
      BY <1>1, <3>1, <3>2 DEF Client!TypeOK
    <3>7. \A d \in b.calls \ {c} : Client(b)!Switched(c)[d] = clientCall[d]
      BY <3>3 DEF Client!Switched
    <3>8. /\ token' \in [b.tabs -> Client(b)!Ids \cup {Client(b)!None}] /\ clientUser' \in [b.tabs -> b.users \cup {Nobody}]
          /\ clientLoading' \in [b.tabs -> BOOLEAN]
      BY <1>1, <3>1 DEF Client!TypeOK
    <3>9. Good(b, clientCall'[c], owner, live, cookie') /\ \A d \in b.calls \ {c} : clientCall'[d] = Client(b)!Switched(c)[d]
      BY <3>4, <3>5, <3>6, <3>7
    <3> QED
      BY <1>1, <1>2, <3>1, <3>4, <3>6, <3>8, <3>9, ReceiveKeeps
  <2>3. CASE Client(b)!Retry(c, t)
    <3>1. q.stage = "refreshing" /\ Refreshing(q) /\ q.kind # "logout" /\ Client(b)!RefreshSession(c, t) /\ clientLoading' = clientLoading
      BY <2>1, <2>3 DEF Client!Retry, Refreshing
    <3>2. /\ token' \in [b.tabs -> Client(b)!Ids \cup {Client(b)!None}] /\ clientUser' \in [b.tabs -> b.users \cup {Nobody}]
          /\ \A s \in b.tabs : Issued(b, token'[s], owner)
          /\ ~disturbed' /\ cookie' \in live => clientUser'[t] # Nobody
      BY <1>1, <3>1, RefreshSessionIs
    <3>3. clientLoading' \in [b.tabs -> BOOLEAN]
      BY <1>1, <3>1 DEF Client!TypeOK
    <3>4. CASE q.reply = "ok"
      <4> DEFINE r == [q EXCEPT !.stage = "resent", !.reply = "waiting", !.token = q.grant, !.grant = Client(b)!None]
      <4>1. Client(b)!Switched(c)[c] = q
        BY DEF Client!Switched
      <4>2. clientCall' = [Client(b)!Switched(c) EXCEPT ![c] = r]
        BY <2>3, <3>4, <4>1 DEF Client!Retry, Client!Switched
      <4>3. /\ r \in Client(b)!Call /\ r.kind = q.kind /\ r.stage = "resent" /\ r.by = q.by /\ r.token = q.grant
            /\ r.cookie = q.cookie /\ r.grant = Client(b)!None /\ r.reply = "waiting" /\ r.switched = q.switched
        BY <1>1 DEF Client!Call, Client!Stages, Client!Replies, Client!TypeOK
      <4>4. q.grant # Client(b)!None /\ cookie' = q.grant
        BY <1>1, <1>3, <3>1, <3>4 DEF Good
      <4>5. Good(b, r, owner, live, cookie')
        <5> HIDE DEF r, q
        <5> QED
          BY <1>1, <2>1, <3>1, <3>4, <4>3, <4>4 DEF Good, Refreshing, OwnedBy, Issued
      <4>6. Client(b)!Switched(c) \in [b.calls -> Client(b)!Call \cup {Client(b)!Idle}]
        BY <1>1, SwitchedIs
      <4>7. /\ clientCall' \in [b.calls -> Client(b)!Call \cup {Client(b)!Idle}] /\ clientCall'[c] = r
            /\ \A d \in b.calls \ {c} : clientCall'[d] = Client(b)!Switched(c)[d]
        BY <4>2, <4>3, <4>6
      <4>8. Good(b, clientCall'[c], owner, live, cookie')
        BY <4>5, <4>7
      <4> QED
        BY <1>1, <3>2, <3>3, <4>7, <4>8, ReceiveKeeps
    <3>5. CASE q.reply # "ok"
      <4>1. Client(b)!End(c)
        BY <2>3, <3>5 DEF Client!Retry
      <4> QED
        BY <1>1, <3>2, <3>3, <4>1, EndIs, ReceiveKeeps
    <3> QED
      BY <3>4, <3>5
  <2>4. CASE Client(b)!Finish(c, t)
    <3>1. /\ q.stage # "refreshing" /\ Client(b)!End(c) /\ token' = token /\ clientLoading' = clientLoading
          /\ clientUser' = IF q.kind = "profile" /\ q.reply = "ok" THEN [clientUser EXCEPT ![t] = owner[q.token]] ELSE clientUser
      BY <2>4 DEF Client!Finish
    <3>2. ~Refreshing(q) /\ q.grant = Client(b)!None /\ cookie' = cookie
      BY <1>1, <1>3, <2>1, <3>1 DEF Good, Refreshing
    <3>3. q.kind = "profile" /\ q.reply = "ok" => owner[q.token] \in b.users
      BY <1>1, <3>2 DEF Good, Issued
    <3>4. /\ token' \in [b.tabs -> Client(b)!Ids \cup {Client(b)!None}] /\ clientUser' \in [b.tabs -> b.users \cup {Nobody}]
          /\ clientLoading' \in [b.tabs -> BOOLEAN]
          /\ \A s \in b.tabs : clientUser[s] # Nobody => clientUser'[s] # Nobody
      BY <1>1, <3>1, <3>3 DEF Client!TypeOK
    <3> QED
      BY <1>1, <1>2, <3>1, <3>2, <3>4, EndIs, ReceiveKeeps
  <2> QED
    BY <1>8, <2>2, <2>3, <2>4 DEF Client!ReceiveRequest
<1> QED
  BY <1>1, <1>5, <1>6, <1>7, <1>8 DEF Client!Receive

LEMMA ClientSteps ==
  ASSUME NEW b, Client(b)!WebClientAssumption, ClientInv(b), Client(b)!Next
  PROVE  ClientInv(b)'
<1>1. CASE \E c \in b.calls, t \in b.tabs : Client(b)!Boot(c, t) \/ Client(b)!Query(c, t) \/ Client(b)!UpdateProfile(c, t) \/ Client(b)!Logout(c, t)
  <2>1. PICK c \in b.calls, t \in b.tabs : Client(b)!Boot(c, t) \/ Client(b)!Query(c, t) \/ Client(b)!UpdateProfile(c, t) \/ Client(b)!Logout(c, t)
    BY <1>1
  <2> QED
    BY <2>1, AskStep
<1>2. CASE \E c \in b.calls, t \in b.tabs, u \in b.users : Client(b)!Login(c, t, u)
  BY <1>2, AskStep
<1>3. CASE \E t \in b.tabs : Client(b)!Reload(t)
  BY <1>3, ReloadStep
<1>4. CASE \E c \in b.calls : Client(b)!Serve(c) \/ Client(b)!Exhausted(c) \/ Client(b)!Lose(c) \/ Client(b)!Receive(c)
  BY <1>4, ServeStep, FailsStep, ReceiveStep
<1>5. CASE \E s \in Client(b)!Ids : Client(b)!Age(s) \/ Client(b)!Revoke(s)
  BY <1>5, ElsewhereStep
<1> QED
  BY <1>1, <1>2, <1>3, <1>4, <1>5 DEF Client!Next

LEMMA ClientStands ==
  ASSUME NEW b, ClientInv(b), UNCHANGED Client(b)!vars
  PROVE  ClientInv(b)'
BY DEF Client!vars, Client!serverVars, Client!tabVars, ClientInv, Client!TypeOK, Issued, Good, OwnedBy, Refreshing, Client!Ids

LEMMA ClientAgrees ==
  ASSUME NEW b, Client(b)!WebClientAssumption, ClientInv(b)
  PROVE  Client(b)!SignedOutMeansNoSession /\ Client(b)!RetriedForItsUser
<1>1. Client(b)!SignedOutMeansNoSession
  BY DEF ClientInv, Client!SignedOutMeansNoSession
<1>2. Client(b)!RetriedForItsUser
  BY CallsAreTyped DEF ClientInv, Client!RetriedForItsUser, Good
<1> QED
  BY <1>1, <1>2

LEMMA DropsAreCrossings ==
  ASSUME NEW b, Client(b)!WebClientAssumption, ClientInv(b), Client(b)!Next
  PROVE  Client(b)!DropsOnlyByCrossing
<1> SUFFICES ASSUME NEW t \in b.tabs, clientUser[t] # Nobody, clientUser'[t] = Nobody, ~clientLoading'[t], cookie \in live, cookie' = cookie
             PROVE  \E c \in b.calls : /\ clientCall[c].kind # "none" /\ clientCall[c].tab = t /\ clientCall[c] # clientCall'[c]
                                       /\ clientCall[c].reply = "failed" \/ clientCall[c].cookie # cookie
  BY DEF Client!DropsOnlyByCrossing, Client!Drops
<1>0. Client(b)!TypeOK /\ Nobody \notin b.users /\ Client(b)!None \notin Client(b)!Ids
  BY DEF ClientInv, Client!WebClientAssumption, Client!Ids, Client!None
<1>1. CASE \E c \in b.calls, s \in b.tabs : Client(b)!Boot(c, s) \/ Client(b)!Query(c, s) \/ Client(b)!UpdateProfile(c, s) \/ Client(b)!Logout(c, s)
  BY <1>1 DEF Client!Boot, Client!Query, Client!UpdateProfile, Client!Logout, Client!Send, Client!tabVars
<1>2. CASE \E c \in b.calls, s \in b.tabs, u \in b.users : Client(b)!Login(c, s, u)
  BY <1>2 DEF Client!Login, Client!Send, Client!tabVars
<1>3. CASE \E s \in b.tabs : Client(b)!Reload(s)
  BY <1>0, <1>3 DEF Client!Reload, Client!TypeOK
<1>4. CASE \E c \in b.calls : Client(b)!Serve(c) \/ Client(b)!Exhausted(c) \/ Client(b)!Lose(c)
  BY <1>4 DEF Client!Serve, Client!Exhausted, Client!Lose, Client!tabVars
<1>5. CASE \E s \in Client(b)!Ids : Client(b)!Age(s) \/ Client(b)!Revoke(s)
  BY <1>5 DEF Client!Age, Client!Revoke, Client!tabVars
<1>6. ASSUME NEW c \in b.calls, Client(b)!Receive(c)
      PROVE  /\ clientCall[c].kind # "none" /\ clientCall[c].tab = t /\ clientCall[c] # clientCall'[c]
             /\ clientCall[c].reply = "failed" \/ clientCall[c].cookie # cookie
  <2> DEFINE q == clientCall[c]
  <2>1. /\ q.kind # "none" /\ q.reply # "waiting" /\ Client(b)!StoreCookie(c) /\ q.tab \in b.tabs
        /\ q \in Client(b)!Call /\ Good(b, q, owner, live, cookie)
    BY <1>6, CallsAreTyped DEF Client!Receive, Client!Busy, ClientInv, Client!Call
  <2>2. Client(b)!SignOut(q.tab) /\ (Refreshing(q) \/ q.kind = "logout") => q.tab = t
    BY <1>0 DEF Client!SignOut, Client!TypeOK
  <2>3. ASSUME Client(b)!RefreshSession(c, q.tab), Refreshing(q)
        PROVE  q.tab = t /\ q.reply # "ok" /\ (q.reply = "failed" \/ q.cookie # cookie)
    <3>1. q.reply # "ok"
      <4>1. SUFFICES ASSUME q.reply = "ok" PROVE FALSE
        OBVIOUS
      <4>2. clientUser' = [clientUser EXCEPT ![q.tab] = owner[q.grant]] /\ owner[q.grant] \in b.users
        BY <2>1, <2>3, <4>1 DEF Client!RefreshSession, Client!applyAuthPayload, Good, Issued
      <4> QED
        BY <1>0, <4>2 DEF Client!TypeOK
    <3>2. Client(b)!SignOut(q.tab)
      BY <2>3, <3>1 DEF Client!RefreshSession
    <3>3. q.reply = "unauthorized" => q.cookie \notin live
      BY <2>1, <2>3 DEF Good
    <3> QED
      BY <2>1, <2>2, <2>3, <3>1, <3>2, <3>3 DEF Client!Call, Client!Replies
  <2>4. ASSUME Client(b)!End(c) PROVE q # clientCall'[c]
    BY <1>0, <2>1, <2>4, EndIs DEF Client!Idle
  <2>5. CASE Client(b)!ReceiveBoot(c, q.tab)
    BY <2>1, <2>3, <2>4, <2>5 DEF Client!ReceiveBoot, Refreshing
  <2>6. CASE Client(b)!ReceiveLogin(c, q.tab)
    <3>1. q.reply = "ok" => owner[q.grant] \in b.users /\ clientUser' = [clientUser EXCEPT ![q.tab] = owner[q.grant]]
      BY <2>1, <2>6 DEF Client!ReceiveLogin, Client!applyAuthPayload, Good, Issued
    <3>2. q.reply # "ok" => clientUser' = clientUser
      BY <2>6 DEF Client!ReceiveLogin
    <3> QED
      BY <1>0, <3>1, <3>2 DEF Client!TypeOK
  <2>7. CASE Client(b)!ReceiveLogout(c, q.tab)
    <3>1. q.kind = "logout" /\ Client(b)!SignOut(q.tab) /\ Client(b)!End(c)
      BY <2>7 DEF Client!ReceiveLogout
    <3>2. q.reply = "ok" => cookie' = Client(b)!None
      BY <2>1, <3>1 DEF Client!StoreCookie, Good, Refreshing
    <3>3. q.reply = "failed"
      BY <1>0, <2>1, <3>1, <3>2 DEF Good, Client!Call, Client!Replies, Client!TypeOK
    <3> QED
      BY <2>1, <2>2, <2>4, <3>1, <3>3
  <2>8. CASE Client(b)!ReceiveRequest(c, q.tab)
    <3>1. CASE Client(b)!StartRefresh(c)
      BY <3>1 DEF Client!StartRefresh, Client!tabVars
    <3>2. CASE Client(b)!Retry(c, q.tab)
      BY <2>1, <2>3, <2>4, <3>2 DEF Client!Retry, Refreshing
    <3>3. CASE Client(b)!Finish(c, q.tab)
      <4>1. q.kind \in {"query", "profile"} /\ ~Refreshing(q)
        BY <2>8, <3>3 DEF Client!ReceiveRequest, Client!Finish, Refreshing
      <4>2. q.kind = "profile" /\ q.reply = "ok" => owner[q.token] \in b.users
        BY <2>1, <4>1 DEF Good, Issued
      <4> QED
        BY <1>0, <3>3, <4>2 DEF Client!Finish, Client!TypeOK
    <3> QED
      BY <2>8, <3>1, <3>2, <3>3 DEF Client!ReceiveRequest
  <2> QED
    BY <1>6, <2>5, <2>6, <2>7, <2>8 DEF Client!Receive
<1> QED
  BY <1>1, <1>2, <1>3, <1>4, <1>5, <1>6 DEF Client!Next
(* The server only ever issues new sessions and ends old ones.             *)
LEMMA ServeIsLater ==
  ASSUME NEW b, Client(b)!WebClientAssumption, ClientInv(b), NEW c \in b.calls, Client(b)!Serve(c)
  PROVE  Later(b, owner, live, owner', live')
<1>1. clientCall[c].kind # "none" /\ clientCall[c] \in Client(b)!Call /\ Good(b, clientCall[c], owner, live, cookie) /\ \A s \in live : owner[s] \in b.users
  BY CallsAreTyped DEF Client!Serve, Client!Busy, ClientInv
<1>2. CASE owner' = owner /\ live' \subseteq live
  BY <1>2, LaterTrivially
<1>3. CASE Client(b)!AnswerRefresh(c)
  BY <1>1, <1>2, <1>3, IssueIs DEF Client!AnswerRefresh
<1>4. CASE Client(b)!AnswerLogin(c)
  BY <1>1, <1>2, <1>4, IssueIs DEF Client!AnswerLogin, Good
<1>5. CASE Client(b)!AnswerLogout(c) \/ Client(b)!AnswerRequest(c)
  BY <1>2, <1>5 DEF Client!AnswerLogout, Client!AnswerRequest, Client!serverVars
<1> QED
  BY <1>3, <1>4, <1>5 DEF Client!Serve


LEMMA MismatchesAreLate ==
  ASSUME NEW b, Client(b)!WebClientAssumption, ClientInv(b), Client(b)!Next
  PROVE  Client(b)!OnlyLateProfilesMislead
<1> SUFFICES ASSUME NEW t \in b.tabs, Client(b)!Matches(t) PROVE Client(b)!Matches(t)' \/ Client(b)!LateProfile(t)
  BY DEF Client!OnlyLateProfilesMislead
<1>0. Client(b)!TypeOK /\ Nobody \notin b.users /\ Client(b)!None \notin Client(b)!Ids
  BY DEF ClientInv, Client!WebClientAssumption, Client!Ids, Client!None
<1>1. ASSUME clientUser' = clientUser, token' = token, Later(b, owner, live, owner', live')
      PROVE  Client(b)!Matches(t)'
  BY <1>0, <1>1 DEF Client!Matches, Later, Client!TypeOK
<1>2. CASE \E c \in b.calls, s \in b.tabs : Client(b)!Boot(c, s) \/ Client(b)!Query(c, s) \/ Client(b)!UpdateProfile(c, s) \/ Client(b)!Logout(c, s)
  BY <1>2 DEF Client!Boot, Client!Query, Client!UpdateProfile, Client!Logout, Client!Send, Client!tabVars, Client!serverVars, Client!Matches
<1>3. CASE \E c \in b.calls, s \in b.tabs, u \in b.users : Client(b)!Login(c, s, u)
  BY <1>3 DEF Client!Login, Client!Send, Client!tabVars, Client!serverVars, Client!Matches
<1>4. CASE \E s \in b.tabs : Client(b)!Reload(s)
  BY <1>0, <1>4 DEF Client!Reload, Client!serverVars, Client!TypeOK, Client!Matches
<1>5. ASSUME NEW c \in b.calls, Client(b)!Serve(c) PROVE Client(b)!Matches(t)'
  <2>1. clientCall[c].kind # "none"
    BY <1>5 DEF Client!Serve, Client!Busy
  <2>2. Later(b, owner, live, owner', live')
    BY <1>5, ServeIsLater
  <2> QED
    BY <1>1, <1>5, <2>2 DEF Client!Serve, Client!tabVars
<1>6. CASE \E c \in b.calls : Client(b)!Exhausted(c) \/ Client(b)!Lose(c)
  BY <1>6 DEF Client!Exhausted, Client!Lose, Client!tabVars, Client!serverVars, Client!Matches
<1>7. CASE \E s \in Client(b)!Ids : Client(b)!Age(s) \/ Client(b)!Revoke(s)
  BY <1>7 DEF Client!Age, Client!Revoke, Client!tabVars, Client!Matches
<1>8. ASSUME NEW c \in b.calls, Client(b)!Receive(c)
      PROVE  Client(b)!Matches(t)' \/ Client(b)!LateProfile(t)
  <2> DEFINE q == clientCall[c]
  <2>1. /\ q.kind # "none" /\ q.tab \in b.tabs /\ q \in Client(b)!Call /\ Good(b, q, owner, live, cookie) /\ owner' = owner
    BY <1>8, CallsAreTyped DEF Client!Receive, Client!Busy, ClientInv, Client!Call, Client!serverVars
  <2>2. ASSUME Client(b)!SignOut(q.tab) PROVE Client(b)!Matches(t)'
    BY <1>0, <2>1, <2>2 DEF Client!SignOut, Client!Matches, Client!TypeOK
  <2>3. ASSUME Client(b)!applyAuthPayload(q.tab, q.grant), q.grant # Client(b)!None PROVE Client(b)!Matches(t)'
    <3>1. owner[q.grant] \in b.users
      BY <2>1, <2>3 DEF Good, Issued
    <3> QED
      BY <1>0, <2>1, <2>3, <3>1 DEF Client!applyAuthPayload, Client!Matches, Client!TypeOK
  <2>4. ASSUME Client(b)!RefreshSession(c, q.tab), Refreshing(q) PROVE Client(b)!Matches(t)'
    BY <2>1, <2>2, <2>3, <2>4 DEF Client!RefreshSession, Good
  <2>5. ASSUME clientUser' = clientUser, token' = token PROVE Client(b)!Matches(t)'
    BY <2>1, <2>5 DEF Client!Matches
  <2>6. CASE Client(b)!ReceiveBoot(c, q.tab)
    BY <2>4, <2>6 DEF Client!ReceiveBoot, Refreshing
  <2>7. CASE Client(b)!ReceiveLogin(c, q.tab)
    BY <2>1, <2>3, <2>5, <2>7 DEF Client!ReceiveLogin, Good
  <2>8. CASE Client(b)!ReceiveLogout(c, q.tab)
    BY <2>2, <2>8 DEF Client!ReceiveLogout
  <2>9. CASE Client(b)!StartRefresh(c)
    BY <2>5, <2>9 DEF Client!StartRefresh, Client!tabVars
  <2>10. CASE Client(b)!Retry(c, q.tab)
    BY <2>4, <2>10 DEF Client!Retry, Refreshing
  <2>11. CASE Client(b)!Finish(c, q.tab) /\ q.kind \in {"query", "profile"}
    <3>1. CASE q.kind = "profile" /\ q.reply = "ok" /\ q.tab = t
      <4>1. q.token # Client(b)!None /\ owner[q.token] \in b.users /\ clientUser'[t] = owner[q.token] /\ token' = token /\ Client(b)!End(c)
        BY <1>0, <2>1, <2>11, <3>1 DEF Client!Finish, Good, Issued, Refreshing, Client!TypeOK
      <4>2. CASE q.token = token[t]
        BY <1>0, <2>1, <4>1, <4>2 DEF Client!Matches
      <4>3. CASE q.token # token[t]
        <5>1. clientCall'[c] = Client(b)!Idle
          BY <1>0, <4>1, EndIs
        <5> QED
          BY <3>1, <4>3, <5>1 DEF Client!LateProfile
      <4> QED
        BY <4>2, <4>3
    <3>2. CASE ~(q.kind = "profile" /\ q.reply = "ok" /\ q.tab = t)
      <4>1. token' = token /\ clientUser'[t] = clientUser[t]
        BY <1>0, <2>11, <3>2 DEF Client!Finish, Client!TypeOK
      <4> QED
        BY <2>1, <4>1 DEF Client!Matches
    <3> QED
      BY <3>1, <3>2
  <2> QED
    BY <1>8, <2>6, <2>7, <2>8, <2>9, <2>10, <2>11 DEF Client!Receive, Client!ReceiveRequest
<1> QED
  BY <1>2, <1>3, <1>4, <1>5, <1>6, <1>7, <1>8 DEF Client!Next

-----------------------------------------------------------------------------
(* The routes.  A tab that waits for its session has not been redirected;  *)
(* where a redirection has led nobody is redirected from; and who is not   *)
(* where they asked to be may not be there.                                *)
RoutesInv(b) ==
  /\ Routes(b)!TypeOK
  /\ routeLoading => routeUser = Nobody /\ underway = "none" /\ hops = 0
  /\ hops = 0 \/ (hops = 1 /\ Routes(b)!Guarded(path, routeUser) = path)
  /\ asked = "" \/ path = asked \/ (~routeLoading /\ Routes(b)!Guarded(asked, routeUser) # asked)

LEMMA GuardedStays ==
  ASSUME NEW b, Routes(b)!RouterAssumption, NEW p \in Routes(b)!Paths, NEW u \in b.users \cup {Nobody}
  PROVE  /\ Routes(b)!Guarded(p, u) \in Routes(b)!Paths
         /\ Routes(b)!Guarded(Routes(b)!Guarded(p, u), u) = Routes(b)!Guarded(p, u)
BY DEF Routes!RouterAssumption, Routes!Paths, Routes!Guarded, Routes!Home, Routes!PublicOnlyPages,
       Routes!OpenPages, Routes!WorkspacePages, Routes!AdminPages

LEMMA RoutesStart ==
  ASSUME NEW b, Routes(b)!Init
  PROVE  RoutesInv(b)
BY DEF RoutesInv, Routes!Init, Routes!TypeOK

LEMMA RoutesSteps ==
  ASSUME NEW b, Routes(b)!RouterAssumption, RoutesInv(b), Routes(b)!Next
  PROVE  RoutesInv(b)'
<1>0. hops = 0 \/ (hops = 1 /\ Routes(b)!Guarded(path, routeUser) = path)
  BY DEF RoutesInv
<1> USE DEF RoutesInv, Routes!TypeOK
<1>p. {"/login", "/admin", "/app"} \subseteq Routes(b)!Paths
  BY DEF Routes!Paths, Routes!PublicOnlyPages, Routes!AdminPages, Routes!WorkspacePages
<1>1. CASE Routes(b)!Redirect
  <2>1. /\ Routes(b)!Guarded(path, routeUser) \in Routes(b)!Paths
        /\ Routes(b)!Guarded(Routes(b)!Guarded(path, routeUser), routeUser) = Routes(b)!Guarded(path, routeUser)
    BY GuardedStays
  <2>2. /\ ~routeLoading /\ Routes(b)!Guarded(path, routeUser) # path /\ path' = Routes(b)!Guarded(path, routeUser)
        /\ hops' = hops + 1 /\ routeUser' = routeUser /\ routeLoading' = routeLoading /\ underway' = underway /\ asked' = asked
    BY <1>1 DEF Routes!Redirect
  <2>3. hops' = 1 /\ Routes(b)!Guarded(path', routeUser') = path'
    <3> HIDE DEF RoutesInv, Routes!TypeOK
    <3> QED
      BY <1>0, <2>1, <2>2
  <2>4. asked' = "" \/ path' = asked' \/ (~routeLoading' /\ Routes(b)!Guarded(asked', routeUser') # asked')
    BY <2>2
  <2>5. Routes(b)!TypeOK'
    <3>1. path' \in Routes(b)!Paths /\ 1 \in Nat
      BY <2>1, <2>2
    <3> QED
      BY <2>2, <2>3, <3>1
  <2> QED
    BY <2>2, <2>3, <2>4, <2>5
<1>2. ASSUME NEW p \in Routes(b)!Paths, Routes(b)!Follow(p) PROVE RoutesInv(b)'
  BY <1>2 DEF Routes!Follow, Routes!Rendered, Routes!Waits
<1>3. ASSUME NEW p \in Routes(b)!Paths, Routes(b)!Load(p) PROVE RoutesInv(b)'
  BY <1>3 DEF Routes!Load
<1>4. CASE Routes(b)!Submit
  BY <1>4 DEF Routes!Submit, Routes!Rendered, Routes!Waits, Routes!PublicOnlyPages, Routes!OpenPages
<1>5. ASSUME NEW u \in b.users \cup {Nobody}, Routes(b)!SessionKnown(u) PROVE RoutesInv(b)'
  BY <1>5 DEF Routes!SessionKnown
<1>6. ASSUME NEW u \in b.users \cup {Nobody}, Routes(b)!UserChanges(u) PROVE RoutesInv(b)'
  BY <1>6 DEF Routes!UserChanges
<1>7. ASSUME NEW u \in b.users, Routes(b)!LoginAnswered(u) PROVE RoutesInv(b)'
  <2>1. Routes(b)!Home(u) \in Routes(b)!Paths
    BY <1>p DEF Routes!Home
  <2>2. underway = "login" /\ underway' = "none" /\ routeLoading' = routeLoading /\ ~routeLoading
    BY <1>7 DEF Routes!LoginAnswered
  <2>3. CASE routeUser' = u /\ path' = Routes(b)!Home(u) /\ asked' = "" /\ hops' = 0
    BY <2>1, <2>2, <2>3
  <2>4. CASE UNCHANGED <<path, routeUser, asked, hops>>
    BY <2>2, <2>4
  <2> QED
    BY <1>7, <2>3, <2>4 DEF Routes!LoginAnswered
<1>8. CASE Routes(b)!AccountAnswered
  <2>1. /\ underway = "account" /\ underway' = "none" /\ routeLoading' = routeLoading /\ ~routeLoading
        /\ routeUser' = routeUser
    BY <1>8 DEF Routes!AccountAnswered
  <2>2. CASE path' = "/login" /\ asked' = "" /\ hops' = 0
    BY <1>p, <2>1, <2>2
  <2>3. CASE UNCHANGED <<path, asked, hops>>
    BY <2>1, <2>3
  <2> QED
    BY <1>8, <2>2, <2>3 DEF Routes!AccountAnswered
<1> QED
  BY <1>1, <1>2, <1>3, <1>4, <1>5, <1>6, <1>7, <1>8 DEF Routes!Next

LEMMA RoutesStand ==
  ASSUME NEW b, RoutesInv(b), UNCHANGED routeVars
  PROVE  RoutesInv(b)'
BY DEF RoutesInv, routeVars, Routes!TypeOK, Routes!Guarded, Routes!Home

LEMMA RoutesSettle ==
  ASSUME NEW b, RoutesInv(b)
  PROVE  Routes(b)!RedirectsSettle /\ Routes(b)!LoadedPageKept
<1>1. Routes(b)!RedirectsSettle
  <2>1. hops = 0 \/ hops = 1
    BY DEF RoutesInv
  <2> QED
    BY <2>1 DEF Routes!RedirectsSettle
<1>2. Routes(b)!LoadedPageKept
  BY DEF RoutesInv, Routes!LoadedPageKept
<1> QED
  BY <1>1, <1>2

-----------------------------------------------------------------------------
(* The cache.  Under a key that names a tenant only that tenant's data is  *)
(* fetched and kept; a page is open only to somebody; and what its keys    *)
(* hold, or will, of somebody else is known to be so.                      *)
CacheInv(b) ==
  /\ Cache(b)!TypeOK
  /\ cachePage # "none" => cacheUser # Nobody
  /\ \A k \in Cache(b)!TenantKeys, u \in b.users : cached[k] = u \/ fetching[k] = u => k[2] = u
  /\ \A k \in Cache(b)!Mounted :
       /\ fetching[k] \in {Nobody, cacheUser} \/ k \in joined
       /\ cached[k] \in {Nobody, cacheUser} \/ fetching[k] # Nobody \/ k \in failed \cup joined

LEMMA KeysAreKeys ==
  ASSUME NEW b, Cache(b)!QueryCacheAssumption, NEW p \in b.pages \cup {"none"}, NEW u \in b.users,
         NEW k \in Cache(b)!Keys(p, u)
  PROVE  k \in Cache(b)!AllKeys /\ (k \in Cache(b)!TenantKeys => k[2] = u)
<1>1. p \in b.pages
  BY DEF Cache!Keys, Cache!QueryCacheAssumption
<1>2. k \in Cache(b)!AllKeys
  BY <1>1 DEF Cache!AllKeys
<1>3. Len(k) = 2 => k[2] = u
  BY <1>1 DEF Cache!Keys, Cache!QueryCacheAssumption
<1> QED
  BY <1>2, <1>3 DEF Cache!TenantKeys

LEMMA CacheStarts ==
  ASSUME NEW b, Cache(b)!QueryCacheAssumption, Cache(b)!Init
  PROVE  CacheInv(b)
<1>1. Cache(b)!Mounted = {}
  BY DEF Cache!Init, Cache!Mounted, Cache!Keys
<1> QED
  BY <1>1 DEF CacheInv, Cache!Init, Cache!TypeOK, Cache!TenantKeys, Cache!QueryCacheAssumption

LEMMA MountedIs ==
  ASSUME NEW b, Cache(b)!QueryCacheAssumption, CacheInv(b)
  PROVE  \A k \in Cache(b)!Mounted :
           cacheUser \in b.users /\ k \in Cache(b)!AllKeys /\ (k \in Cache(b)!TenantKeys => k[2] = cacheUser)
<1> SUFFICES ASSUME NEW k \in Cache(b)!Mounted
             PROVE  cacheUser \in b.users /\ k \in Cache(b)!AllKeys /\ (k \in Cache(b)!TenantKeys => k[2] = cacheUser)
  OBVIOUS
<1>1. k \in Cache(b)!Keys(cachePage, cacheUser)
  BY DEF Cache!Mounted
<1>2. cachePage # "none"
  BY <1>1 DEF Cache!Keys
<1>3. cacheUser \in b.users /\ cachePage \in b.pages \cup {"none"}
  BY <1>2 DEF CacheInv, Cache!TypeOK
<1> QED
  BY <1>1, <1>3, KeysAreKeys

LEMMA CacheSteps ==
  ASSUME NEW b, Cache(b)!QueryCacheAssumption, CacheInv(b), Cache(b)!Next
  PROVE  CacheInv(b)'
<1>0. /\ Cache(b)!TypeOK /\ Nobody \notin b.users
      /\ \A k \in Cache(b)!TenantKeys : k \in Cache(b)!AllKeys
      /\ Cache(b)!Mounted' = Cache(b)!Keys(cachePage', cacheUser')
      /\ Cache(b)!Mounted = Cache(b)!Keys(cachePage, cacheUser)
  BY DEF CacheInv, Cache!QueryCacheAssumption, Cache!TenantKeys, Cache!Mounted
<1> DEFINE Types(c, f, d, j) ==
             /\ c \in [Cache(b)!AllKeys -> b.users \cup {Nobody}] /\ f \in [Cache(b)!AllKeys -> b.users \cup {Nobody}]
             /\ d \subseteq Cache(b)!AllKeys /\ j \subseteq Cache(b)!AllKeys
           Own(c, f) == \A k \in Cache(b)!TenantKeys, u \in b.users : c[k] = u \/ f[k] = u => k[2] = u
           Known(keys, v, c, f, d, j) ==
             \A k \in keys : /\ f[k] \in {Nobody, v} \/ k \in j
                             /\ c[k] \in {Nobody, v} \/ f[k] # Nobody \/ k \in d \cup j
<1>a. /\ Types(cached, fetching, failed, joined) /\ Own(cached, fetching)
      /\ Known(Cache(b)!Mounted, cacheUser, cached, fetching, failed, joined)
  BY <1>0 DEF CacheInv, Cache!TypeOK
<1>k. Cache(b)!AllKeys' = Cache(b)!AllKeys /\ Cache(b)!TenantKeys' = Cache(b)!TenantKeys
  BY DEF Cache!TenantKeys, Cache!AllKeys, Cache!Keys
<1>b. ASSUME Types(cached', fetching', failed', joined'), Own(cached', fetching'),
             Known(Cache(b)!Mounted', cacheUser', cached', fetching', failed', joined'),
             cacheUser' \in b.users \cup {Nobody}, cachePage' \in b.pages \cup {"none"},
             cachePage' # "none" => cacheUser' # Nobody
      PROVE  CacheInv(b)'
  BY <1>0, <1>b, <1>k DEF CacheInv, Cache!TypeOK
<1>m. \A k \in Cache(b)!Mounted :
        cacheUser \in b.users /\ k \in Cache(b)!AllKeys /\ (k \in Cache(b)!TenantKeys => k[2] = cacheUser)
  BY MountedIs
<1>1. ASSUME NEW u \in b.users, Cache(b)!SignIn(u) PROVE CacheInv(b)'
  <2>1. cacheUser = Nobody /\ cacheUser' = u /\ UNCHANGED <<cachePage, cached, fetching, failed, joined>>
    BY <1>1 DEF Cache!SignIn
  <2>2. cachePage' = "none" /\ Cache(b)!Mounted' = {}
    BY <1>0, <2>1 DEF CacheInv, Cache!Keys
  <2> QED
    BY <1>0, <1>a, <1>b, <2>1, <2>2
<1>2. CASE Cache(b)!SignOut
  <2>1. cacheUser' = Nobody /\ cachePage' = "none" /\ UNCHANGED <<cached, fetching, failed, joined>>
    BY <1>2 DEF Cache!SignOut
  <2>2. Cache(b)!Mounted' = {}
    BY <1>0, <2>1 DEF Cache!Keys
  <2> QED
    BY <1>0, <1>a, <1>b, <2>1, <2>2
<1>3. ASSUME NEW p \in b.pages, Cache(b)!Open(p) PROVE CacheInv(b)'
  <2>1. /\ cacheUser # Nobody /\ cachePage' = p /\ Cache(b)!Fetch(Cache(b)!Keys(p, cacheUser))
        /\ UNCHANGED <<cacheUser, cached>>
    BY <1>3 DEF Cache!Open
  <2> DEFINE keys == Cache(b)!Keys(p, cacheUser)
  <2>2. cacheUser \in b.users /\ Cache(b)!Mounted' = keys
    BY <1>0, <2>1 DEF Cache!TypeOK
  <2>3. \A k \in keys : k \in Cache(b)!AllKeys /\ (k \in Cache(b)!TenantKeys => k[2] = cacheUser)
    BY <2>2, KeysAreKeys
  <2>4. /\ fetching' = [k \in Cache(b)!AllKeys |-> IF k \in keys /\ fetching[k] = Nobody THEN cacheUser ELSE fetching[k]]
        /\ failed' = failed \ keys
        /\ joined' = (joined \ keys) \cup {k \in keys : fetching[k] \notin {Nobody, cacheUser}}
    BY <2>1 DEF Cache!Fetch
  <2> HIDE DEF keys
  <2>5. Types(cached', fetching', failed', joined')
    BY <1>a, <2>1, <2>2, <2>3, <2>4
  <2>6. Own(cached', fetching')
    BY <1>0, <1>a, <2>1, <2>2, <2>3, <2>4
  <2>7. Known(keys, cacheUser', cached', fetching', failed', joined')
    BY <1>0, <2>1, <2>2, <2>3, <2>4
  <2> QED
    BY <1>b, <2>1, <2>2, <2>5, <2>6, <2>7
<1>4. ASSUME NEW k \in Cache(b)!AllKeys, Cache(b)!Invalidate(k) PROVE CacheInv(b)'
  <2>1. /\ k \in Cache(b)!Mounted /\ fetching' = [fetching EXCEPT ![k] = cacheUser] /\ failed' = failed \ {k}
        /\ joined' = joined \ {k} /\ UNCHANGED <<cacheUser, cachePage, cached>>
    BY <1>4 DEF Cache!Invalidate
  <2>2. Types(cached', fetching', failed', joined') /\ Cache(b)!Mounted' = Cache(b)!Mounted
    BY <1>0, <1>a, <1>m, <2>1
  <2>3. Own(cached', fetching')
    BY <1>0, <1>a, <1>m, <2>1
  <2>4. Known(Cache(b)!Mounted, cacheUser', cached', fetching', failed', joined')
    BY <1>0, <1>a, <1>m, <2>1
  <2> QED
    BY <1>0, <1>b, <2>1, <2>2, <2>3, <2>4 DEF CacheInv, Cache!TypeOK
<1>5. ASSUME NEW k \in Cache(b)!AllKeys, Cache(b)!Arrive(k) PROVE CacheInv(b)'
  <2>1. /\ fetching[k] # Nobody /\ cached' = [cached EXCEPT ![k] = fetching[k]] /\ fetching' = [fetching EXCEPT ![k] = Nobody]
        /\ UNCHANGED <<cacheUser, cachePage, failed, joined>>
    BY <1>5 DEF Cache!Arrive
  <2>2. Types(cached', fetching', failed', joined') /\ Cache(b)!Mounted' = Cache(b)!Mounted
    BY <1>0, <1>a, <2>1
  <2>3. Own(cached', fetching')
    BY <1>0, <1>a, <2>1
  <2>4. Known(Cache(b)!Mounted, cacheUser', cached', fetching', failed', joined')
    BY <1>0, <1>a, <1>m, <2>1
  <2> QED
    BY <1>0, <1>b, <2>1, <2>2, <2>3, <2>4 DEF CacheInv, Cache!TypeOK
<1>6. ASSUME NEW k \in Cache(b)!AllKeys, Cache(b)!GiveUp(k) PROVE CacheInv(b)'
  <2>1. /\ fetching' = [fetching EXCEPT ![k] = Nobody] /\ failed' = failed \cup {k}
        /\ UNCHANGED <<cacheUser, cachePage, cached, joined>>
    BY <1>6 DEF Cache!GiveUp
  <2>2. Types(cached', fetching', failed', joined') /\ Cache(b)!Mounted' = Cache(b)!Mounted
    BY <1>0, <1>a, <2>1
  <2>3. Own(cached', fetching')
    BY <1>0, <1>a, <2>1
  <2>4. Known(Cache(b)!Mounted, cacheUser', cached', fetching', failed', joined')
    BY <1>0, <1>a, <1>m, <2>1
  <2> QED
    BY <1>0, <1>b, <2>1, <2>2, <2>3, <2>4 DEF CacheInv, Cache!TypeOK
<1>7. ASSUME NEW k \in Cache(b)!AllKeys, Cache(b)!Collect(k) PROVE CacheInv(b)'
  <2>1. /\ k \notin Cache(b)!Mounted /\ cached' = [cached EXCEPT ![k] = Nobody]
        /\ UNCHANGED <<cacheUser, cachePage, fetching, failed, joined>>
    BY <1>7 DEF Cache!Collect
  <2>2. Types(cached', fetching', failed', joined') /\ Cache(b)!Mounted' = Cache(b)!Mounted
    BY <1>0, <1>a, <2>1
  <2>3. Own(cached', fetching')
    BY <1>0, <1>a, <2>1
  <2>4. Known(Cache(b)!Mounted, cacheUser', cached', fetching', failed', joined')
    BY <1>0, <1>a, <1>m, <2>1
  <2> QED
    BY <1>0, <1>b, <2>1, <2>2, <2>3, <2>4 DEF CacheInv, Cache!TypeOK
<1> QED
  BY <1>1, <1>2, <1>3, <1>4, <1>5, <1>6, <1>7 DEF Cache!Next

LEMMA CacheStands ==
  ASSUME NEW b, CacheInv(b), UNCHANGED cacheVars
  PROVE  CacheInv(b)'
<1>1. Cache(b)!AllKeys' = Cache(b)!AllKeys /\ Cache(b)!TenantKeys' = Cache(b)!TenantKeys
  BY DEF Cache!TenantKeys, Cache!AllKeys, Cache!Keys
<1>2. Cache(b)!Mounted' = Cache(b)!Mounted
  BY DEF Cache!Mounted, Cache!Keys, cacheVars
<1> QED
  BY <1>1, <1>2 DEF CacheInv, cacheVars, Cache!TypeOK

LEMMA CacheIsOwn ==
  ASSUME NEW b, Cache(b)!QueryCacheAssumption, CacheInv(b)
  PROVE  Cache(b)!KeyedDataIsOwn /\ Cache(b)!ForeignDataIsRefetched
<1>1. Cache(b)!KeyedDataIsOwn
  <2>1. \A k \in Cache(b)!TenantKeys : k \in Cache(b)!AllKeys
    BY DEF Cache!TenantKeys
  <2> QED
    BY <2>1, MountedIs DEF CacheInv, Cache!KeyedDataIsOwn, Cache!TypeOK
<1>2. Cache(b)!ForeignDataIsRefetched
  BY DEF CacheInv, Cache!ForeignDataIsRefetched
<1> QED
  BY <1>1, <1>2

-----------------------------------------------------------------------------
(* The pages before signing in.  What a request must carry to be sent; who *)
(* still listens to it; what a registration that was carried out comes to; *)
(* and what has to have happened for a request to be refused.  Below, w is *)
(* the passwords, l the links, a the attempts, f the faults, p the page.   *)
Carries(b, q) ==
  /\ q.kind = "none" <=> q.at = "idle"
  /\ q.kind = "none" => q.ear = "none"
  /\ q.kind \in {"login", "register", "forgot"} => q.name \in b.names
  /\ q.kind \in {"login", "register", "reset"} => q.password \in b.passwords
  /\ q.kind = "reset" => q.link \in b.resets
  /\ q.kind = "verify" => q.link \in b.verifications
Heard(q, p) == q.ear = "page" => q.kind = p.at /\ (q.kind = "verify" => q.link = p.link)
MaySignIn(b, n, x, w, l) == w[n] = x \/ \E r \in b.resets : l[r].for = n /\ l[r].state = "used"
Registered(b, q, w, l) == q.kind = "register" /\ q.at = "done" => MaySignIn(b, q.name, q.password, w, l)
Excused(r, l, a, f) == f > 0 \/ a[r] > 1 \/ l[r].state = "expired"
Tried(q, l, a, f) ==
  /\ q.kind = "forgot" /\ q.at = "refused" => f > 0
  /\ q.kind = "verify" /\ q.at = "refused" => Excused(q.link, l, a, f)
  /\ q.kind = "verify" /\ q.at = "asked" => a[q.link] > 0 /\ (l[q.link].state = "used" => a[q.link] > 1)
Asking(q, r) == q.kind = "verify" /\ q.at = "asked" /\ q.link = r

LinksGood(b, l, a) ==
  /\ \A r \in b.resets \cup b.verifications :
       /\ l[r].state = "unsent" => r \in b.resets
       /\ l[r].state = "sent" => l[r].for \in b.names
  /\ \A r \in b.verifications : l[r].state = "used" => a[r] > 0
PageGood(b, p, l, a, f) ==
  /\ p.at = "reset" => p.link \in b.resets
  /\ p.at = "verify" => p.link \in b.verifications
  /\ p.at = "forgot" /\ p.error => f > 0
  /\ p.at = "verify" /\ p.error => Excused(p.link, l, a, f)

AccountInv(b) ==
  /\ Account(b)!TypeOK
  /\ attempts \in [b.resets \cup b.verifications -> Nat]
  /\ LinksGood(b, link, attempts)
  /\ PageGood(b, pagesPage, link, attempts, pagesFaults)
  /\ \A c \in b.calls : /\ Carries(b, pagesCall[c]) /\ Heard(pagesCall[c], pagesPage)
                        /\ Registered(b, pagesCall[c], password, link)
                        /\ Tried(pagesCall[c], link, attempts, pagesFaults)
  /\ \A c, d \in b.calls, r \in b.verifications :
       c # d /\ Asking(pagesCall[c], r) /\ Asking(pagesCall[d], r) => attempts[r] > 1

(* The types, part by part, with what the names of the module stand for.   *)
Guest       == {"login", "register", "forgot", "reset"}
Requests(b) == [kind : {"none", "verify"} \cup Guest, name : b.names \cup {""},
                password : b.passwords \cup {""}, link : b.resets \cup b.verifications \cup {"no link"},
                at : {"idle", "asked", "done", "refused"}, ear : {"none", "tab", "page"}]
Shows(b)    == [at : Guest \cup {"verify", "app"}, link : b.resets \cup b.verifications \cup {"no link"},
                name : b.names \cup {""}, password : b.passwords \cup {""},
                message : {"", "sent", "loading", "verified"}, error : BOOLEAN]
Letters(b)  == [for : b.names \cup {"nobody"}, state : {"unsent", "sent", "used", "expired"}]
AccountTypes(b, w, l, s, p, q) ==
  /\ w \in [b.names -> b.passwords \cup {"not set"}]
  /\ l \in [b.resets \cup b.verifications -> Letters(b)]
  /\ s \in b.names \cup {"nobody"}
  /\ p \in Shows(b)
  /\ q \in [b.calls -> Requests(b)]
  /\ s # "nobody" => p.at \notin Guest
Counted(b, n, m, i, f) == n \in 0 .. b.sent /\ m \in 0 .. b.moves /\ i \in 0 .. b.languages /\ f \in 0 .. b.faults

LEMMA AccountTypesAre ==
  ASSUME NEW b
  PROVE  Account(b)!TypeOK <=> /\ AccountTypes(b, password, link, signed, pagesPage, pagesCall)
                               /\ Counted(b, sent, moves, languages, pagesFaults)
BY Zenon DEF AccountTypes, Counted, Requests, Shows, Letters, Guest, Account!TypeOK, Account!Links, Account!NoLink,
       Account!NoAccount, Account!NotSet, Account!Public, Account!Pages

LEMMA AccountTypesNext ==
  ASSUME NEW b
  PROVE  Account(b)!TypeOK' <=> /\ AccountTypes(b, password', link', signed', pagesPage', pagesCall')
                                /\ Counted(b, sent', moves', languages', pagesFaults')
BY Zenon DEF AccountTypes, Counted, Requests, Shows, Letters, Guest, Account!TypeOK, Account!Links, Account!NoLink,
       Account!NoAccount, Account!NotSet, Account!Public, Account!Pages

(* What is known stays known when links are only used up, attempts and     *)
(* faults only grow, and a password only gives way to a link.              *)
Grown(b, w, l, a, f, v, m, e, g) ==
  /\ \A r \in b.resets \cup b.verifications :
       /\ e[r] \in Nat /\ a[r] \in Nat /\ e[r] >= a[r]
       /\ m[r].state = "unsent" => l[r].state = "unsent"
       /\ l[r].state \in {"used", "expired"} => m[r] = l[r]
  /\ f \in Nat /\ g \in Nat /\ g >= f
  /\ \A n \in b.names : v[n] = w[n] \/ w[n] = "not set" \/ \E r \in b.resets : m[r].for = n /\ m[r].state = "used"

LEMMA GrowsPast ==
  ASSUME NEW f \in Nat, NEW g \in Nat, g >= f
  PROVE  (f > 0 => g > 0) /\ (f > 1 => g > 1)
OBVIOUS

LEMMA ExcusedStays ==
  ASSUME NEW b, NEW w, NEW l, NEW a, NEW f, NEW v, NEW m, NEW e, NEW g, Grown(b, w, l, a, f, v, m, e, g),
         NEW r \in b.resets \cup b.verifications, Excused(r, l, a, f)
  PROVE  Excused(r, m, e, g)
<1>1. e[r] \in Nat /\ a[r] \in Nat /\ e[r] >= a[r] /\ f \in Nat /\ g \in Nat /\ g >= f
  BY DEF Grown
<1>2. l[r].state = "expired" => m[r].state = "expired"
  BY DEF Grown
<1> QED
  BY <1>1, <1>2 DEF Excused

LEMMA KnownStays ==
  ASSUME NEW b, "not set" \notin b.passwords, NEW w, NEW l, NEW a, NEW f, NEW v, NEW m, NEW e, NEW g, Grown(b, w, l, a, f, v, m, e, g),
         NEW q, Carries(b, q), Registered(b, q, w, l), Tried(q, l, a, f),
         q.kind = "verify" /\ q.at = "asked" /\ m[q.link].state = "used" => l[q.link].state = "used" \/ e[q.link] > 1
  PROVE  Registered(b, q, v, m) /\ Tried(q, m, e, g)
<1>1. Registered(b, q, v, m)
  <2>1. SUFFICES ASSUME q.kind = "register", q.at = "done" PROVE MaySignIn(b, q.name, q.password, v, m)
    BY DEF Registered
  <2>2. q.name \in b.names /\ q.password \in b.passwords /\ MaySignIn(b, q.name, q.password, w, l)
    BY <2>1 DEF Registered, Carries
  <2>3. CASE w[q.name] = q.password
    <3>1. \/ v[q.name] = w[q.name] \/ w[q.name] = "not set"
          \/ \E r \in b.resets : m[r].for = q.name /\ m[r].state = "used"
      BY <2>2 DEF Grown
    <3>2. w[q.name] # "not set"
      BY <2>2, <2>3
    <3> QED
      BY <2>3, <3>1, <3>2 DEF MaySignIn
  <2>4. ASSUME NEW r \in b.resets, l[r].for = q.name, l[r].state = "used" PROVE MaySignIn(b, q.name, q.password, v, m)
    <3>1. m[r] = l[r]
      BY <2>4 DEF Grown
    <3> QED
      BY <2>4, <3>1 DEF MaySignIn
  <2> QED
    BY <2>2, <2>3, <2>4 DEF MaySignIn
<1>2. q.kind = "forgot" /\ q.at = "refused" => g > 0
  <2>1. f \in Nat /\ g \in Nat /\ g >= f
    BY DEF Grown
  <2>2. q.kind = "forgot" /\ q.at = "refused" => f > 0
    BY DEF Tried
  <2>3. f > 0 => g > 0
    BY <2>1, GrowsPast
  <2> QED
    BY <2>2, <2>3
<1>3. q.kind = "verify" /\ q.at = "refused" => Excused(q.link, m, e, g)
  BY ExcusedStays DEF Tried, Carries
<1>4. q.kind = "verify" /\ q.at = "asked" => e[q.link] > 0 /\ (m[q.link].state = "used" => e[q.link] > 1)
  <2>1. SUFFICES ASSUME q.kind = "verify", q.at = "asked" PROVE e[q.link] > 0 /\ (m[q.link].state = "used" => e[q.link] > 1)
    OBVIOUS
  <2>2. q.link \in b.resets \cup b.verifications
    BY <2>1 DEF Carries
  <2>3. e[q.link] \in Nat /\ a[q.link] \in Nat /\ e[q.link] >= a[q.link]
    BY <2>2 DEF Grown
  <2>4. a[q.link] > 0 /\ (l[q.link].state = "used" => a[q.link] > 1)
    BY <2>1 DEF Tried
  <2>5. e[q.link] > 0 /\ (a[q.link] > 1 => e[q.link] > 1)
    BY <2>3, <2>4, GrowsPast
  <2> QED
    BY <2>1, <2>4, <2>5
<1> QED
  BY <1>1, <1>2, <1>3, <1>4 DEF Tried

LEMMA GrownItself ==
  ASSUME NEW b, Account(b)!AccountPagesAssumption, AccountInv(b)
  PROVE  Grown(b, password, link, attempts, pagesFaults, password, link, attempts, pagesFaults)
<1>1. pagesFaults \in Nat
  BY AccountTypesAre DEF AccountInv, Counted, Account!AccountPagesAssumption
<1>2. \A r \in b.resets \cup b.verifications : attempts[r] \in Nat
  BY DEF AccountInv
<1> QED
  BY <1>1, <1>2 DEF Grown

(* A request goes on without its page, or without anybody.                 *)
SameRequest(r, q) ==
  /\ r.kind = q.kind /\ r.name = q.name /\ r.password = q.password /\ r.link = q.link /\ r.at = q.at
  /\ q.kind = "none" => r.ear = "none"

(* Steps that leave the server as it is: what the requests were sent with  *)
(* stays, but for those that are over.                                     *)
LEMMA PageSteps ==
  ASSUME NEW b, Account(b)!AccountPagesAssumption, AccountInv(b),
         UNCHANGED <<password, link, attempts, pagesFaults>>,
         AccountTypes(b, password', link', signed', pagesPage', pagesCall'), Counted(b, sent', moves', languages', pagesFaults'),
         PageGood(b, pagesPage', link, attempts, pagesFaults),
         \A c \in b.calls : \/ pagesCall'[c].kind = "none" /\ pagesCall'[c].at = "idle" /\ pagesCall'[c].ear = "none"
                            \/ SameRequest(pagesCall'[c], pagesCall[c]) /\ Heard(pagesCall'[c], pagesPage')
  PROVE  AccountInv(b)'
<1>1. Account(b)!TypeOK'
  BY AccountTypesNext
<1>2. \A c \in b.calls : /\ Carries(b, pagesCall'[c]) /\ Heard(pagesCall'[c], pagesPage')
                         /\ Registered(b, pagesCall'[c], password', link')
                         /\ Tried(pagesCall'[c], link', attempts', pagesFaults')
  BY DEF AccountInv, Carries, Heard, Registered, Tried, SameRequest
<1>3. \A c, d \in b.calls, r \in b.verifications :
        c # d /\ Asking(pagesCall'[c], r) /\ Asking(pagesCall'[d], r) => attempts'[r] > 1
  BY DEF AccountInv, Asking, SameRequest
<1> QED
  BY <1>1, <1>2, <1>3 DEF AccountInv

LEMMA LeftIs ==
  ASSUME NEW b, AccountInv(b), NEW q, q \in {Account(b)!Left, Account(b)!Unheard}
  PROVE  /\ q \in [b.calls -> Requests(b)]
         /\ \A c \in b.calls : SameRequest(q[c], pagesCall[c]) /\ q[c].ear # "page"
<1>1. ASSUME NEW c \in b.calls
      PROVE  q[c] \in Requests(b) /\ SameRequest(q[c], pagesCall[c]) /\ q[c].ear # "page"
  <2>1. pagesCall[c] \in Requests(b) /\ Carries(b, pagesCall[c])
    BY AccountTypesAre DEF AccountInv, AccountTypes
  <2>2. q[c] \in {pagesCall[c], [pagesCall[c] EXCEPT !.ear = "tab"], [pagesCall[c] EXCEPT !.ear = "none"]}
    BY DEF Account!Left, Account!Unheard
  <2>3. q[c] = pagesCall[c] => pagesCall[c].ear # "page"
    BY <2>1, ZenonT(60) DEF Account!Left, Account!Unheard, Requests
  <2>4. pagesCall[c].kind = "none" => q[c].ear = "none"
    <3>1. pagesCall[c].kind = "none" => pagesCall[c].ear = "none"
      BY <2>1 DEF Carries
    <3>2. CASE q = Account(b)!Left
      BY <3>1, <3>2 DEF Account!Left
    <3>3. CASE q = Account(b)!Unheard
      BY <2>1, <3>3 DEF Account!Unheard, Requests
    <3> QED
      BY <3>2, <3>3
  <2> QED
    BY <2>1, <2>2, <2>3, <2>4 DEF Requests, SameRequest, Carries
<1>2. q = [c \in b.calls |-> q[c]]
  BY DEF Account!Left, Account!Unheard
<1> QED
  BY <1>1, <1>2

LEMMA FollowStep ==
  ASSUME NEW b, Account(b)!AccountPagesAssumption, AccountInv(b), NEW p \in Account(b)!Pages, Account(b)!Follow(p)
  PROVE  AccountInv(b)'
<1>0. /\ AccountTypes(b, password, link, signed, pagesPage, pagesCall)
      /\ Counted(b, sent, moves, languages, pagesFaults)
  BY AccountTypesAre DEF AccountInv
<1>1. /\ UNCHANGED <<password, link, signed, attempts, sent, languages, pagesFaults>>
      /\ pagesPage' = Account(b)!Route(p, Account(b)!NoLink, signed) /\ pagesCall' = Account(b)!Left
      /\ p \in Account(b)!Linked(pagesPage.at) /\ moves < b.moves /\ moves' = moves + 1
  BY DEF Account!Follow
<1>2. Counted(b, sent', moves', languages', pagesFaults')
  BY <1>0, <1>1 DEF Counted, Account!AccountPagesAssumption
<1>3. p \in {"login", "register", "forgot"}
  BY <1>0, <1>1 DEF Account!Linked, AccountTypes, Shows, Guest
<1>4. /\ pagesPage'.at \in {p, "app"} /\ pagesPage' \in Shows(b) /\ pagesPage'.error = FALSE
      /\ signed # "nobody" => pagesPage'.at = "app"
  BY <1>1, <1>3 DEF Account!Route, Account!Blank, Account!Public, Account!NoAccount, Account!NoLink, Shows, Guest
<1>5. pagesCall' \in [b.calls -> Requests(b)] /\ \A c \in b.calls : SameRequest(pagesCall'[c], pagesCall[c]) /\ pagesCall'[c].ear # "page"
  BY <1>1, LeftIs
<1>6. AccountTypes(b, password', link', signed', pagesPage', pagesCall')
  <2>1. signed # "nobody" => pagesPage'.at \notin Guest
    BY <1>4 DEF Guest
  <2> QED
    BY <1>0, <1>1, <1>4, <1>5, <2>1 DEF AccountTypes
<1>7. PageGood(b, pagesPage', link, attempts, pagesFaults)
  BY <1>3, <1>4 DEF PageGood
<1>8. \A c \in b.calls : Heard(pagesCall'[c], pagesPage')
  BY <1>5 DEF Heard
<1> QED
  BY <1>1, <1>2, <1>5, <1>6, <1>7, <1>8, PageSteps

LEMMA ReaderStep ==
  ASSUME NEW b, Account(b)!AccountPagesAssumption, AccountInv(b),
         \/ \E n \in b.names \cup {""}, p \in b.passwords \cup {""} : Account(b)!Type(n, p)
         \/ Account(b)!SignOut
  PROVE  AccountInv(b)'
<1>0. /\ AccountTypes(b, password, link, signed, pagesPage, pagesCall)
      /\ Counted(b, sent, moves, languages, pagesFaults)
      /\ PageGood(b, pagesPage, link, attempts, pagesFaults)
  BY AccountTypesAre DEF AccountInv
<1>1. CASE \E n \in b.names \cup {""}, p \in b.passwords \cup {""} : Account(b)!Type(n, p)
  <2>1. PICK n \in b.names \cup {""}, p \in b.passwords \cup {""} : Account(b)!Type(n, p)
    BY <1>1
  <2>2. /\ pagesPage' = [pagesPage EXCEPT !.name = n, !.password = p]
        /\ UNCHANGED <<password, link, signed, pagesCall, attempts>> /\ UNCHANGED <<sent, moves, languages, pagesFaults>>
    BY <2>1 DEF Account!Type, Account!counters
  <2>3. /\ pagesPage' \in Shows(b) /\ pagesPage'.at = pagesPage.at /\ pagesPage'.link = pagesPage.link
        /\ pagesPage'.error = pagesPage.error
    BY <1>0, <2>2 DEF AccountTypes, Shows
  <2>4. PageGood(b, pagesPage', link, attempts, pagesFaults)
    BY <1>0, <2>3 DEF PageGood
  <2>5. \A c \in b.calls : SameRequest(pagesCall'[c], pagesCall[c]) /\ Heard(pagesCall'[c], pagesPage')
    BY <2>2, <2>3 DEF AccountInv, Carries, Heard, SameRequest
  <2>6. AccountTypes(b, password', link', signed', pagesPage', pagesCall') /\ Counted(b, sent', moves', languages', pagesFaults')
    BY <1>0, <2>2, <2>3 DEF AccountTypes
  <2> QED
    BY <2>2, <2>4, <2>5, <2>6, PageSteps
<1>2. CASE Account(b)!SignOut
  <2>2. /\ pagesPage.at = "app" /\ signed' = "nobody" /\ pagesPage' = Account(b)!Blank("login", "no link")
        /\ UNCHANGED <<password, link, pagesCall, attempts>> /\ UNCHANGED <<sent, moves, languages, pagesFaults>>
    BY <1>2 DEF Account!SignOut, Account!counters, Account!NoAccount, Account!NoLink
  <2>3. pagesPage' \in Shows(b) /\ pagesPage'.at = "login"
    BY <2>2 DEF Account!Blank, Shows, Guest
  <2>4. PageGood(b, pagesPage', link, attempts, pagesFaults)
    BY <2>3 DEF PageGood
  <2>5. \A c \in b.calls : SameRequest(pagesCall'[c], pagesCall[c]) /\ Heard(pagesCall'[c], pagesPage')
    <3>1. \A c \in b.calls : pagesCall[c].kind # "app"
      BY <1>0 DEF AccountTypes, Requests, Guest
    <3> QED
      BY <2>2, <3>1 DEF AccountInv, Carries, Heard, SameRequest
  <2>6. AccountTypes(b, password', link', signed', pagesPage', pagesCall') /\ Counted(b, sent', moves', languages', pagesFaults')
    BY <1>0, <2>2, <2>3 DEF AccountTypes
  <2> QED
    BY <2>2, <2>4, <2>5, <2>6, PageSteps
<1> QED
  BY <1>1, <1>2

(* The answers: the request is over, and what its page shows is true.      *)
LEMMA AnsweredStep ==
  ASSUME NEW b, Account(b)!AccountPagesAssumption, AccountInv(b), NEW c \in b.calls,
         Account(b)!Succeed(c) \/ Account(b)!Fail(c)
  PROVE  AccountInv(b)'
<1> DEFINE q == pagesCall[c]
<1>0. /\ AccountTypes(b, password, link, signed, pagesPage, pagesCall)
      /\ Counted(b, sent, moves, languages, pagesFaults)
      /\ PageGood(b, pagesPage, link, attempts, pagesFaults)
      /\ Carries(b, q) /\ Heard(q, pagesPage) /\ Tried(q, link, attempts, pagesFaults)
      /\ q \in Requests(b) /\ pagesPage \in Shows(b)
  BY AccountTypesAre DEF AccountInv, AccountTypes
<1>f. /\ Account(b)!Free \in Requests(b) /\ Account(b)!Free.kind = "none" /\ Account(b)!Free.at = "idle"
      /\ Account(b)!Free.ear = "none"
  BY DEF Account!Free, Account!NoLink, Requests
<1>u. UNCHANGED <<password, link, attempts>> /\ UNCHANGED <<sent, moves, languages, pagesFaults>>
  BY DEF Account!Succeed, Account!Fail, Account!counters
<1>1. ASSUME pagesCall' \in {[pagesCall EXCEPT ![c] = Account(b)!Free], [Account(b)!Left EXCEPT ![c] = Account(b)!Free]},
             pagesPage' \in Shows(b), signed' \in b.names \cup {"nobody"}, signed' # "nobody" => pagesPage'.at \notin Guest,
             PageGood(b, pagesPage', link, attempts, pagesFaults),
             pagesCall' = [Account(b)!Left EXCEPT ![c] = Account(b)!Free]
               \/ (pagesPage'.at = pagesPage.at /\ pagesPage'.link = pagesPage.link)
      PROVE  AccountInv(b)'
  <2>1. Account(b)!Left \in [b.calls -> Requests(b)]
        /\ \A d \in b.calls : SameRequest(Account(b)!Left[d], pagesCall[d]) /\ Account(b)!Left[d].ear # "page"
    BY LeftIs
  <2>2. AccountTypes(b, password', link', signed', pagesPage', pagesCall')
    BY <1>0, <1>f, <1>u, <1>1, <2>1 DEF AccountTypes
  <2>3. \A d \in b.calls : \/ pagesCall'[d].kind = "none" /\ pagesCall'[d].at = "idle" /\ pagesCall'[d].ear = "none"
                           \/ SameRequest(pagesCall'[d], pagesCall[d]) /\ Heard(pagesCall'[d], pagesPage')
    <3>1. pagesCall'[c] = Account(b)!Free
      BY <1>0, <1>1, <2>1 DEF AccountTypes
    <3>2. ASSUME NEW d \in b.calls, d # c
          PROVE  SameRequest(pagesCall'[d], pagesCall[d]) /\ Heard(pagesCall'[d], pagesPage')
      <4>1. CASE pagesCall' = [Account(b)!Left EXCEPT ![c] = Account(b)!Free]
        BY <2>1, <3>2, <4>1 DEF Heard
      <4>2. CASE pagesCall' = [pagesCall EXCEPT ![c] = Account(b)!Free] /\ pagesPage'.at = pagesPage.at /\ pagesPage'.link = pagesPage.link
        <5>1. pagesCall'[d] = pagesCall[d]
          BY <1>0, <3>2, <4>2 DEF AccountTypes
        <5> QED
          BY <4>2, <5>1 DEF AccountInv, Heard, SameRequest, Carries
      <4> QED
        BY <1>1, <4>1, <4>2
    <3> QED
      BY <1>f, <3>1, <3>2
  <2>4. Counted(b, sent', moves', languages', pagesFaults')
    BY <1>0, <1>u
  <2> QED
    BY <1>1, <1>u, <2>2, <2>3, <2>4, PageSteps
<1>2. CASE Account(b)!Fail(c)
  <2>1. /\ q.at = "refused" /\ signed' = signed /\ pagesCall' = [pagesCall EXCEPT ![c] = Account(b)!Free]
        /\ pagesPage' = IF q.ear # "page" THEN pagesPage
                        ELSE [pagesPage EXCEPT !.error = TRUE,
                                               !.message = IF q.kind \in {"forgot", "verify"} THEN "" ELSE pagesPage.message]
    BY <1>2 DEF Account!Fail
  <2>2. /\ pagesPage' \in Shows(b) /\ pagesPage'.at = pagesPage.at /\ pagesPage'.link = pagesPage.link
        /\ pagesPage' = pagesPage \/ q.ear = "page"
    BY <1>0, <2>1 DEF Shows
  <2>3. PageGood(b, pagesPage', link, attempts, pagesFaults)
    <3>1. CASE pagesPage' = pagesPage
      BY <1>0, <3>1
    <3>2. CASE q.ear = "page"
      BY <1>0, <2>1, <2>2, <3>2 DEF PageGood, Heard, Tried
    <3> QED
      BY <2>2, <3>1, <3>2
  <2>4. signed' \in b.names \cup {"nobody"} /\ (signed' # "nobody" => pagesPage'.at \notin Guest)
    BY <1>0, <2>1, <2>2 DEF AccountTypes
  <2> QED
    BY <1>1, <2>1, <2>2, <2>3, <2>4
<1>3. CASE Account(b)!Succeed(c) /\ pagesCall' = [pagesCall EXCEPT ![c] = Account(b)!Free] /\ UNCHANGED <<signed, pagesPage>>
  BY <1>0, <1>1, <1>3 DEF AccountTypes
<1>4. ASSUME q.kind = "login", signed' = q.name, pagesPage' = Account(b)!Blank("app", "no link"),
             pagesCall' = [Account(b)!Left EXCEPT ![c] = Account(b)!Free]
      PROVE  AccountInv(b)'
  <2>1. pagesPage' \in Shows(b) /\ pagesPage'.at = "app"
    BY <1>4 DEF Account!Blank, Shows, Guest
  <2>2. PageGood(b, pagesPage', link, attempts, pagesFaults) /\ signed' \in b.names \cup {"nobody"} /\ pagesPage'.at \notin Guest
    BY <1>0, <1>4, <2>1 DEF PageGood, Carries, Guest
  <2> QED
    BY <1>1, <1>4, <2>1, <2>2
<1>5. ASSUME signed' = signed, pagesPage' = Account(b)!Route("login", "no link", signed),
             pagesCall' = [Account(b)!Left EXCEPT ![c] = Account(b)!Free]
      PROVE  AccountInv(b)'
  <2>1. pagesPage' \in Shows(b) /\ pagesPage'.at \in {"login", "app"} /\ (signed # "nobody" => pagesPage'.at = "app")
    BY <1>5 DEF Account!Route, Account!Blank, Account!NoAccount, Account!Public, Shows, Guest
  <2>2. PageGood(b, pagesPage', link, attempts, pagesFaults) /\ signed' \in b.names \cup {"nobody"} /\ (signed' # "nobody" => pagesPage'.at \notin Guest)
    BY <1>0, <1>5, <2>1 DEF PageGood, Guest, AccountTypes
  <2> QED
    BY <1>1, <1>5, <2>1, <2>2
<1>6. ASSUME signed' = signed, pagesCall' = [pagesCall EXCEPT ![c] = Account(b)!Free], q.kind \in {"forgot", "verify"},
             pagesPage' = IF q.kind = "forgot" THEN [pagesPage EXCEPT !.message = "sent"]
                          ELSE [pagesPage EXCEPT !.message = "verified", !.error = FALSE]
      PROVE  AccountInv(b)'
  <2>1. /\ pagesPage' \in Shows(b) /\ pagesPage'.at = pagesPage.at /\ pagesPage'.link = pagesPage.link
        /\ pagesPage'.error => pagesPage.error
    BY <1>0, <1>6 DEF Shows
  <2>2. PageGood(b, pagesPage', link, attempts, pagesFaults) /\ signed' \in b.names \cup {"nobody"} /\ (signed' # "nobody" => pagesPage'.at \notin Guest)
    BY <1>0, <1>6, <2>1 DEF PageGood, AccountTypes
  <2> QED
    BY <1>1, <1>6, <2>1, <2>2
<1>7. CASE Account(b)!Succeed(c) /\ ~(pagesCall' = [pagesCall EXCEPT ![c] = Account(b)!Free] /\ UNCHANGED <<signed, pagesPage>>)
  BY <1>4, <1>5, <1>6, <1>7 DEF Account!Succeed, Account!NoLink
<1> QED
  BY <1>2, <1>3, <1>7

(* A request is sent: by a page that shows what the request must carry.    *)
LEMMA SendStep ==
  ASSUME NEW b, Account(b)!AccountPagesAssumption, AccountInv(b),
         NEW k \in Guest \cup {"verify"}, NEW o, Account(b)!Send(k, o), UNCHANGED <<password, link, signed, pagesFaults>>,
         o \in [b.calls -> Requests(b)],
         \A d \in b.calls : SameRequest(o[d], pagesCall[d]) /\ Heard(o[d], pagesPage'),
         pagesPage' \in Shows(b), pagesPage'.at = k, signed # "nobody" => k \notin Guest,
         k \in {"login", "register", "forgot"} => pagesPage'.name \in b.names,
         k \in {"login", "register", "reset"} => pagesPage'.password \in b.passwords,
         PageGood(b, pagesPage', link, attempts, pagesFaults),
         moves' \in 0 .. b.moves, languages' \in 0 .. b.languages
  PROVE  AccountInv(b)'
<1>0. /\ AccountTypes(b, password, link, signed, pagesPage, pagesCall)
      /\ Counted(b, sent, moves, languages, pagesFaults)
      /\ attempts \in [b.resets \cup b.verifications -> Nat] /\ pagesFaults \in Nat
  <2>1. /\ AccountTypes(b, password, link, signed, pagesPage, pagesCall)
        /\ Counted(b, sent, moves, languages, pagesFaults)
        /\ attempts \in [b.resets \cup b.verifications -> Nat]
    BY AccountTypesAre DEF AccountInv
  <2> QED
    BY <2>1 DEF Counted, Account!AccountPagesAssumption
<1>1. PICK c \in b.calls : /\ o[c] = Account(b)!Free
                           /\ pagesCall' = [o EXCEPT ![c] = [kind |-> k, name |-> pagesPage'.name, password |-> pagesPage'.password,
                                                             link |-> pagesPage'.link, at |-> "asked", ear |-> "page"]]
  BY DEF Account!Send
<1> DEFINE q == [kind |-> k, name |-> pagesPage'.name, password |-> pagesPage'.password,
                 link |-> pagesPage'.link, at |-> "asked", ear |-> "page"]
           r == pagesPage'.link
<1>2. /\ sent' = sent + 1 /\ sent < b.sent
      /\ attempts' = IF r \in b.resets \cup b.verifications THEN [attempts EXCEPT ![r] = @ + 1] ELSE attempts
  BY DEF Account!Send, Account!Links
<1>3. Counted(b, sent', moves', languages', pagesFaults')
  <2>1. sent' \in 0 .. b.sent
    BY <1>0, <1>2 DEF Counted, Account!AccountPagesAssumption
  <2> QED
    BY <1>0, <2>1 DEF Counted
<1>4. /\ attempts' \in [b.resets \cup b.verifications -> Nat]
      /\ \A x \in b.resets \cup b.verifications : attempts'[x] >= attempts[x]
      /\ r \in b.resets \cup b.verifications => attempts'[r] = attempts[r] + 1
  BY <1>0, <1>2
<1>5. Grown(b, password, link, attempts, pagesFaults, password, link, attempts', pagesFaults)
  BY <1>0, <1>4 DEF Grown
<1>6. /\ q \in Requests(b) /\ Carries(b, q) /\ Heard(q, pagesPage')
      /\ k = "reset" => r \in b.resets
      /\ k = "verify" => r \in b.verifications
  <2>1. (k = "reset" => r \in b.resets) /\ (k = "verify" => r \in b.verifications)
    BY DEF PageGood
  <2>2. q \in Requests(b)
    BY DEF Requests, Shows
  <2>3. k # "none"
    BY DEF Guest
  <2> QED
    BY <2>1, <2>2, <2>3 DEF Carries, Heard
<1>7. \A d \in b.calls : pagesCall'[d] = IF d = c THEN q ELSE o[d]
  BY <1>1
<1>8. pagesCall' \in [b.calls -> Requests(b)]
  BY <1>1, <1>6
<1>9. AccountTypes(b, password', link', signed', pagesPage', pagesCall')
  BY <1>0, <1>8 DEF AccountTypes
<1>10. LinksGood(b, link', attempts')
  <2>1. \A x \in b.verifications : link[x].state = "used" => attempts'[x] > 0
    <3>1. ASSUME NEW x \in b.verifications, link[x].state = "used" PROVE attempts'[x] > 0
      <4>1. attempts[x] > 0
        BY <3>1 DEF AccountInv, LinksGood
      <4>2. attempts[x] \in Nat /\ attempts'[x] \in Nat /\ attempts'[x] >= attempts[x]
        BY <1>0, <1>4
      <4> QED
        BY <4>1, <4>2, GrowsPast
    <3> QED
      BY <3>1
  <2> QED
    BY <2>1 DEF AccountInv, LinksGood
<1>11. PageGood(b, pagesPage', link', attempts', pagesFaults')
  <2>1. pagesPage'.at = "verify" /\ pagesPage'.error => Excused(r, link, attempts', pagesFaults)
    BY <1>5, <1>6, ExcusedStays DEF PageGood
  <2> QED
    BY <2>1 DEF PageGood
<1>12. k = "verify" => attempts'[r] > 0 /\ (attempts[r] > 0 => attempts'[r] > 1)
  <2>1. SUFFICES ASSUME k = "verify" PROVE attempts'[r] > 0 /\ (attempts[r] > 0 => attempts'[r] > 1)
    OBVIOUS
  <2>2. attempts[r] \in Nat /\ attempts'[r] = attempts[r] + 1
    BY <1>0, <1>4, <1>6, <2>1
  <2> HIDE DEF r
  <2> QED
    BY <2>2
<1>13. ASSUME NEW d \in b.calls
       PROVE  /\ Carries(b, pagesCall'[d]) /\ Heard(pagesCall'[d], pagesPage')
              /\ Registered(b, pagesCall'[d], password', link')
              /\ Tried(pagesCall'[d], link', attempts', pagesFaults')
  <2>1. CASE d = c
    <3>1. pagesCall'[d] = q
      BY <1>7, <2>1
    <3>2. Registered(b, q, password', link')
      BY DEF Registered
    <3>3. Tried(q, link', attempts', pagesFaults')
      <4>1. k = "verify" => (link'[r].state = "used" => attempts'[r] > 1)
        BY <1>6, <1>12 DEF AccountInv, LinksGood
      <4> QED
        BY <1>12, <4>1 DEF Tried
    <3> QED
      BY <1>6, <3>1, <3>2, <3>3
  <2>2. CASE d # c
    <3>1. pagesCall'[d] = o[d] /\ SameRequest(o[d], pagesCall[d]) /\ Heard(o[d], pagesPage')
      BY <1>7, <2>2
    <3>2. /\ Carries(b, pagesCall[d]) /\ Registered(b, pagesCall[d], password, link)
          /\ Tried(pagesCall[d], link, attempts, pagesFaults)
      BY DEF AccountInv
    <3>3. Registered(b, pagesCall[d], password, link) /\ Tried(pagesCall[d], link, attempts', pagesFaults)
      BY <1>5, <3>2, KnownStays DEF Account!AccountPagesAssumption, Account!NotSet
    <3> QED
      BY <3>1, <3>2, <3>3 DEF Carries, Registered, Tried, SameRequest
  <2> QED
    BY <2>1, <2>2
<1>14. ASSUME NEW d \in b.calls, NEW e \in b.calls, NEW x \in b.verifications, d # e,
              Asking(pagesCall'[d], x), Asking(pagesCall'[e], x)
       PROVE  attempts'[x] > 1
  <2>1. CASE d # c /\ e # c
    <3>1. Asking(pagesCall[d], x) /\ Asking(pagesCall[e], x)
      BY <1>7, <1>14, <2>1 DEF Asking, SameRequest
    <3>2. attempts[x] > 1
      BY <1>14, <3>1 DEF AccountInv
    <3>3. attempts[x] \in Nat /\ attempts'[x] \in Nat /\ attempts'[x] >= attempts[x]
      BY <1>0, <1>4
    <3> QED
      BY <3>2, <3>3, GrowsPast
  <2>2. ASSUME NEW f \in b.calls, f # c, Asking(pagesCall'[f], x), Asking(pagesCall'[c], x)
        PROVE  attempts'[x] > 1
    <3>1. k = "verify" /\ x = r
      BY <1>7, <2>2 DEF Asking
    <3>2. Asking(pagesCall[f], x)
      BY <1>7, <2>2 DEF Asking, SameRequest
    <3>3. attempts[x] > 0
      BY <3>2 DEF AccountInv, Tried, Asking
    <3> QED
      BY <1>12, <3>1, <3>3
  <2> QED
    BY <1>14, <2>1, <2>2
<1> QED
  <2>1. Account(b)!TypeOK'
    BY <1>3, <1>9, AccountTypesNext
  <2> QED
    BY <1>4, <1>10, <1>11, <1>13, <1>14, <2>1 DEF AccountInv

LEMMA SenderSteps ==
  ASSUME NEW b, Account(b)!AccountPagesAssumption, AccountInv(b),
         \/ Account(b)!Submit \/ Account(b)!Language
         \/ \E l \in b.resets \cup b.verifications : Account(b)!Open(l)
  PROVE  AccountInv(b)'
<1>0. /\ AccountTypes(b, password, link, signed, pagesPage, pagesCall)
      /\ Counted(b, sent, moves, languages, pagesFaults)
      /\ PageGood(b, pagesPage, link, attempts, pagesFaults)
      /\ pagesPage \in Shows(b)
  BY AccountTypesAre DEF AccountInv, AccountTypes
<1>1. /\ pagesCall \in [b.calls -> Requests(b)]
      /\ \A d \in b.calls : SameRequest(pagesCall[d], pagesCall[d]) /\ Heard(pagesCall[d], pagesPage)
  BY <1>0 DEF AccountInv, AccountTypes, SameRequest, Carries
<1>2. CASE Account(b)!Submit
  <2>1. /\ pagesPage.at \in Guest
        /\ pagesPage.at # "reset" => pagesPage.name # ""
        /\ pagesPage.at # "forgot" => pagesPage.password # ""
        /\ pagesPage' = IF pagesPage.at = "reset" THEN pagesPage ELSE [pagesPage EXCEPT !.error = FALSE]
        /\ Account(b)!Send(pagesPage.at, pagesCall) /\ UNCHANGED <<password, link, signed, pagesFaults>> /\ UNCHANGED <<moves, languages>>
    BY <1>2 DEF Account!Submit, Account!Public, Guest
  <2>2. /\ pagesPage' \in Shows(b) /\ pagesPage'.at = pagesPage.at /\ pagesPage'.link = pagesPage.link
        /\ pagesPage'.name = pagesPage.name /\ pagesPage'.password = pagesPage.password
        /\ pagesPage'.error => pagesPage.error
    BY <1>0, <2>1 DEF Shows
  <2>3. PageGood(b, pagesPage', link, attempts, pagesFaults)
    BY <1>0, <2>2 DEF PageGood
  <2>4. \A d \in b.calls : SameRequest(pagesCall[d], pagesCall[d]) /\ Heard(pagesCall[d], pagesPage')
    BY <1>1, <2>2 DEF Heard
  <2>5. /\ pagesPage.at # "reset" => pagesPage'.name \in b.names
        /\ pagesPage.at # "forgot" => pagesPage'.password \in b.passwords
    BY <1>0, <2>1, <2>2 DEF Shows
  <2>6. signed # "nobody" => pagesPage.at \notin Guest
    BY <1>0 DEF AccountTypes
  <2>7. moves' \in 0 .. b.moves /\ languages' \in 0 .. b.languages
    BY <1>0, <2>1 DEF Counted
  <2>8. pagesPage.at \in Guest \cup {"verify"}
    BY <2>1
  <2>9. /\ pagesPage.at \in {"login", "register", "forgot"} => pagesPage'.name \in b.names
        /\ pagesPage.at \in {"login", "register", "reset"} => pagesPage'.password \in b.passwords
    BY <2>5
  <2> QED
    BY <1>1, <2>1, <2>2, <2>3, <2>4, <2>6, <2>7, <2>8, <2>9, SendStep
<1>3. CASE Account(b)!Language
  <2>1. /\ pagesPage.at = "verify" /\ pagesPage' = [pagesPage EXCEPT !.message = "loading", !.error = FALSE]
        /\ languages < b.languages /\ languages' = languages + 1
        /\ Account(b)!Send("verify", pagesCall) /\ UNCHANGED <<password, link, signed, pagesFaults>> /\ moves' = moves
    BY <1>3 DEF Account!Language
  <2>2. /\ pagesPage' \in Shows(b) /\ pagesPage'.at = "verify" /\ pagesPage'.link = pagesPage.link
        /\ pagesPage'.error = FALSE
    BY <1>0, <2>1 DEF Shows
  <2>3. PageGood(b, pagesPage', link, attempts, pagesFaults)
    BY <1>0, <2>1, <2>2 DEF PageGood
  <2>4. \A d \in b.calls : SameRequest(pagesCall[d], pagesCall[d]) /\ Heard(pagesCall[d], pagesPage')
    BY <1>1, <2>1, <2>2 DEF Heard
  <2>5. moves' \in 0 .. b.moves /\ languages' \in 0 .. b.languages
    BY <1>0, <2>1 DEF Counted, Account!AccountPagesAssumption
  <2>6. "verify" \in Guest \cup {"verify"} /\ "verify" \notin Guest /\ "verify" \notin {"login", "register", "forgot", "reset"}
    BY DEF Guest
  <2> QED
    BY <1>1, <2>1, <2>2, <2>3, <2>4, <2>5, <2>6, SendStep
<1>4. CASE \E l \in b.resets \cup b.verifications : Account(b)!Open(l)
  <2>1. PICK l \in b.resets \cup b.verifications : Account(b)!Open(l)
    BY <1>4
  <2>2. /\ moves < b.moves /\ moves' = moves + 1
        /\ pagesPage' = IF l \in b.resets THEN Account(b)!Route("reset", l, signed) ELSE Account(b)!Verifying(l)
        /\ UNCHANGED <<password, link, signed, pagesFaults>> /\ languages' = languages
    BY <2>1 DEF Account!Open
  <2>3. moves' \in 0 .. b.moves /\ languages' \in 0 .. b.languages
    BY <1>0, <2>2 DEF Counted, Account!AccountPagesAssumption
  <2>4. /\ Account(b)!Unheard \in [b.calls -> Requests(b)]
        /\ \A d \in b.calls : SameRequest(Account(b)!Unheard[d], pagesCall[d]) /\ Account(b)!Unheard[d].ear # "page"
    BY LeftIs
  <2>5. \A d \in b.calls : SameRequest(Account(b)!Unheard[d], pagesCall[d]) /\ Heard(Account(b)!Unheard[d], pagesPage')
    BY <2>4 DEF Heard
  <2>6. CASE l \in b.verifications
    <3>1. l \notin b.resets
      BY <2>6 DEF Account!AccountPagesAssumption
    <3>2. Account(b)!Send("verify", Account(b)!Unheard)
      BY <2>1, <2>6 DEF Account!Open
    <3>3. /\ pagesPage' \in Shows(b) /\ pagesPage'.at = "verify" /\ pagesPage'.link = l /\ pagesPage'.error = FALSE
      BY <2>2, <2>6, <3>1 DEF Account!Verifying, Account!Blank, Shows
    <3>4. PageGood(b, pagesPage', link, attempts, pagesFaults)
      BY <2>6, <3>3 DEF PageGood
    <3>5. "verify" \in Guest \cup {"verify"} /\ "verify" \notin Guest /\ "verify" \notin {"login", "register", "forgot", "reset"}
      BY DEF Guest
    <3> QED
      BY <2>2, <2>3, <2>4, <2>5, <3>2, <3>3, <3>4, <3>5, SendStep
  <2>7. CASE l \notin b.verifications
    <3>1. pagesCall' = Account(b)!Unheard /\ UNCHANGED <<attempts, sent>>
      BY <2>1, <2>7 DEF Account!Open
    <3>2. /\ pagesPage' \in Shows(b) /\ pagesPage'.link = l /\ pagesPage'.error = FALSE
          /\ pagesPage'.at = IF signed # "nobody" THEN "app" ELSE "reset"
      BY <2>2, <2>7 DEF Account!Route, Account!Blank, Account!Public, Account!NoAccount, Shows, Guest
    <3>3. PageGood(b, pagesPage', link, attempts, pagesFaults) /\ (signed' # "nobody" => pagesPage'.at \notin Guest)
      BY <2>2, <2>7, <3>2 DEF PageGood, Guest
    <3>4. AccountTypes(b, password', link', signed', pagesPage', pagesCall')
      BY <1>0, <2>2, <2>4, <3>1, <3>2, <3>3 DEF AccountTypes
    <3>5. Counted(b, sent', moves', languages', pagesFaults')
      BY <1>0, <2>2, <2>3, <3>1 DEF Counted
    <3> QED
      BY <2>2, <2>5, <3>1, <3>3, <3>4, <3>5, PageSteps
  <2> QED
    BY <2>6, <2>7
<1> QED
  BY <1>2, <1>3, <1>4

(* The server and the network: what was known of a request stays known, or *)
(* the step says what becomes of it.                                       *)
LEMMA ServerStep ==
  ASSUME NEW b, Account(b)!AccountPagesAssumption, AccountInv(b), UNCHANGED <<signed, pagesPage, attempts>>,
         Counted(b, sent', moves', languages', pagesFaults'),
         Grown(b, password, link, attempts, pagesFaults, password', link', attempts, pagesFaults'),
         password' \in [b.names -> b.passwords \cup {"not set"}],
         link' \in [b.resets \cup b.verifications -> Letters(b)], LinksGood(b, link', attempts),
         pagesCall' \in [b.calls -> Requests(b)],
         \A d \in b.calls :
           \/ /\ pagesCall'[d] = pagesCall[d]
              /\ pagesCall[d].kind = "verify" /\ pagesCall[d].at = "asked" /\ link'[pagesCall[d].link].state = "used"
                   => link[pagesCall[d].link].state = "used" \/ attempts[pagesCall[d].link] > 1
           \/ /\ \E z \in {"done", "refused"} : pagesCall'[d] = [pagesCall[d] EXCEPT !.at = z]
              /\ pagesCall[d].at # "idle"
              /\ Registered(b, pagesCall'[d], password', link') /\ Tried(pagesCall'[d], link', attempts, pagesFaults')
  PROVE  AccountInv(b)'
<1>0. /\ AccountTypes(b, password, link, signed, pagesPage, pagesCall)
      /\ PageGood(b, pagesPage, link, attempts, pagesFaults)
  BY AccountTypesAre DEF AccountInv
<1>1. AccountTypes(b, password', link', signed', pagesPage', pagesCall')
  BY <1>0 DEF AccountTypes
<1>2. PageGood(b, pagesPage', link', attempts, pagesFaults')
  <2>1. pagesPage.at = "forgot" /\ pagesPage.error => pagesFaults' > 0
    <3>1. pagesFaults \in Nat /\ pagesFaults' \in Nat /\ pagesFaults' >= pagesFaults
      BY DEF Grown
    <3>2. pagesFaults > 0 => pagesFaults' > 0
      BY <3>1, GrowsPast
    <3> QED
      BY <1>0, <3>2 DEF PageGood
  <2>2. ASSUME pagesPage.at = "verify", pagesPage.error PROVE Excused(pagesPage.link, link', attempts, pagesFaults')
    <3>1. pagesPage.link \in b.resets \cup b.verifications /\ Excused(pagesPage.link, link, attempts, pagesFaults)
      BY <1>0, <2>2 DEF PageGood
    <3> QED
      BY <3>1, ExcusedStays
  <2> QED
    BY <1>0, <2>1, <2>2 DEF PageGood
<1>3. ASSUME NEW d \in b.calls
      PROVE  /\ Carries(b, pagesCall'[d]) /\ Heard(pagesCall'[d], pagesPage')
             /\ Registered(b, pagesCall'[d], password', link')
             /\ Tried(pagesCall'[d], link', attempts, pagesFaults')
             /\ pagesCall'[d] = pagesCall[d] \/ pagesCall'[d].at # "asked"
  <2>0. /\ Carries(b, pagesCall[d]) /\ Heard(pagesCall[d], pagesPage)
        /\ Registered(b, pagesCall[d], password, link) /\ Tried(pagesCall[d], link, attempts, pagesFaults)
        /\ pagesCall[d] \in Requests(b)
    BY <1>0 DEF AccountInv, AccountTypes
  <2>1. CASE /\ pagesCall'[d] = pagesCall[d]
             /\ pagesCall[d].kind = "verify" /\ pagesCall[d].at = "asked" /\ link'[pagesCall[d].link].state = "used"
                  => link[pagesCall[d].link].state = "used" \/ attempts[pagesCall[d].link] > 1
    <3>1. Registered(b, pagesCall[d], password', link') /\ Tried(pagesCall[d], link', attempts, pagesFaults')
      BY <2>0, <2>1, KnownStays DEF Account!AccountPagesAssumption, Account!NotSet
    <3> QED
      BY <2>0, <2>1, <3>1
  <2>2. ASSUME NEW z \in {"done", "refused"}, pagesCall'[d] = [pagesCall[d] EXCEPT !.at = z], pagesCall[d].at # "idle"
        PROVE  Carries(b, pagesCall'[d]) /\ Heard(pagesCall'[d], pagesPage') /\ pagesCall'[d].at # "asked"
    BY <2>0, <2>2 DEF Requests, Carries, Heard
  <2> QED
    BY <2>1, <2>2
<1>4. ASSUME NEW d \in b.calls, NEW e \in b.calls, NEW x \in b.verifications, d # e,
             Asking(pagesCall'[d], x), Asking(pagesCall'[e], x)
      PROVE  attempts'[x] > 1
  <2>1. pagesCall'[d] = pagesCall[d] /\ pagesCall'[e] = pagesCall[e]
    BY <1>3, <1>4 DEF Asking
  <2> QED
    BY <1>4, <2>1 DEF AccountInv
<1> QED
  <2>1. Account(b)!TypeOK'
    BY <1>1, AccountTypesNext
  <2> QED
    BY <1>2, <1>3, <1>4, <2>1 DEF AccountInv

LEMMA ServedStep ==
  ASSUME NEW b, Account(b)!AccountPagesAssumption, AccountInv(b), NEW c \in b.calls, Account(b)!Serve(c)
  PROVE  AccountInv(b)'
<1> DEFINE q == pagesCall[c]
           G(w, l) == Grown(b, password, link, attempts, pagesFaults, w, l, attempts, pagesFaults)
<1>0. /\ AccountTypes(b, password, link, signed, pagesPage, pagesCall)
      /\ Counted(b, sent, moves, languages, pagesFaults)
      /\ LinksGood(b, link, attempts) /\ Carries(b, q) /\ Tried(q, link, attempts, pagesFaults) /\ q \in Requests(b)
      /\ \A d \in b.calls : Carries(b, pagesCall[d])
  BY AccountTypesAre DEF AccountInv, AccountTypes
<1>1. /\ UNCHANGED <<signed, pagesPage, attempts>> /\ UNCHANGED <<sent, moves, languages, pagesFaults>> /\ q.at = "asked"
      /\ Account(b)!ServeRegister(c) \/ Account(b)!ServeLogin(c) \/ Account(b)!ServeForgot(c) \/ Account(b)!ServeLink(c)
  BY DEF Account!Serve, Account!counters
<1>2. G(password, link) /\ pagesFaults \in Nat /\ \A r \in b.resets \cup b.verifications : attempts[r] \in Nat
  BY GrownItself DEF AccountInv, Grown
<1>3. Counted(b, sent', moves', languages', pagesFaults')
  BY <1>0, <1>1
<1>w. /\ password \in [b.names -> b.passwords \cup {"not set"}]
      /\ link \in [b.resets \cup b.verifications -> Letters(b)]
      /\ pagesCall \in [b.calls -> Requests(b)]
  BY <1>0 DEF AccountTypes
<1>4. ASSUME NEW z \in {"done", "refused"}, pagesCall' = [pagesCall EXCEPT ![c].at = z], G(password', link'),
             password' \in [b.names -> b.passwords \cup {"not set"}],
             link' \in [b.resets \cup b.verifications -> Letters(b)], LinksGood(b, link', attempts),
             q.kind = "register" /\ z = "done" => password'[q.name] = q.password,
             q.kind = "forgot" => z = "done",
             q.kind = "verify" /\ z = "refused" => Excused(q.link, link, attempts, pagesFaults),
             \A r \in b.verifications : link'[r].state = "used" => link[r].state = "used" \/ (q.kind = "verify" /\ q.link = r)
      PROVE  AccountInv(b)'
  <2>0. [q EXCEPT !.at = z] \in Requests(b) /\ [q EXCEPT !.at = z].at = z
    BY <1>0, <1>4 DEF Requests
  <2>1. pagesCall' \in [b.calls -> Requests(b)]
    BY <1>w, <1>4, <2>0
  <2>2. pagesCall'[c] = [q EXCEPT !.at = z]
    BY <1>w, <1>4
  <2>x. /\ pagesCall'[c].kind = q.kind /\ pagesCall'[c].name = q.name /\ pagesCall'[c].password = q.password
        /\ pagesCall'[c].link = q.link /\ pagesCall'[c].at = z
    BY <1>0, <2>2 DEF Requests
  <2>3. Registered(b, pagesCall'[c], password', link')
    BY <1>4, <2>x DEF Registered, MaySignIn
  <2>4. Tried(pagesCall'[c], link', attempts, pagesFaults')
    <3>1. ASSUME q.kind = "verify", z = "refused" PROVE Excused(q.link, link', attempts, pagesFaults')
      <4>1. Excused(q.link, link, attempts, pagesFaults) /\ q.link \in b.resets \cup b.verifications
        BY <1>0, <1>4, <3>1 DEF Carries
      <4>2. Grown(b, password, link, attempts, pagesFaults, password', link', attempts, pagesFaults)
        BY <1>4
      <4>3. Excused(q.link, link', attempts, pagesFaults)
        BY <4>1, <4>2, ExcusedStays
      <4> QED
        BY <1>1, <4>3
    <3>2. z # "asked" /\ (q.kind = "forgot" => z # "refused")
      BY <1>4
    <3> QED
      BY <2>x, <3>1, <3>2 DEF Tried
  <2>5. ASSUME NEW d \in b.calls, d # c
        PROVE  /\ pagesCall'[d] = pagesCall[d]
               /\ pagesCall[d].kind = "verify" /\ pagesCall[d].at = "asked" /\ link'[pagesCall[d].link].state = "used"
                    => link[pagesCall[d].link].state = "used" \/ attempts[pagesCall[d].link] > 1
    <3>1. pagesCall'[d] = pagesCall[d]
      BY <1>w, <1>4, <2>5
    <3>2. ASSUME pagesCall[d].kind = "verify", pagesCall[d].at = "asked", link'[pagesCall[d].link].state = "used",
                 link[pagesCall[d].link].state # "used"
          PROVE  attempts[pagesCall[d].link] > 1
      <4>1. pagesCall[d].link \in b.verifications /\ q.kind = "verify" /\ q.link = pagesCall[d].link
        BY <1>0, <1>4, <3>2 DEF Carries
      <4>2. Asking(q, q.link) /\ Asking(pagesCall[d], q.link)
        BY <1>1, <3>2, <4>1 DEF Asking
      <4> QED
        BY <2>5, <4>1, <4>2 DEF AccountInv
    <3> QED
      BY <3>1, <3>2
  <2>6. q.at # "idle"
    BY <1>1
  <2>7. Grown(b, password, link, attempts, pagesFaults, password', link', attempts, pagesFaults')
    BY <1>1, <1>4
  <2> QED
    BY <1>1, <1>3, <1>4, <2>1, <2>2, <2>3, <2>4, <2>5, <2>6, <2>7, ServerStep
<1>5. CASE Account(b)!ServeRegister(c)
  <2>1. CASE password[q.name] = "not set"
    <3>1. /\ q.kind = "register" /\ link' = link /\ password' = [password EXCEPT ![q.name] = q.password]
          /\ pagesCall' = [pagesCall EXCEPT ![c].at = "done"]
      BY <1>5, <2>1 DEF Account!ServeRegister, Account!NotSet
    <3>2. q.name \in b.names /\ q.password \in b.passwords
      BY <1>0, <3>1 DEF Carries
    <3>3. /\ password' \in [b.names -> b.passwords \cup {"not set"}] /\ password'[q.name] = q.password
          /\ \A n \in b.names : password'[n] = password[n] \/ password[n] = "not set"
      BY <1>w, <2>1, <3>1, <3>2
    <3>4. G(password', link')
      BY <1>2, <3>1, <3>3 DEF Grown
    <3> QED
      BY <1>0, <1>w, <1>4, <3>1, <3>3, <3>4
  <2>2. CASE password[q.name] # "not set"
    <3>1. /\ q.kind = "register" /\ link' = link /\ password' = password
          /\ pagesCall' = [pagesCall EXCEPT ![c].at = "refused"]
      BY <1>5, <2>2 DEF Account!ServeRegister, Account!NotSet
    <3>2. G(password', link')
      BY <1>2, <3>1
    <3> QED
      BY <1>0, <1>w, <1>4, <3>1, <3>2
  <2> QED
    BY <2>1, <2>2
<1>6. CASE Account(b)!ServeLogin(c)
  <2>1. /\ q.kind = "login" /\ link' = link /\ password' = password
        /\ \E z \in {"done", "refused"} : pagesCall' = [pagesCall EXCEPT ![c].at = z]
    BY <1>6 DEF Account!ServeLogin
  <2>2. G(password', link')
    BY <1>2, <2>1
  <2> QED
    BY <1>0, <1>w, <1>4, <2>1, <2>2
<1>7. CASE Account(b)!ServeForgot(c)
  <2>1. /\ q.kind = "forgot" /\ password' = password /\ pagesCall' = [pagesCall EXCEPT ![c].at = "done"]
        /\ \/ link' = link
           \/ \E l \in b.resets : link[l].state = "unsent" /\ link' = [link EXCEPT ![l] = [for |-> q.name, state |-> "sent"]]
    BY <1>7 DEF Account!ServeForgot
  <2>2. CASE link' = link
    <3>1. G(password', link')
      BY <1>2, <2>1, <2>2
    <3> QED
      BY <1>0, <1>w, <1>4, <2>1, <2>2, <3>1
  <2>3. ASSUME NEW l \in b.resets, link[l].state = "unsent", link' = [link EXCEPT ![l] = [for |-> q.name, state |-> "sent"]]
        PROVE  AccountInv(b)'
    <3>1. q.name \in b.names
      BY <1>0, <2>1 DEF Carries
    <3>2. link' \in [b.resets \cup b.verifications -> Letters(b)]
      BY <1>w, <2>3, <3>1 DEF Letters
    <3>3. \A r \in b.resets \cup b.verifications :
            IF r = l THEN link'[r].for = q.name /\ link'[r].state = "sent" ELSE link'[r] = link[r]
      BY <1>w, <2>3
    <3>4. G(password', link')
      BY <1>2, <2>1, <2>3, <3>3 DEF Grown
    <3>5. LinksGood(b, link', attempts)
      BY <1>0, <3>1, <3>3 DEF LinksGood
    <3>6. \A r \in b.verifications : link'[r].state = "used" => link[r].state = "used"
      BY <3>3
    <3> QED
      BY <1>w, <1>4, <2>1, <3>2, <3>4, <3>5, <3>6
  <2> QED
    BY <2>1, <2>2, <2>3
<1>8. CASE Account(b)!ServeLink(c)
  <2>0. /\ q.kind \in {"reset", "verify"} /\ q.link \in b.resets \cup b.verifications
        /\ q.kind = "reset" => q.link \in b.resets /\ q.link \notin b.verifications /\ q.password \in b.passwords
        /\ q.kind = "verify" => q.link \in b.verifications /\ q.link \notin b.resets
    BY <1>0, <1>8 DEF Account!ServeLink, Carries, Account!AccountPagesAssumption
  <2>1. CASE link[q.link].state = "sent"
    <3>1. /\ link' = [link EXCEPT ![q.link].state = "used"] /\ pagesCall' = [pagesCall EXCEPT ![c].at = "done"]
          /\ password' = IF q.kind = "reset" THEN [password EXCEPT ![link[q.link].for] = q.password] ELSE password
      BY <1>8, <2>1 DEF Account!ServeLink, Account!Live
    <3>2. link' \in [b.resets \cup b.verifications -> Letters(b)]
      BY <1>w, <2>0, <3>1 DEF Letters
    <3>3. \A r \in b.resets \cup b.verifications :
            IF r = q.link THEN link'[r].for = link[r].for /\ link'[r].state = "used" ELSE link'[r] = link[r]
      BY <1>w, <2>0, <3>1 DEF Letters
    <3>4. /\ password' \in [b.names -> b.passwords \cup {"not set"}]
          /\ \A n \in b.names : password'[n] = password[n] \/ \E r \in b.resets : link'[r].for = n /\ link'[r].state = "used"
      <4>1. CASE q.kind = "reset"
        <5>1. link[q.link].for \in b.names
          BY <1>0, <2>0, <2>1 DEF LinksGood
        <5>2. \A n \in b.names : password'[n] = password[n] \/ n = link[q.link].for
          BY <1>w, <3>1, <4>1, <5>1
        <5>3. password' \in [b.names -> b.passwords \cup {"not set"}]
          BY <1>w, <2>0, <3>1, <4>1, <5>1
        <5> QED
          BY <2>0, <3>3, <4>1, <5>2, <5>3
      <4>2. CASE q.kind # "reset"
        BY <1>w, <3>1, <4>2
      <4> QED
        BY <4>1, <4>2
    <3>5. G(password', link')
      BY <1>2, <2>1, <3>3, <3>4 DEF Grown
    <3>6. LinksGood(b, link', attempts)
      <4>1. q.kind = "verify" => attempts[q.link] > 0
        BY <1>0, <1>1 DEF Tried
      <4> QED
        BY <1>0, <2>0, <3>3, <4>1 DEF LinksGood
    <3>7. \A r \in b.verifications : link'[r].state = "used" => link[r].state = "used" \/ (q.kind = "verify" /\ q.link = r)
      BY <2>0, <3>3
    <3> QED
      BY <1>4, <2>0, <3>1, <3>2, <3>4, <3>5, <3>6, <3>7
  <2>2. CASE link[q.link].state # "sent"
    <3>1. link' = link /\ password' = password /\ pagesCall' = [pagesCall EXCEPT ![c].at = "refused"]
      BY <1>8, <2>2 DEF Account!ServeLink, Account!Live
    <3>2. G(password', link')
      BY <1>2, <3>1
    <3>3. q.kind = "verify" => Excused(q.link, link, attempts, pagesFaults)
      <4>1. link[q.link] \in Letters(b)
        BY <1>w, <2>0
      <4> QED
        BY <1>0, <1>1, <2>0, <2>2, <4>1 DEF LinksGood, Letters, Tried, Excused
    <3> QED
      BY <1>0, <1>w, <1>4, <2>0, <3>1, <3>2, <3>3
  <2> QED
    BY <2>1, <2>2
<1> QED
  BY <1>1, <1>5, <1>6, <1>7, <1>8

LEMMA LostStep ==
  ASSUME NEW b, Account(b)!AccountPagesAssumption, AccountInv(b),
         \/ \E c \in b.calls : Account(b)!Lose(c)
         \/ \E l \in b.resets \cup b.verifications : Account(b)!Expire(l)
  PROVE  AccountInv(b)'
<1>0. /\ AccountTypes(b, password, link, signed, pagesPage, pagesCall)
      /\ Counted(b, sent, moves, languages, pagesFaults)
      /\ LinksGood(b, link, attempts)
      /\ \A d \in b.calls : Carries(b, pagesCall[d])
      /\ Grown(b, password, link, attempts, pagesFaults, password, link, attempts, pagesFaults)
  BY AccountTypesAre, GrownItself DEF AccountInv, AccountTypes
<1>w. /\ password \in [b.names -> b.passwords \cup {"not set"}]
      /\ link \in [b.resets \cup b.verifications -> Letters(b)]
      /\ pagesCall \in [b.calls -> Requests(b)]
  BY <1>0 DEF AccountTypes
<1>1. ASSUME NEW c \in b.calls, Account(b)!Lose(c) PROVE AccountInv(b)'
  <2> DEFINE q == pagesCall[c]
  <2>1. /\ q.at \in {"asked", "done"} /\ pagesFaults < b.faults /\ pagesFaults' = pagesFaults + 1
        /\ pagesCall' = [pagesCall EXCEPT ![c].at = "refused"]
        /\ UNCHANGED <<password, link, signed, pagesPage, attempts>> /\ UNCHANGED <<sent, moves, languages>>
    BY <1>1 DEF Account!Lose
  <2>2. pagesFaults \in Nat /\ pagesFaults' \in Nat /\ pagesFaults' >= pagesFaults /\ pagesFaults' > 0 /\ pagesFaults' \in 0 .. b.faults
    <3>1. pagesFaults \in 0 .. b.faults /\ b.faults \in Nat
      BY <1>0 DEF Counted, Account!AccountPagesAssumption
    <3>2. pagesFaults < b.faults /\ pagesFaults' = pagesFaults + 1
      BY <2>1
    <3> QED
      BY <3>1, <3>2
  <2>3. Grown(b, password, link, attempts, pagesFaults, password', link', attempts, pagesFaults')
    BY <1>0, <2>1, <2>2 DEF Grown
  <2>4. Counted(b, sent', moves', languages', pagesFaults')
    BY <1>0, <2>1, <2>2 DEF Counted
  <2>9. q \in Requests(b)
    BY <1>w
  <2>0. [q EXCEPT !.at = "refused"] \in Requests(b)
    BY <2>9 DEF Requests
  <2>5. pagesCall' \in [b.calls -> Requests(b)] /\ pagesCall'[c] = [q EXCEPT !.at = "refused"]
    BY <1>w, <2>0, <2>1
  <2>6. Registered(b, pagesCall'[c], password', link') /\ Tried(pagesCall'[c], link', attempts, pagesFaults')
    BY <1>w, <2>2, <2>5 DEF Registered, Tried, Excused, Requests
  <2>7. \A d \in b.calls : d # c => pagesCall'[d] = pagesCall[d]
    BY <1>w, <2>1
  <2>8. q.at # "idle"
    BY <2>1
  <2> QED
    BY <1>0, <1>w, <2>1, <2>3, <2>4, <2>5, <2>6, <2>7, <2>8, ServerStep
<1>2. ASSUME NEW l \in b.resets \cup b.verifications, Account(b)!Expire(l) PROVE AccountInv(b)'
  <2>1. /\ link[l].state = "sent" /\ link' = [link EXCEPT ![l].state = "expired"]
        /\ UNCHANGED <<password, signed, pagesPage, pagesCall, attempts>> /\ UNCHANGED <<sent, moves, languages, pagesFaults>>
    BY <1>2 DEF Account!Expire, Account!Live, Account!counters
  <2>2. link' \in [b.resets \cup b.verifications -> Letters(b)]
    BY <1>w, <2>1 DEF Letters
  <2>3. \A r \in b.resets \cup b.verifications :
          IF r = l THEN link'[r].state = "expired" ELSE link'[r] = link[r]
    BY <1>w, <2>1 DEF Letters
  <2>4. Grown(b, password, link, attempts, pagesFaults, password', link', attempts, pagesFaults')
    <3>1. \A n \in b.names : password'[n] = password[n]
      BY <2>1
    <3>2. \A r \in b.resets \cup b.verifications : /\ link'[r].state = "unsent" => link[r].state = "unsent"
                                                   /\ link[r].state \in {"used", "expired"} => link'[r] = link[r]
      BY <2>1, <2>3
    <3> QED
      BY <1>0, <2>1, <3>1, <3>2 DEF Grown
  <2>5. LinksGood(b, link', attempts)
    BY <1>0, <2>1, <2>3 DEF LinksGood
  <2>6. Counted(b, sent', moves', languages', pagesFaults')
    BY <1>0, <2>1
  <2>7. \A r \in b.resets \cup b.verifications : link'[r].state = "used" => link[r].state = "used"
    BY <2>3
  <2>8. \A d \in b.calls : pagesCall[d].kind = "verify" => pagesCall[d].link \in b.verifications
    BY <1>0 DEF Carries
  <2> QED
    BY <1>w, <2>1, <2>2, <2>4, <2>5, <2>6, <2>7, <2>8, ServerStep
<1> QED
  BY <1>1, <1>2

(* All of the pages: how they start, what they do, and what stands still.  *)
LEMMA AccountStarts ==
  ASSUME NEW b, Account(b)!AccountPagesAssumption, Account(b)!Init PROVE AccountInv(b)
<1>1. /\ password \in [b.names -> b.passwords \cup {"not set"}] /\ signed = "nobody"
      /\ link \in [b.resets \cup b.verifications -> [for : b.names \cup {"nobody"}, state : {"unsent", "sent"}]]
      /\ pagesPage = Account(b)!Blank("login", "no link") /\ pagesCall = [c \in b.calls |-> Account(b)!Free]
      /\ attempts = [l \in b.resets \cup b.verifications |-> 0] /\ sent = 0 /\ moves = 0 /\ languages = 0 /\ pagesFaults = 0
      /\ \A l \in b.resets \cup b.verifications :
           IF link[l].state = "unsent" THEN l \in b.resets ELSE link[l].for \in b.names
  BY DEF Account!Init, Account!Links, Account!NotSet, Account!NoAccount, Account!NoLink
<1>2. Counted(b, sent, moves, languages, pagesFaults)
  <2>1. {b.sent, b.moves, b.languages, b.faults} \subseteq Nat
    BY DEF Account!AccountPagesAssumption
  <2>2. \A n \in Nat : 0 \in 0 .. n
    OBVIOUS
  <2> QED
    BY <1>1, <2>1, <2>2 DEF Counted
<1>3. /\ Account(b)!Free \in Requests(b) /\ Account(b)!Free.kind = "none" /\ Account(b)!Free.at = "idle"
      /\ Account(b)!Free.ear = "none"
  BY DEF Account!Free, Account!NoLink, Requests
<1>4. pagesPage \in Shows(b) /\ pagesPage.at = "login"
  BY <1>1 DEF Account!Blank, Shows, Guest
<1>5. link \in [b.resets \cup b.verifications -> Letters(b)] /\ \A l \in b.resets \cup b.verifications : link[l].state # "used"
  <2>1. \A l \in b.resets \cup b.verifications : link[l] \in [for : b.names \cup {"nobody"}, state : {"unsent", "sent"}]
    BY <1>1
  <2> QED
    BY <1>1, <2>1 DEF Letters
<1>6. AccountTypes(b, password, link, signed, pagesPage, pagesCall)
  BY <1>1, <1>3, <1>4, <1>5 DEF AccountTypes
<1>7. LinksGood(b, link, attempts)
  BY <1>1, <1>5 DEF LinksGood
<1>8. PageGood(b, pagesPage, link, attempts, pagesFaults)
  BY <1>4 DEF PageGood
<1>9. \A c \in b.calls : /\ Carries(b, pagesCall[c]) /\ Heard(pagesCall[c], pagesPage)
                         /\ Registered(b, pagesCall[c], password, link)
                         /\ Tried(pagesCall[c], link, attempts, pagesFaults)
                         /\ pagesCall[c].kind # "verify"
  BY <1>1, <1>3 DEF Carries, Heard, Registered, Tried
<1>10. attempts \in [b.resets \cup b.verifications -> Nat]
  <2>1. 0 \in Nat
    OBVIOUS
  <2> QED
    BY <1>1, <2>1
<1> QED
  <2>1. Account(b)!TypeOK
    BY <1>2, <1>6, AccountTypesAre
  <2> QED
    BY <1>7, <1>8, <1>9, <1>10, <2>1 DEF AccountInv, Asking

LEMMA AccountSteps ==
  ASSUME NEW b, Account(b)!AccountPagesAssumption, AccountInv(b), Account(b)!Next PROVE AccountInv(b)'
<1> USE DEF Account!Links
<1> QED
  BY FollowStep, ReaderStep, SenderSteps, ServedStep, LostStep, AnsweredStep DEF Account!Next

LEMMA AccountStands ==
  ASSUME NEW b, AccountInv(b), UNCHANGED <<password, link, signed, pagesPage, pagesCall, attempts>>,
         UNCHANGED <<sent, moves, languages, pagesFaults>>
  PROVE  AccountInv(b)'
<1>1. Account(b)!TypeOK'
  BY AccountTypesAre, AccountTypesNext DEF AccountInv
<1> QED
  BY <1>1 DEF AccountInv

LEMMA AccountTells ==
  ASSUME NEW b, Account(b)!AccountPagesAssumption, AccountInv(b)
  PROVE  Account(b)!ForgotTellsNothing /\ Account(b)!FreshLinkVerifies
<1>1. pagesFaults = 0 => ~(pagesFaults > 0)
  OBVIOUS
<1> QED
  BY <1>1 DEF AccountInv, PageGood, Excused, Account!ForgotTellsNothing, Account!FreshLinkVerifies

LEMMA AccountKeeps ==
  ASSUME NEW b, Account(b)!AccountPagesAssumption, AccountInv(b), Account(b)!Next
  PROVE  Account(b)!RegisteredCanSignIn /\ Account(b)!ResetNeedsALiveLink
<1>0. /\ AccountTypes(b, password, link, signed, pagesPage, pagesCall)
      /\ LinksGood(b, link, attempts) /\ \A c \in b.calls : Carries(b, pagesCall[c])
  BY AccountTypesAre DEF AccountInv
<1>1. Account(b)!RegisteredCanSignIn
  <2>1. ASSUME NEW c \in b.calls, NEW r \in b.resets, link[r].for = pagesCall[c].name, link[r].state = "used"
        PROVE  link[r] = [for |-> pagesCall[c].name, state |-> "used"]
    BY <1>0, <2>1 DEF AccountTypes, Letters
  <2> QED
    BY <2>1 DEF AccountInv, Registered, MaySignIn, Account!RegisteredCanSignIn
<1>2. Account(b)!ResetNeedsALiveLink
  <2>1. SUFFICES ASSUME NEW n \in b.names, password[n] # "not set", password'[n] # password[n]
                 PROVE  \E l \in b.resets : link[l] = [for |-> n, state |-> "sent"] /\ link'[l].state = "used"
    BY DEF Account!ResetNeedsALiveLink, Account!NotSet
  <2>2. PICK c \in b.calls : Account(b)!Serve(c)
    BY <2>1 DEF Account!Next, Account!Follow, Account!Type, Account!SignOut, Account!Submit, Account!Language,
                Account!Open, Account!Expire, Account!Lose, Account!Succeed, Account!Fail
  <2> DEFINE l == pagesCall[c].link
  <2>3. ~Account(b)!ServeRegister(c) /\ ~Account(b)!ServeLogin(c) /\ ~Account(b)!ServeForgot(c)
    BY <1>0, <2>1 DEF Account!ServeRegister, Account!ServeLogin, Account!ServeForgot, Account!NotSet, AccountTypes
  <2>4. Account(b)!ServeLink(c)
    BY <2>2, <2>3 DEF Account!Serve
  <2>5. /\ link[l].state = "sent" /\ link' = [link EXCEPT ![l].state = "used"] /\ pagesCall[c].kind = "reset"
        /\ password' = [password EXCEPT ![link[l].for] = pagesCall[c].password]
    BY <2>1, <2>4 DEF Account!ServeLink, Account!Live
  <2>6. l \in b.resets /\ link[l] \in Letters(b) /\ link[l].for = n
    BY <1>0, <2>1, <2>5 DEF AccountTypes, Carries
  <2>7. link[l] = [for |-> n, state |-> "sent"] /\ link'[l].state = "used"
    BY <1>0, <2>5, <2>6 DEF AccountTypes, Letters
  <2> QED
    BY <2>6, <2>7
<1> QED
  BY <1>1, <1>2

-----------------------------------------------------------------------------
(* The texts.  What the records of the module are made of; what a message, *)
(* a tab and a request under way come to; and what a choice of a language  *)
(* holds.  Below, x is a tab and q the request of its page.                *)
Given(b)    == Speech(b)!Refusals \cup Speech(b)!Unnamed \cup Speech(b)!Unanswered
Answer(b, l, k, r) == Speech(b)!getLocalizedApiErrorMessage(l, r, Speech(b)!t(l, k))
Told(b)     == {Speech(b)!NoText}
                 \cup {Speech(b)!t(l, k) : l \in Speech(b)!localeOptions, k \in Speech(b)!Keys}
                 \cup {Answer(b, l, k, r) : l \in Speech(b)!localeOptions, k \in Speech(b)!Keys, r \in Given(b)}
Messages(b) == [told : Told(b), reason : Given(b) \cup {Speech(b)!Silent.reason},
                name : {<<>>} \cup {Speech(b)!interpolate(n) : n \in b.names}, of : {<<>>} \cup b.names, since : BOOLEAN]
Screens(b)  == [at : {"closed", "loading", "open"}, locale : Speech(b)!localeOptions, dir : {"ltr", "rtl"},
                error : Messages(b), notice : Messages(b)]
Questions(b) == [at : {"idle", "asked"}, locale : Speech(b)!localeOptions, key : Speech(b)!Keys, since : BOOLEAN]

Said(b, m, l) ==
  m.told # Speech(b)!NoText =>
    /\ m.told.language \in Speech(b)!localeOptions
    /\ ~m.since => \/ m.told.language = l
                   \/ m.told.language = "en" /\ m.told.says \notin Speech(b)!messages[l]
Named(b, m) ==
  m.told # Speech(b)!NoText =>
    /\ m.reason \in Speech(b)!Refusals => m.told.says = Speech(b)!normalizeMessage(m.reason.says)
    /\ m.told.says \in Speech(b)!Keys => m.reason \in Speech(b)!Unanswered \/ m.reason.status \in {413, 429}
TabGood(b, x) ==
  /\ x \in Screens(b)
  /\ x.at = "open" => x.dir = IF x.locale = "ar" THEN "rtl" ELSE "ltr"
  /\ x.error.told = Speech(b)!NoText \/ x.notice.told = Speech(b)!NoText
  /\ Said(b, x.error, x.locale) /\ Said(b, x.notice, x.locale) /\ Named(b, x.error)
AskedGood(b, q, x) ==
  /\ q \in Questions(b)
  /\ q.at = "asked" => /\ x.at = "open" /\ x.error.told = Speech(b)!NoText /\ x.notice.told = Speech(b)!NoText
                       /\ ~q.since => q.locale = x.locale
Chosen(b, s, c, l, x) ==
  c # "none" /\ l = {} =>
    /\ s = Speech(b)!Written(c)
    /\ \A p \in b.tabs : x[p].at = "loading" => x[p].locale = c
Choosing(b, c, l) == c \in Speech(b)!localeOptions \cup {"none"} /\ l \in SUBSET b.tabs
Opened(b, n, m, i) == n \in 0 .. b.opened /\ m \in 0 .. b.choices /\ i \in 0 .. b.calls
TabsGood(b, x, q) ==
  /\ x \in [b.tabs -> Screens(b)] /\ q \in [b.tabs -> Questions(b)]
  /\ \A p \in b.tabs : TabGood(b, x[p]) /\ AskedGood(b, q[p], x[p])

SpeechInv(b) ==
  /\ TabsGood(b, tab, textsCall)
  /\ Chosen(b, textsStored, choice, textsLoading, tab)
  /\ Choosing(b, choice, textsLoading)
  /\ Opened(b, opened, choices, calls)

(* A language that was written is read again, and whatever is read is one. *)
LEMMA LocalesAreRead ==
  ASSUME NEW b
  PROVE  /\ \A tag : Speech(b)!normalizeLocale(tag) \in Speech(b)!localeOptions
         /\ \A l \in Speech(b)!localeOptions : /\ Speech(b)!normalizeLocale(Speech(b)!Written(l)) = l
                                               /\ Speech(b)!Written(l) # Speech(b)!NoTag
<1>1. \A tag : Speech(b)!normalizeLocale(tag) \in Speech(b)!localeOptions
  BY DEF Speech!normalizeLocale, Speech!localeOptions
<1>2. ASSUME NEW l \in Speech(b)!localeOptions
      PROVE  Speech(b)!normalizeLocale(Speech(b)!Written(l)) = l /\ Speech(b)!Written(l) # Speech(b)!NoTag
  <2>1. CASE l \in {"zh-CN", "zh-TW"}
    BY <2>1 DEF Speech!normalizeLocale, Speech!Written, Speech!NoTag, Speech!Tag, Speech!localeOptions
  <2>2. CASE l \notin {"zh-CN", "zh-TW"}
    BY <2>2 DEF Speech!normalizeLocale, Speech!Written, Speech!NoTag, Speech!Tag, Speech!localeOptions
  <2> QED
    BY <2>1, <2>2
<1> QED
  BY <1>1, <1>2

(* A text of a dictionary is in the language of the page or in English.    *)
LEMMA DictionariesAnswer ==
  ASSUME NEW b, NEW l \in Speech(b)!localeOptions, NEW k \in Speech(b)!Keys
  PROVE  /\ Speech(b)!t(l, k).says = k
         /\ Speech(b)!t(l, k).language \in Speech(b)!localeOptions
         /\ \/ Speech(b)!t(l, k).language = l
            \/ Speech(b)!t(l, k).language = "en" /\ k \notin Speech(b)!messages[l]
BY DEF Speech!t, Speech!Text, Speech!enMessages, Speech!localeOptions

(* What a reason comes to.                                                 *)
LEMMA ReasonsAreNamed ==
  ASSUME NEW b, NEW r \in Speech(b)!Refusals \cup Speech(b)!Unnamed \cup Speech(b)!Unanswered
  PROVE  /\ Speech(b)!codeFromReason(r) \notin Speech(b)!Keys
         /\ r \in Speech(b)!Refusals => Speech(b)!codeFromReason(r) = Speech(b)!normalizeMessage(r.says)
         /\ r \in Speech(b)!Refusals => Speech(b)!codeFromReason(r) # "no code"
         /\ Speech(b)!codeFromReason(r) = "no code" => r \in Speech(b)!Unanswered \/ r.status \in {413, 429}
<1> DEFINE Texts == Speech(b)!messageToCode \cup {"target ip must be a valid IPv4 or IPv6 address"}
<1>r. \A ss, n, x : x \in Speech(b)!Reasons(ss, n) => x.says \in ss /\ x.status = n
  BY DEF Speech!Reasons, Speech!Reason
<1>t. /\ Speech(b)!Unauthorized \subseteq Texts /\ Speech(b)!Forbidden \subseteq Texts /\ Speech(b)!Missing \subseteq Texts
      /\ Speech(b)!Taken \subseteq Texts /\ Speech(b)!Invalid \subseteq Texts
  BY Zenon DEF Speech!Unauthorized, Speech!Forbidden, Speech!Missing, Speech!Taken, Speech!Invalid, Speech!messageToCode
<1> HIDE DEF Texts
<1>1. r \in Speech(b)!Refusals => Speech(b)!normalizeMessage(r.says) \in Speech(b)!messageToCode
  <2>1. \A s \in Texts : Speech(b)!normalizeMessage(s) \in Speech(b)!messageToCode
    BY Zenon DEF Texts, Speech!normalizeMessage, Speech!messageToCode
  <2>2. r \in Speech(b)!Refusals => r.says \in Texts
    BY <1>r, <1>t DEF Speech!Refusals
  <2> QED
    BY <2>1, <2>2
<1>2. "no code" \notin Speech(b)!messageToCode /\ Speech(b)!messageToCode \cap Speech(b)!Keys = {}
  BY DEF Speech!messageToCode, Speech!Keys
<1>3. Speech(b)!codeFromStatus(r.status) \notin Speech(b)!Keys
  BY DEF Speech!codeFromStatus, Speech!Keys
<1>4. r \in Speech(b)!Unnamed /\ Speech(b)!codeFromStatus(r.status) = "no code" => r.status \in {413, 429}
  <2>1. r \in Speech(b)!Unnamed => r.status \in {400, 413, 429, 500, 502}
    BY <1>r DEF Speech!Unnamed
  <2>2. 500 >= 500 /\ 502 >= 500 /\ ~(400 >= 500)
    OBVIOUS
  <2> QED
    BY <2>1, <2>2 DEF Speech!codeFromStatus
<1> QED
  BY <1>1, <1>2, <1>3, <1>4, ZenonT(60) DEF Speech!codeFromReason

LEMMA RefusalsAreTold ==
  ASSUME NEW b, NEW l \in Speech(b)!localeOptions, NEW k \in Speech(b)!Keys,
         NEW r \in Speech(b)!Refusals \cup Speech(b)!Unnamed \cup Speech(b)!Unanswered,
         NEW m, m.told = Speech(b)!getLocalizedApiErrorMessage(l, r, Speech(b)!t(l, k)), m.reason = r
  PROVE  Said(b, m, l) /\ Named(b, m)
<1>1. CASE Speech(b)!codeFromReason(r) = "no code"
  <2>1. m.told = Speech(b)!t(l, k) /\ r \notin Speech(b)!Refusals
    BY <1>1, ReasonsAreNamed DEF Speech!getLocalizedApiErrorMessage
  <2>2. r \in Speech(b)!Unanswered \/ r.status \in {413, 429}
    BY <1>1, ReasonsAreNamed, ZenonT(60)
  <2> QED
    BY <2>1, <2>2, DictionariesAnswer DEF Said, Named
<1>2. CASE Speech(b)!codeFromReason(r) # "no code"
  <2>0. m.told = Speech(b)!Text(l, Speech(b)!codeFromReason(r))
    BY <1>2 DEF Speech!getLocalizedApiErrorMessage
  <2>1. m.told.language = l /\ m.told.says = Speech(b)!codeFromReason(r)
    BY <2>0 DEF Speech!Text
  <2>2. /\ Speech(b)!codeFromReason(r) \notin Speech(b)!Keys
        /\ r \in Speech(b)!Refusals => Speech(b)!codeFromReason(r) = Speech(b)!normalizeMessage(r.says)
    BY ReasonsAreNamed
  <2> QED
    BY <2>1, <2>2 DEF Said, Named
<1> QED
  BY <1>1, <1>2

LEMMA SilenceSays ==
  ASSUME NEW b, NEW l
  PROVE  /\ Said(b, Speech(b)!Silent, l) /\ Named(b, Speech(b)!Silent) /\ Speech(b)!Silent \in Messages(b)
         /\ Speech(b)!Silent.told = Speech(b)!NoText
BY DEF Said, Named, Messages, Told, Speech!Silent

(* A step of one tab: its page and its request are others.                 *)
Turns(p, x, q) == tab' = [tab EXCEPT ![p] = x] /\ textsCall' = [textsCall EXCEPT ![p] = q]
LEMMA TabStep ==
  ASSUME NEW b, TabsGood(b, tab, textsCall), NEW p \in b.tabs, NEW x, NEW q, Turns(p, x, q),
         TabGood(b, x), AskedGood(b, q, x)
  PROVE  TabsGood(b, tab', textsCall') /\ \A o \in b.tabs : tab'[o] = IF o = p THEN x ELSE tab[o]
<1>1. \A o \in b.tabs : tab'[o] = IF o = p THEN x ELSE tab[o]
  BY DEF TabsGood, Turns
<1>2. \A o \in b.tabs : textsCall'[o] = IF o = p THEN q ELSE textsCall[o]
  BY DEF TabsGood, Turns
<1>3. tab' \in [b.tabs -> Screens(b)] /\ textsCall' \in [b.tabs -> Questions(b)]
  BY DEF TabsGood, Turns, TabGood, AskedGood
<1> QED
  BY <1>1, <1>2, <1>3 DEF TabsGood

LEMMA SpeechTypes ==
  ASSUME NEW b, SpeechInv(b) PROVE Speech(b)!TypeOK
<1>1. ASSUME NEW p \in b.tabs
      PROVE  /\ tab[p].at \in {"closed", "loading", "open"}
             /\ tab[p].locale \in Speech(b)!localeOptions
             /\ tab[p].at = "open" => tab[p].dir = IF tab[p].locale = "ar" THEN "rtl" ELSE "ltr"
             /\ tab[p].error.told = Speech(b)!NoText \/ tab[p].notice.told = Speech(b)!NoText
             /\ textsCall[p].at \in {"idle", "asked"} /\ textsCall[p].locale \in Speech(b)!localeOptions
             /\ textsCall[p].at = "asked" => tab[p].at = "open"
  BY DEF SpeechInv, TabsGood, TabGood, AskedGood, Screens, Questions
<1>2. Speech(b)!normalizeLocale(textsStored) \in Speech(b)!localeOptions
  BY LocalesAreRead
<1>3. choice \in Speech(b)!localeOptions \cup {Speech(b)!NoLocale} /\ textsLoading \subseteq b.tabs
  BY DEF SpeechInv, Choosing, Speech!NoLocale
<1>4. opened \in 0 .. b.opened /\ choices \in 0 .. b.choices /\ calls \in 0 .. b.calls
  BY DEF SpeechInv, Opened
<1> QED
  BY <1>1, <1>2, <1>3, <1>4, Zenon DEF Speech!TypeOK

LEMMA SpeechTells ==
  ASSUME NEW b, SpeechInv(b)
  PROVE  Speech(b)!ChoiceSurvives /\ Speech(b)!TextsAreInThePagesLanguage /\ Speech(b)!RefusalsAreNamed
<1>1. Speech(b)!ChoiceSurvives
  BY LocalesAreRead DEF SpeechInv, Chosen, Choosing, Speech!ChoiceSurvives, Speech!detectLocale, Speech!NoLocale
<1>2. Speech(b)!TextsAreInThePagesLanguage
  BY DEF SpeechInv, TabsGood, TabGood, Said, Speech!TextsAreInThePagesLanguage
<1>3. Speech(b)!RefusalsAreNamed
  BY DEF SpeechInv, TabsGood, TabGood, Named, Speech!RefusalsAreNamed
<1> QED
  BY <1>1, <1>2, <1>3

LEMMA NothingYet ==
  ASSUME NEW b
  PROVE  TabGood(b, Speech(b)!Closed) /\ \A x : AskedGood(b, Speech(b)!Idle, x)
<1>1. "en" \in Speech(b)!localeOptions /\ "common" \in Speech(b)!Keys
  BY DEF Speech!localeOptions, Speech!Keys
<1>2. /\ Speech(b)!Closed \in Screens(b) /\ Speech(b)!Closed.at = "closed" /\ Speech(b)!Closed.locale = "en"
      /\ Speech(b)!Closed.error = Speech(b)!Silent /\ Speech(b)!Closed.notice = Speech(b)!Silent
  BY <1>1, SilenceSays DEF Speech!Closed, Screens
<1>3. Speech(b)!Idle \in Questions(b) /\ Speech(b)!Idle.at = "idle"
  BY <1>1 DEF Speech!Idle, Questions
<1> QED
  BY <1>2, <1>3, SilenceSays DEF TabGood, AskedGood

LEMMA SpeechStarts ==
  ASSUME NEW b, Speech(b)!TextsAssumption, Speech(b)!Init PROVE SpeechInv(b)
<1>1. TabGood(b, Speech(b)!Closed) /\ AskedGood(b, Speech(b)!Idle, Speech(b)!Closed)
  BY NothingYet
<1>2. TabsGood(b, tab, textsCall)
  BY <1>1 DEF TabsGood, TabGood, AskedGood, Speech!Init
<1>3. Opened(b, opened, choices, calls)
  <2>1. \A n \in Nat : 0 \in 0 .. n
    OBVIOUS
  <2>2. opened = 0 /\ choices = 0 /\ calls = 0 /\ {b.opened, b.choices, b.calls} \subseteq Nat
    BY DEF Speech!Init, Speech!TextsAssumption
  <2> QED
    BY <2>1, <2>2 DEF Opened
<1>4. choice = "none" /\ textsLoading = {}
  BY DEF Speech!Init, Speech!NoLocale
<1> QED
  BY <1>2, <1>3, <1>4 DEF SpeechInv, Chosen, Choosing

LEMMA OneMore ==
  ASSUME NEW m \in Nat, NEW n \in 0 .. m, n < m PROVE n + 1 \in 0 .. m
OBVIOUS

LEMMA SpeechSteps ==
  ASSUME NEW b, Speech(b)!TextsAssumption, SpeechInv(b), Speech(b)!Next PROVE SpeechInv(b)'
<1> DEFINE None == Speech(b)!NoText
           Mute == Speech(b)!Silent
<1>0. /\ TabsGood(b, tab, textsCall) /\ Chosen(b, textsStored, choice, textsLoading, tab)
      /\ Choosing(b, choice, textsLoading) /\ Opened(b, opened, choices, calls)
      /\ b.opened \in Nat /\ b.choices \in Nat /\ b.calls \in Nat
      /\ b.offered \subseteq Speech(b)!localeOptions
  BY DEF SpeechInv, Speech!TextsAssumption
<1>1. SUFFICES /\ TabsGood(b, tab', textsCall') /\ Chosen(b, textsStored', choice', textsLoading', tab')
               /\ Choosing(b, choice', textsLoading') /\ Opened(b, opened', choices', calls')
  BY DEF SpeechInv
<1>2. PICK p \in b.tabs :
        \/ Speech(b)!Load(p) \/ Speech(b)!Mounted(p)
        \/ \E l \in b.offered : Speech(b)!SetLocale(p, l)
        \/ \E k \in Speech(b)!Keys : Speech(b)!Ask(p, k)
        \/ \E n \in b.names : Speech(b)!Succeeded(p, n)
        \/ \E r \in Speech(b)!Refusals \cup Speech(b)!Unnamed \cup Speech(b)!Unanswered : Speech(b)!Refused(p, r)
  BY DEF Speech!Next
<1>3. /\ TabGood(b, tab[p]) /\ AskedGood(b, textsCall[p], tab[p])
      /\ tab[p] \in Screens(b) /\ textsCall[p] \in Questions(b)
      /\ tab \in [b.tabs -> Screens(b)] /\ textsCall \in [b.tabs -> Questions(b)]
      /\ tab[p].locale \in Speech(b)!localeOptions
  BY <1>0, <1>2 DEF TabsGood, Screens
<1>p. p \in b.tabs
  BY <1>2
<1>i. \A x : AskedGood(b, Speech(b)!Idle, x)
  BY NothingYet
(* Steps that choose no language and load no tab.                          *)
<1>4. ASSUME UNCHANGED <<textsStored, choice, textsLoading>>, Opened(b, opened', choices', calls'),
             NEW x, NEW q, Turns(p, x, q), TabGood(b, x), AskedGood(b, q, x), x.at # "loading"
      PROVE  /\ TabsGood(b, tab', textsCall') /\ Chosen(b, textsStored', choice', textsLoading', tab')
             /\ Choosing(b, choice', textsLoading') /\ Opened(b, opened', choices', calls')
  <2>1. TabsGood(b, tab', textsCall') /\ \A o \in b.tabs : tab'[o] = IF o = p THEN x ELSE tab[o]
    BY <1>p, <1>0, <1>4, TabStep
  <2> QED
    BY <1>0, <1>4, <2>1 DEF Chosen, Choosing
<1>5. CASE Speech(b)!Load(p)
  <2> DEFINE x == [Speech(b)!Closed EXCEPT !.at = "loading", !.locale = Speech(b)!detectLocale]
  <2>1. /\ opened < b.opened /\ opened' = opened + 1 /\ UNCHANGED <<choices, calls>>
        /\ UNCHANGED <<textsStored, choice, textsLoading>>
        /\ Turns(p, x, Speech(b)!Idle)
    BY <1>5 DEF Speech!Load, Turns
  <2>2. Speech(b)!detectLocale \in Speech(b)!localeOptions
    <3>1. "en" \in Speech(b)!localeOptions
      BY DEF Speech!localeOptions
    <3> QED
      BY <3>1, LocalesAreRead DEF Speech!detectLocale
  <2>3. /\ x.at = "loading" /\ x.locale = Speech(b)!detectLocale /\ x.error = Mute /\ x.notice = Mute
        /\ x \in Screens(b)
    <3>1. Speech(b)!Closed \in Screens(b) /\ Speech(b)!Closed.error = Mute /\ Speech(b)!Closed.notice = Mute
      BY NothingYet DEF TabGood, Speech!Closed
    <3> QED
      BY <2>2, <3>1 DEF Screens
  <2>4. TabGood(b, x)
    BY <2>2, <2>3, SilenceSays DEF TabGood
  <2>5. TabsGood(b, tab', textsCall') /\ \A o \in b.tabs : tab'[o] = IF o = p THEN x ELSE tab[o]
    BY <1>p, <1>0, <1>i, <2>1, <2>4, TabStep
  <2>6. Chosen(b, textsStored', choice', textsLoading', tab')
    <3>1. choice # "none" /\ textsLoading = {} => Speech(b)!detectLocale = choice
      BY SpeechTells DEF Speech!ChoiceSurvives, Speech!NoLocale
    <3> HIDE DEF x
    <3> QED
      BY <1>0, <2>1, <2>3, <2>5, <3>1 DEF Chosen
  <2>7. Opened(b, opened', choices', calls')
    BY <1>0, <2>1, OneMore DEF Opened
  <2> QED
    BY <1>0, <2>1, <2>5, <2>6, <2>7
<1>6. CASE Speech(b)!Mounted(p)
  <2> DEFINE x == [Speech(b)!Shown(tab[p], tab[p].locale) EXCEPT !.at = "open"]
  <2>1. /\ tab[p].at = "loading" /\ textsStored' = Speech(b)!Written(tab[p].locale)
        /\ UNCHANGED <<choices, calls, opened>> /\ UNCHANGED <<choice, textsLoading, textsCall>>
        /\ tab' = [tab EXCEPT ![p] = x]
    BY <1>3, <1>6 DEF Speech!Mounted
  <2>3. /\ x.at = "open" /\ x.locale = tab[p].locale /\ x.error = tab[p].error /\ x.notice = tab[p].notice
        /\ x.dir = IF tab[p].locale = "ar" THEN "rtl" ELSE "ltr"
        /\ x \in Screens(b)
    BY <1>0, <1>3 DEF Screens, Messages, Speech!Shown
  <2> HIDE DEF x
  <2>4. TabGood(b, x) /\ AskedGood(b, textsCall[p], x)
    BY <1>3, <2>1, <2>3 DEF TabGood, AskedGood
  <2>5. Turns(p, x, textsCall[p])
    BY <1>3, <2>1 DEF Turns
  <2>6. TabsGood(b, tab', textsCall') /\ \A o \in b.tabs : tab'[o] = IF o = p THEN x ELSE tab[o]
    BY <1>p, <1>0, <2>4, <2>5, TabStep
  <2>7. Chosen(b, textsStored', choice', textsLoading', tab')
    BY <1>0, <2>1, <2>3, <2>6 DEF Chosen
  <2> QED
    BY <1>0, <2>1, <2>6, <2>7 DEF Choosing, Opened
<1>7. ASSUME NEW l \in b.offered, Speech(b)!SetLocale(p, l)
      PROVE  /\ TabsGood(b, tab', textsCall') /\ Chosen(b, textsStored', choice', textsLoading', tab')
             /\ Choosing(b, choice', textsLoading') /\ Opened(b, opened', choices', calls')
  <2> DEFINE x == [Speech(b)!Shown(tab[p], l) EXCEPT !.error.since = TRUE, !.notice.since = TRUE]
             q == [textsCall[p] EXCEPT !.since = TRUE]
  <2>1. /\ choices < b.choices /\ choices' = choices + 1 /\ UNCHANGED <<opened, calls>> /\ tab[p].at = "open"
        /\ textsStored' = Speech(b)!Written(l) /\ choice' = l /\ textsLoading' = {o \in b.tabs : tab[o].at = "loading"}
        /\ Turns(p, x, q)
    BY <1>3, <1>7 DEF Speech!SetLocale, Turns
  <2>2. l \in Speech(b)!localeOptions /\ tab[p].error \in Messages(b) /\ tab[p].notice \in Messages(b)
    BY <1>0, <1>3, <1>7 DEF Screens
  <2>4. ASSUME NEW m \in Messages(b)
        PROVE  /\ [m EXCEPT !.since = TRUE] \in Messages(b) /\ [m EXCEPT !.since = TRUE].told = m.told
               /\ [m EXCEPT !.since = TRUE].reason = m.reason /\ [m EXCEPT !.since = TRUE].since
    BY <2>4 DEF Messages
  <2>3. /\ x.at = tab[p].at /\ x.locale = l /\ x.dir = IF l = "ar" THEN "rtl" ELSE "ltr"
        /\ x.error = [tab[p].error EXCEPT !.since = TRUE] /\ x.notice = [tab[p].notice EXCEPT !.since = TRUE]
        /\ x \in Screens(b)
    <3>1. /\ Speech(b)!Shown(tab[p], l) \in Screens(b) /\ Speech(b)!Shown(tab[p], l).at = tab[p].at
          /\ Speech(b)!Shown(tab[p], l).locale = l /\ Speech(b)!Shown(tab[p], l).dir = IF l = "ar" THEN "rtl" ELSE "ltr"
          /\ Speech(b)!Shown(tab[p], l).error = tab[p].error /\ Speech(b)!Shown(tab[p], l).notice = tab[p].notice
      BY <1>3, <2>2 DEF Screens, Speech!Shown
    <3>2. /\ [tab[p].error EXCEPT !.since = TRUE] \in Messages(b)
          /\ [tab[p].notice EXCEPT !.since = TRUE] \in Messages(b)
      BY <2>2, <2>4
    <3> QED
      BY <3>1, <3>2 DEF Screens
  <2>5. q \in Questions(b) /\ q.at = textsCall[p].at /\ q.locale = textsCall[p].locale /\ q.key = textsCall[p].key /\ q.since
    BY <1>3 DEF Questions
  <2> HIDE DEF x, q
  <2>7. /\ x.error.told = tab[p].error.told /\ x.notice.told = tab[p].notice.told /\ x.error.since /\ x.notice.since
        /\ x.error.reason = tab[p].error.reason
    BY <2>2, <2>3, <2>4
  <2>8. TabGood(b, x)
    BY <1>3, <2>1, <2>2, <2>3, <2>7 DEF TabGood, Said, Named
  <2>9. AskedGood(b, q, x)
    BY <1>3, <2>3, <2>5, <2>7 DEF AskedGood
  <2>10. TabsGood(b, tab', textsCall') /\ \A o \in b.tabs : tab'[o] = IF o = p THEN x ELSE tab[o]
    BY <1>p, <1>0, <2>1, <2>8, <2>9, TabStep
  <2>11. Chosen(b, textsStored', choice', textsLoading', tab')
    BY <2>1, <2>3, <2>10 DEF Chosen
  <2>12. Opened(b, opened', choices', calls')
    BY <1>0, <2>1, OneMore DEF Opened
  <2> QED
    BY <2>1, <2>2, <2>10, <2>11, <2>12 DEF Choosing
<1>8. ASSUME NEW k \in Speech(b)!Keys, Speech(b)!Ask(p, k)
      PROVE  /\ TabsGood(b, tab', textsCall') /\ Chosen(b, textsStored', choice', textsLoading', tab')
             /\ Choosing(b, choice', textsLoading') /\ Opened(b, opened', choices', calls')
  <2> DEFINE x == [tab[p] EXCEPT !.error = Mute, !.notice = Mute]
             q == [at |-> "asked", locale |-> tab[p].locale, key |-> k, since |-> FALSE]
  <2>1. /\ calls < b.calls /\ calls' = calls + 1 /\ UNCHANGED <<opened, choices>> /\ tab[p].at = "open"
        /\ UNCHANGED <<textsStored, choice, textsLoading>>
        /\ textsCall' = [textsCall EXCEPT ![p] = q]
        /\ tab' = [tab EXCEPT ![p].error = Mute, ![p].notice = Mute]
    BY <1>8 DEF Speech!Ask
  <2>2. Turns(p, x, q)
    BY <1>3, <2>1 DEF Turns
  <2>3. /\ x.at = "open" /\ x.locale = tab[p].locale /\ x.dir = tab[p].dir /\ x.error = Mute /\ x.notice = Mute
        /\ x \in Screens(b)
    BY <1>3, <2>1, SilenceSays DEF Screens
  <2>4. AskedGood(b, q, x)
    BY <1>3, <2>3, SilenceSays DEF AskedGood, Questions
  <2> HIDE DEF x, q
  <2>5. TabGood(b, x)
    BY <1>3, <2>1, <2>3, SilenceSays DEF TabGood
  <2>6. Opened(b, opened', choices', calls')
    BY <1>0, <2>1, OneMore DEF Opened
  <2> QED
    BY <1>4, <2>1, <2>2, <2>3, <2>4, <2>5, <2>6
<1>9. ASSUME NEW n \in b.names, Speech(b)!Succeeded(p, n)
      PROVE  /\ TabsGood(b, tab', textsCall') /\ Chosen(b, textsStored', choice', textsLoading', tab')
             /\ Choosing(b, choice', textsLoading') /\ Opened(b, opened', choices', calls')
  <2> DEFINE m == [Mute EXCEPT !.told = Speech(b)!t(tab[p].locale, "later"), !.name = Speech(b)!interpolate(n), !.of = n]
             x == [tab[p] EXCEPT !.notice = m]
  <2>1. /\ textsCall[p].at = "asked" /\ UNCHANGED <<textsStored, choice, textsLoading>> /\ UNCHANGED <<opened, choices, calls>>
        /\ textsCall' = [textsCall EXCEPT ![p] = Speech(b)!Idle] /\ tab' = [tab EXCEPT ![p].notice = m]
    BY <1>9 DEF Speech!Succeeded
  <2>2. m \in Messages(b) /\ m.told = Speech(b)!t(tab[p].locale, "later")
    <3>1. Mute \in Messages(b) /\ "later" \in Speech(b)!Keys
      BY SilenceSays DEF Speech!Keys
    <3>2. /\ Speech(b)!t(tab[p].locale, "later") \in Told(b)
          /\ Speech(b)!interpolate(n) \in {<<>>} \cup {Speech(b)!interpolate(o) : o \in b.names}
          /\ n \in {<<>>} \cup b.names
      BY <1>3, <1>9, <3>1 DEF Told
    <3> QED
      BY <3>1, <3>2 DEF Messages
  <2> HIDE DEF m
  <2>3. Turns(p, x, Speech(b)!Idle)
    BY <1>3, <2>1 DEF Turns
  <2>4. /\ x.at = tab[p].at /\ x.locale = tab[p].locale /\ x.dir = tab[p].dir /\ x.error = tab[p].error /\ x.notice = m
        /\ x \in Screens(b)
    BY <1>3, <2>2 DEF Screens
  <2>5. Said(b, m, tab[p].locale)
    <3>1. "later" \in Speech(b)!Keys
      BY DEF Speech!Keys
    <3> QED
      BY <1>3, <2>2, <3>1, DictionariesAnswer DEF Said
  <2>6. tab[p].at = "open" /\ tab[p].error.told = None
    BY <1>3, <2>1 DEF AskedGood
  <2> HIDE DEF x
  <2>7. TabGood(b, x)
    BY <1>3, <2>2, <2>4, <2>5, <2>6 DEF TabGood
  <2>8. Opened(b, opened', choices', calls')
    BY <1>0, <2>1 DEF Opened
  <2> QED
    BY <1>4, <1>i, <2>1, <2>3, <2>4, <2>6, <2>7, <2>8
<1>10. ASSUME NEW r \in Speech(b)!Refusals \cup Speech(b)!Unnamed \cup Speech(b)!Unanswered, Speech(b)!Refused(p, r)
       PROVE  /\ TabsGood(b, tab', textsCall') /\ Chosen(b, textsStored', choice', textsLoading', tab')
              /\ Choosing(b, choice', textsLoading') /\ Opened(b, opened', choices', calls')
  <2> DEFINE q == textsCall[p]
             m == [Mute EXCEPT !.told = Speech(b)!getLocalizedApiErrorMessage(q.locale, r, Speech(b)!t(q.locale, q.key)),
                               !.reason = r, !.since = q.since]
             x == [tab[p] EXCEPT !.error = m]
  <2>1. /\ q.at = "asked" /\ UNCHANGED <<textsStored, choice, textsLoading>> /\ UNCHANGED <<opened, choices, calls>>
        /\ textsCall' = [textsCall EXCEPT ![p] = Speech(b)!Idle] /\ tab' = [tab EXCEPT ![p].error = m]
    BY <1>10 DEF Speech!Refused
  <2>2. /\ m \in Messages(b) /\ m.reason = r /\ m.since = q.since
        /\ m.told = Speech(b)!getLocalizedApiErrorMessage(q.locale, r, Speech(b)!t(q.locale, q.key))
    <3>1. q.since \in BOOLEAN /\ q.locale \in Speech(b)!localeOptions /\ q.key \in Speech(b)!Keys
      BY <1>3 DEF Questions
    <3>2. Speech(b)!getLocalizedApiErrorMessage(q.locale, r, Speech(b)!t(q.locale, q.key)) \in Told(b)
      BY <1>10, <3>1 DEF Told, Given, Answer
    <3>3. Mute \in Messages(b) /\ r \in Given(b)
      BY <1>10, SilenceSays DEF Given
    <3> QED
      BY <3>1, <3>2, <3>3 DEF Messages
  <2> HIDE DEF m
  <2>3. Turns(p, x, Speech(b)!Idle)
    BY <1>3, <2>1 DEF Turns
  <2>4. /\ x.at = tab[p].at /\ x.locale = tab[p].locale /\ x.dir = tab[p].dir /\ x.error = m /\ x.notice = tab[p].notice
        /\ x \in Screens(b)
    BY <1>3, <2>2 DEF Screens
  <2>5. Said(b, m, tab[p].locale) /\ Named(b, m)
    <3>1. /\ q.locale \in Speech(b)!localeOptions /\ q.key \in Speech(b)!Keys
          /\ ~q.since => q.locale = tab[p].locale
      BY <1>3, <2>1 DEF AskedGood, Questions
    <3>2. Said(b, m, q.locale) /\ Named(b, m)
      BY <1>10, <2>2, <3>1, RefusalsAreTold
    <3>3. m.since => Said(b, m, q.locale) = Said(b, m, tab[p].locale)
      BY DEF Said
    <3> QED
      BY <2>2, <3>1, <3>2, <3>3 DEF Said
  <2>6. tab[p].at = "open" /\ tab[p].notice.told = None
    BY <1>3, <2>1 DEF AskedGood
  <2> HIDE DEF x
  <2>7. TabGood(b, x)
    BY <1>3, <2>2, <2>4, <2>5, <2>6 DEF TabGood
  <2>8. Opened(b, opened', choices', calls')
    BY <1>0, <2>1 DEF Opened
  <2> QED
    BY <1>4, <1>i, <2>1, <2>3, <2>4, <2>6, <2>7, <2>8
<1> QED
  BY <1>2, <1>5, <1>6, <1>7, <1>8, <1>9, <1>10

LEMMA SpeechStands ==
  ASSUME NEW b, SpeechInv(b), UNCHANGED <<textsStored, tab, textsCall, choice, textsLoading, opened, choices, calls>>
  PROVE  SpeechInv(b)'
BY DEF SpeechInv

-----------------------------------------------------------------------------
(* The settings.  A title is saved as it was read unless its reader typed: *)
(* the form shows what is known until then, and a save under way remembers *)
(* what was read.  Below, s is what the server has, u the user, d the data,*)
(* f the fetch, o the form, t what was typed and q the saves.              *)
Saves(b) == [at : {"idle", "asked", "done", "refused", "reading"}, name : b.names, title : Settings(b)!Titles,
             read : Settings(b)!Titles \cup {Settings(b)!NotRead}, typed : BOOLEAN]
FormGood(b, d, o, t) ==
  /\ o \in [name : b.names, title : Settings(b)!Titles] /\ t \subseteq {"name", "title"}
  /\ "title" \notin t => o.title = Settings(b)!Known(d)
SavesGood(b, q) ==
  /\ q \in [b.calls -> Saves(b)]
  /\ \A c \in b.calls :
       /\ q[c].at = "idle" <=> q[c] = Settings(b)!IdleCall
       /\ q[c].at = "asked" /\ ~q[c].typed => q[c].title = Settings(b)!Known(q[c].read)
StoredGood(b, s) == s \in [name : b.names, title : Settings(b)!Titles] /\ ~s.title.blanks
KnownGood(b, u, d, f) ==
  /\ u \in b.names /\ d \in Settings(b)!Titles \cup {Settings(b)!NotRead}
  /\ f \in [at : {"idle", "asked", "answered"}, title : Settings(b)!Titles]
SavesCounted(b, m, n, i) == m \in {"", "saved", "failed"} /\ n \in 0 .. b.saves /\ i \in 0 .. b.fails

SettingsInv(b) ==
  /\ StoredGood(b, settingsStored)
  /\ KnownGood(b, settingsUser, data, fetch)
  /\ FormGood(b, data, form, typed)
  /\ SavesGood(b, settingsCall)
  /\ SavesCounted(b, message, saves, fails)

(* The titles: a trimmed one is one, and what is not read is none.         *)
LEMMA TitlesAre ==
  ASSUME NEW b
  PROVE  /\ Settings(b)!Empty \in Settings(b)!Titles
         /\ \A x \in Settings(b)!Titles :
              /\ Settings(b)!Trimmed(x) \in Settings(b)!Titles /\ ~Settings(b)!Trimmed(x).blanks
              /\ ~x.blanks => Settings(b)!Trimmed(x) = x
              /\ Settings(b)!Trimmed(Settings(b)!Trimmed(x)) = Settings(b)!Trimmed(x)
              /\ Settings(b)!Trimmed(x).words = x.words
              /\ x # Settings(b)!NotRead
<1>1. \A w, z : Settings(b)!Text(w, z).words = w /\ Settings(b)!Text(w, z).blanks = z
  BY DEF Settings!Text
<1>2. \A w, z : Settings(b)!Text(w, z) # Settings(b)!NotRead
  BY DEF Settings!Text, Settings!NotRead
<1>3. ASSUME NEW w, NEW z PROVE Settings(b)!Trimmed(Settings(b)!Text(w, z)) = Settings(b)!Text(w, FALSE)
  <2>1. \A y : [[words |-> w, blanks |-> z] EXCEPT !.blanks = y] = [words |-> w, blanks |-> y]
    OBVIOUS
  <2> QED
    BY <2>1, Zenon DEF Settings!Trimmed, Settings!Text
<1>4. \E w : Settings(b)!Empty = Settings(b)!Text(w, FALSE)
  BY Zenon DEF Settings!Empty
<1>f. FALSE \in BOOLEAN
  OBVIOUS
<1>5. Settings(b)!Empty \in Settings(b)!Titles
  BY DEF Settings!Titles
<1>6. ASSUME NEW x \in Settings(b)!Titles
      PROVE  \E w : \E z \in BOOLEAN : x = Settings(b)!Text(w, z) /\ Settings(b)!Text(w, FALSE) \in Settings(b)!Titles
  <2>1. CASE x = Settings(b)!Empty
    BY <1>4, <1>f, <2>1
  <2>2. ASSUME NEW w \in b.words, NEW z \in BOOLEAN, x = Settings(b)!Text(w, z)
        PROVE  Settings(b)!Text(w, FALSE) \in Settings(b)!Titles
    <3>1. \A y \in BOOLEAN : Settings(b)!Text(w, y) \in Settings(b)!Titles
      BY <2>2 DEF Settings!Titles
    <3> QED
      BY <1>f, <3>1
  <2>3. x = Settings(b)!Empty \/ \E w \in b.words, z \in BOOLEAN : x = Settings(b)!Text(w, z)
    BY DEF Settings!Titles
  <2> QED
    BY <2>1, <2>2, <2>3
<1>7. ASSUME NEW x \in Settings(b)!Titles
      PROVE  /\ Settings(b)!Trimmed(x) \in Settings(b)!Titles /\ ~Settings(b)!Trimmed(x).blanks
             /\ ~x.blanks => Settings(b)!Trimmed(x) = x
             /\ Settings(b)!Trimmed(Settings(b)!Trimmed(x)) = Settings(b)!Trimmed(x)
             /\ Settings(b)!Trimmed(x).words = x.words
             /\ x # Settings(b)!NotRead
  <2>0. PICK w : \E z \in BOOLEAN : x = Settings(b)!Text(w, z) /\ Settings(b)!Text(w, FALSE) \in Settings(b)!Titles
    BY <1>6
  <2>1. PICK z \in BOOLEAN : x = Settings(b)!Text(w, z) /\ Settings(b)!Text(w, FALSE) \in Settings(b)!Titles
    BY <2>0
  <2>2. Settings(b)!Trimmed(x) = Settings(b)!Text(w, FALSE)
    BY <1>3, <2>1
  <2>3. Settings(b)!Trimmed(Settings(b)!Text(w, FALSE)) = Settings(b)!Text(w, FALSE)
    BY <1>3
  <2>4. Settings(b)!Text(w, FALSE).blanks = FALSE /\ Settings(b)!Text(w, FALSE).words = w /\ x.words = w /\ x.blanks = z
    BY <1>1, <2>1
  <2>5. ~x.blanks => Settings(b)!Trimmed(x) = x
    <3>1. ~z => z = FALSE
      BY <2>1
    <3> QED
      BY <2>1, <2>2, <2>4, <3>1
  <2> QED
    BY <1>2, <2>1, <2>2, <2>3, <2>4, <2>5
<1> QED
  BY <1>5, <1>7

LEMMA KnownIs ==
  ASSUME NEW b, NEW d \in Settings(b)!Titles \cup {Settings(b)!NotRead}
  PROVE  Settings(b)!Known(d) \in Settings(b)!Titles /\ (d \in Settings(b)!Titles => Settings(b)!Known(d) = d)
BY TitlesAre DEF Settings!Known

LEMMA IdleIs ==
  ASSUME NEW b, Settings(b)!SettingsPageAssumption
  PROVE  /\ Settings(b)!IdleCall \in Saves(b) /\ Settings(b)!IdleCall.at = "idle"
         /\ Settings(b)!Idle \in [at : {"idle", "asked", "answered"}, title : Settings(b)!Titles]
         /\ Settings(b)!Asked \in [at : {"idle", "asked", "answered"}, title : Settings(b)!Titles]
<1>1. b.first \in b.names
  BY DEF Settings!SettingsPageAssumption
<1> QED
  BY <1>1, TitlesAre DEF Settings!IdleCall, Settings!Idle, Settings!Asked, Saves

LEMMA SettingsTypes ==
  ASSUME NEW b, SettingsInv(b) PROVE Settings(b)!TypeOK
<1>1. /\ settingsStored.name \in b.names /\ settingsStored.title \in Settings(b)!Titles /\ ~settingsStored.title.blanks
      /\ settingsUser \in b.names /\ data \in Settings(b)!Titles \cup {Settings(b)!NotRead}
      /\ fetch.at \in {"idle", "asked", "answered"} /\ fetch.title \in Settings(b)!Titles
      /\ form.name \in b.names /\ form.title \in Settings(b)!Titles /\ typed \subseteq {"name", "title"}
  BY DEF SettingsInv, StoredGood, KnownGood, FormGood
<1>2. \A c \in b.calls : /\ settingsCall[c].at \in {"idle", "asked", "done", "refused", "reading"}
                         /\ (settingsCall[c].at = "idle") = (settingsCall[c] = Settings(b)!IdleCall)
  BY DEF SettingsInv, SavesGood, Saves
<1>3. message \in {"", "saved", "failed"} /\ saves \in 0 .. b.saves /\ fails \in 0 .. b.fails
  BY Zenon DEF SettingsInv, SavesCounted
<1> QED
  BY <1>1, <1>2, <1>3, Zenon DEF Settings!TypeOK, Settings!Fields

(* What is typed and what is saved.                                        *)
LEMMA SettingsTells ==
  ASSUME NEW b, SettingsInv(b) PROVE Settings(b)!PreviewIsWhatSavingGives
<1>1. \A x, y : x.words = y.words => Settings(b)!Blank(x) = Settings(b)!Blank(y)
  BY Zenon DEF Settings!Blank
<1>2. form.title \in Settings(b)!Titles
  BY DEF SettingsInv, FormGood
<1>3. /\ Settings(b)!Trimmed(Settings(b)!Trimmed(form.title)) = Settings(b)!Trimmed(form.title)
      /\ Settings(b)!Blank(Settings(b)!Trimmed(form.title)) = Settings(b)!Blank(form.title)
  BY <1>1, <1>2, TitlesAre
<1> QED
  BY <1>3 DEF Settings!PreviewIsWhatSavingGives, Settings!effectiveTitle, Settings!resolvePublicStatusTitle

LEMMA SettingsKeeps ==
  ASSUME NEW b, SettingsInv(b), Settings(b)!Next PROVE Settings(b)!UntypedTitleIsKept
<1>1. SUFFICES ASSUME NEW c \in b.calls, settingsCall[c].at = "asked", settingsCall'[c].at = "done",
                      settingsStored'.title # settingsStored.title, ~settingsCall[c].typed,
                      settingsCall[c].read = settingsStored.title
               PROVE  FALSE
  BY DEF Settings!UntypedTitleIsKept
<1>2. /\ settingsStored.title \in Settings(b)!Titles /\ ~settingsStored.title.blanks
      /\ settingsCall[c].title = Settings(b)!Known(settingsCall[c].read) /\ settingsCall \in [b.calls -> Saves(b)]
      /\ settingsCall[c].at # "idle" /\ settingsCall[c] # Settings(b)!IdleCall
  BY <1>1 DEF SettingsInv, SavesGood, StoredGood
<1>3. Settings(b)!Trimmed(settingsCall[c].title) = settingsStored.title
  BY <1>1, <1>2, KnownIs, TitlesAre
<1>4. PICK d \in b.calls : Settings(b)!Save(d) \/ Settings(b)!Fail(d)
  BY <1>1 DEF Settings!Next, Settings!TypeName, Settings!TypeTitle, Settings!Submit, Settings!Read, Settings!Arrive,
     Settings!GiveUp, Settings!Saved, Settings!Settle, Settings!Refused
<1>5. d = c /\ Settings(b)!Save(c)
  <2>1. d = c
    BY <1>1, <1>2, <1>4 DEF Settings!Save, Settings!Fail
  <2>2. ~Settings(b)!Fail(c)
    BY <1>1, <1>2 DEF Settings!Fail, Saves
  <2> QED
    BY <1>4, <2>1, <2>2
<1> QED
  BY <1>1, <1>3, <1>5 DEF Settings!Save

LEMMA SettingsStarts ==
  ASSUME NEW b, Settings(b)!SettingsPageAssumption, Settings(b)!Init PROVE SettingsInv(b)
<1>1. /\ settingsStored \in [name : {b.first}, title : {x \in Settings(b)!Titles : ~x.blanks}]
      /\ settingsUser = b.first /\ data = Settings(b)!NotRead /\ fetch = Settings(b)!Asked
      /\ form = [name |-> settingsUser, title |-> Settings(b)!Empty] /\ typed = {}
      /\ settingsCall = [c \in b.calls |-> Settings(b)!IdleCall]
  BY DEF Settings!Init
<1>2. b.first \in b.names
  BY DEF Settings!SettingsPageAssumption
<1>3. StoredGood(b, settingsStored)
  BY <1>1, <1>2 DEF StoredGood
<1>4. KnownGood(b, settingsUser, data, fetch)
  BY <1>1, <1>2, IdleIs DEF KnownGood
<1>5. FormGood(b, data, form, typed)
  BY <1>1, <1>2, TitlesAre DEF FormGood, Settings!Known
<1>6. SavesGood(b, settingsCall)
  BY <1>1, IdleIs DEF SavesGood
<1>7. SavesCounted(b, message, saves, fails)
  <2>1. \A n \in Nat : 0 \in 0 .. n
    OBVIOUS
  <2>2. saves = 0 /\ fails = 0 /\ b.saves \in Nat /\ b.fails \in Nat /\ message = ""
    BY Zenon DEF Settings!Init, Settings!SettingsPageAssumption
  <2> QED
    BY <2>1, <2>2, Zenon DEF SavesCounted
<1> QED
  BY <1>3, <1>4, <1>5, <1>6, <1>7 DEF SettingsInv

LEMMA OneMoreSave ==
  ASSUME NEW m \in Nat, NEW n \in 0 .. m, n < m PROVE n + 1 \in 0 .. m
OBVIOUS

(* A save goes on: its place is another.                                   *)
LEMMA SaveStep ==
  ASSUME NEW b, Settings(b)!SettingsPageAssumption, SavesGood(b, settingsCall), NEW c \in b.calls,
         settingsCall' \in {[settingsCall EXCEPT ![c].at = "done"], [settingsCall EXCEPT ![c].at = "refused"],
                            [settingsCall EXCEPT ![c].at = "reading"], [settingsCall EXCEPT ![c] = Settings(b)!IdleCall]}
  PROVE  SavesGood(b, settingsCall')
<1>1. CASE settingsCall' = [settingsCall EXCEPT ![c] = Settings(b)!IdleCall]
  <2>1. settingsCall' \in [b.calls -> Saves(b)] /\ \A d \in b.calls : settingsCall'[d] = IF d = c THEN Settings(b)!IdleCall ELSE settingsCall[d]
    BY <1>1, IdleIs DEF SavesGood
  <2> QED
    BY <2>1, IdleIs DEF SavesGood
<1>2. ASSUME NEW z \in {"done", "refused", "reading"}, settingsCall' = [settingsCall EXCEPT ![c].at = z]
      PROVE  SavesGood(b, settingsCall')
  <2>1. settingsCall \in [b.calls -> Saves(b)] /\ settingsCall[c] \in Saves(b)
    BY DEF SavesGood
  <2>2. [settingsCall[c] EXCEPT !.at = z] \in Saves(b) /\ [settingsCall[c] EXCEPT !.at = z].at = z
    BY <1>2, <2>1 DEF Saves
  <2>3. /\ settingsCall' \in [b.calls -> Saves(b)] /\ settingsCall'[c].at = z
        /\ \A d \in b.calls : d # c => settingsCall'[d] = settingsCall[d]
    BY <1>2, <2>1, <2>2
  <2>4. z # "idle" /\ z # "asked"
    BY <1>2
  <2> QED
    BY <2>3, <2>4, IdleIs DEF SavesGood
<1> QED
  BY <1>1, <1>2

LEMMA KnowStep ==
  ASSUME NEW b, KnownGood(b, settingsUser, data, fetch), FormGood(b, data, form, typed), NEW u \in b.names,
         NEW d \in Settings(b)!Titles \cup {Settings(b)!NotRead}, Settings(b)!Know(u, d)
  PROVE  /\ FormGood(b, data', form', typed') /\ settingsUser' = u /\ data' = d
<1>1. Settings(b)!Known(d) \in Settings(b)!Titles
  BY KnownIs
<1>2. settingsUser' = u /\ data' = d
  BY DEF Settings!Know
<1>3. \/ Settings(b)!Known(d) = Settings(b)!Known(data) /\ form' = form /\ typed' = typed
      \/ form' = [name |-> u, title |-> Settings(b)!Known(d)] /\ typed' = {}
  BY DEF Settings!Know
<1>4. FormGood(b, d, form', typed')
  <2>1. CASE Settings(b)!Known(d) = Settings(b)!Known(data) /\ form' = form /\ typed' = typed
    BY <2>1 DEF FormGood
  <2>2. CASE form' = [name |-> u, title |-> Settings(b)!Known(d)] /\ typed' = {}
    BY <1>1, <2>2 DEF FormGood
  <2> QED
    BY <1>3, <2>1, <2>2
<1> QED
  BY <1>2, <1>4

LEMMA SettingsSteps ==
  ASSUME NEW b, Settings(b)!SettingsPageAssumption, SettingsInv(b), Settings(b)!Next PROVE SettingsInv(b)'
<1>0. /\ StoredGood(b, settingsStored) /\ KnownGood(b, settingsUser, data, fetch) /\ FormGood(b, data, form, typed)
      /\ SavesGood(b, settingsCall) /\ SavesCounted(b, message, saves, fails)
  BY DEF SettingsInv
<1>n. b.saves \in Nat /\ b.fails \in Nat
  BY Zenon DEF Settings!SettingsPageAssumption
<1>1. SUFFICES /\ StoredGood(b, settingsStored') /\ KnownGood(b, settingsUser', data', fetch') /\ FormGood(b, data', form', typed')
               /\ SavesGood(b, settingsCall') /\ SavesCounted(b, message', saves', fails')
  BY DEF SettingsInv
<1>m. /\ UNCHANGED <<message, saves, fails>> => SavesCounted(b, message', saves', fails')
      /\ \A m \in {"", "saved", "failed"} : message' = m /\ UNCHANGED <<saves, fails>> => SavesCounted(b, message', saves', fails')
      /\ message' = message /\ saves' = saves /\ fails < b.fails /\ fails' = fails + 1 => SavesCounted(b, message', saves', fails')
      /\ message' = "" /\ fails' = fails /\ saves < b.saves /\ saves' = saves + 1 => SavesCounted(b, message', saves', fails')
  <2>1. fails < b.fails => fails + 1 \in 0 .. b.fails
    <3>1. fails \in 0 .. b.fails
      BY <1>0, Zenon DEF SavesCounted
    <3> QED
      BY <1>n, <3>1, OneMoreSave
  <2>2. saves < b.saves => saves + 1 \in 0 .. b.saves
    <3>1. saves \in 0 .. b.saves
      BY <1>0, Zenon DEF SavesCounted
    <3> QED
      BY <1>n, <3>1, OneMoreSave
  <2> QED
    BY <1>0, <2>1, <2>2, Zenon DEF SavesCounted
<1>2. CASE \/ \E n \in b.names : Settings(b)!TypeName(n)
           \/ \E x \in Settings(b)!Titles : Settings(b)!TypeTitle(x)
  <2>1. FormGood(b, data', form', typed')
    BY <1>0, <1>2 DEF FormGood, Settings!TypeName, Settings!TypeTitle
  <2>2. UNCHANGED <<settingsStored, settingsUser, data, fetch, settingsCall>> /\ UNCHANGED <<message, saves, fails>>
    BY <1>2 DEF Settings!TypeName, Settings!TypeTitle
  <2> QED
    BY <1>0, <1>m, <2>1, <2>2
<1>3. CASE Settings(b)!Submit
  <2>1. /\ message' = "" /\ fails' = fails /\ saves < b.saves /\ saves' = saves + 1
        /\ UNCHANGED <<settingsStored, settingsUser, data, fetch, form, typed>>
    BY <1>3, Zenon DEF Settings!Submit
  <2>2. PICK c \in b.calls :
          settingsCall' = [settingsCall EXCEPT ![c] = [at |-> "asked", name |-> form.name, title |-> form.title,
                                                       read |-> data, typed |-> "title" \in typed]]
    BY <1>3 DEF Settings!Submit
  <2> DEFINE q == [at |-> "asked", name |-> form.name, title |-> form.title, read |-> data, typed |-> "title" \in typed]
  <2>3. /\ q \in Saves(b) /\ q.at = "asked" /\ ~q.typed => q.title = Settings(b)!Known(q.read)
    BY <1>0 DEF FormGood, KnownGood, Saves
  <2>4. q \in Saves(b) /\ q.at = "asked"
    BY <1>0 DEF FormGood, KnownGood, Saves
  <2>5. ~q.typed => q.title = Settings(b)!Known(q.read)
    BY <1>0 DEF FormGood
  <2>6. settingsCall' = [settingsCall EXCEPT ![c] = q]
    BY <2>2
  <2> HIDE DEF q
  <2>7. settingsCall' \in [b.calls -> Saves(b)] /\ \A d \in b.calls : settingsCall'[d] = IF d = c THEN q ELSE settingsCall[d]
    BY <1>0, <2>4, <2>6 DEF SavesGood
  <2>8. SavesGood(b, settingsCall')
    BY <1>0, <2>4, <2>5, <2>7, IdleIs DEF SavesGood
  <2> QED
    BY <1>0, <1>m, <2>1, <2>8
<1>4. ASSUME NEW c \in b.calls, Settings(b)!Save(c) \/ Settings(b)!Fail(c)
      PROVE  /\ StoredGood(b, settingsStored') /\ KnownGood(b, settingsUser', data', fetch') /\ FormGood(b, data', form', typed')
             /\ SavesGood(b, settingsCall') /\ SavesCounted(b, message', saves', fails')
  <2>1. /\ settingsStored' \in {settingsStored, [name |-> settingsCall[c].name, title |-> Settings(b)!Trimmed(settingsCall[c].title)]}
        /\ settingsCall' \in {[settingsCall EXCEPT ![c].at = "done"], [settingsCall EXCEPT ![c].at = "refused"]}
        /\ UNCHANGED <<settingsUser, data, fetch, form, typed>>
    BY <1>4 DEF Settings!Save, Settings!Fail
  <2>2. settingsCall[c].name \in b.names /\ settingsCall[c].title \in Settings(b)!Titles
    BY <1>0, <1>4 DEF SavesGood, Saves
  <2>3. StoredGood(b, settingsStored')
    BY <1>0, <2>1, <2>2, TitlesAre DEF StoredGood
  <2>4. SavesGood(b, settingsCall')
    BY <1>0, <1>4, <2>1, SaveStep
  <2>5. SavesCounted(b, message', saves', fails')
    BY <1>4, <1>m, Zenon DEF Settings!Save, Settings!Fail
  <2> QED
    BY <1>0, <2>1, <2>3, <2>4, <2>5
<1>5. ASSUME NEW c \in b.calls, Settings(b)!Saved(c)
      PROVE  /\ StoredGood(b, settingsStored') /\ KnownGood(b, settingsUser', data', fetch') /\ FormGood(b, data', form', typed')
             /\ SavesGood(b, settingsCall') /\ SavesCounted(b, message', saves', fails')
  <2>1. /\ Settings(b)!Know(settingsCall[c].name, data) /\ fetch' \in {fetch, Settings(b)!Asked}
        /\ settingsCall' = [settingsCall EXCEPT ![c].at = "reading"]
        /\ settingsStored' = settingsStored /\ UNCHANGED <<message, saves, fails>>
    BY <1>5 DEF Settings!Saved
  <2>2. settingsCall[c].name \in b.names
    BY <1>0, <1>5 DEF SavesGood, Saves
  <2>3. FormGood(b, data', form', typed') /\ settingsUser' \in b.names /\ data' = data
    <3>1. data \in Settings(b)!Titles \cup {Settings(b)!NotRead}
      BY <1>0 DEF KnownGood
    <3> QED
      BY <1>0, <2>1, <2>2, <3>1, KnowStep
  <2>4. KnownGood(b, settingsUser', data', fetch')
    BY <1>0, <2>1, <2>3, IdleIs DEF KnownGood
  <2>5. SavesGood(b, settingsCall')
    BY <1>0, <1>5, <2>1, SaveStep
  <2> QED
    BY <1>0, <1>m, <2>1, <2>3, <2>4, <2>5
<1>6. ASSUME NEW c \in b.calls, Settings(b)!Settle(c) \/ Settings(b)!Refused(c)
      PROVE  /\ StoredGood(b, settingsStored') /\ KnownGood(b, settingsUser', data', fetch') /\ FormGood(b, data', form', typed')
             /\ SavesGood(b, settingsCall') /\ SavesCounted(b, message', saves', fails')
  <2>1. /\ settingsCall' = [settingsCall EXCEPT ![c] = Settings(b)!IdleCall]
        /\ UNCHANGED <<settingsStored, settingsUser, data, fetch, form, typed>> /\ UNCHANGED <<saves, fails>>
    BY <1>6 DEF Settings!Settle, Settings!Refused
  <2>2. SavesCounted(b, message', saves', fails')
    BY <1>6, <1>m, Zenon DEF Settings!Settle, Settings!Refused
  <2>3. SavesGood(b, settingsCall')
    BY <1>0, <1>6, <2>1, SaveStep
  <2> QED
    BY <1>0, <2>1, <2>2, <2>3
<1>7. CASE Settings(b)!Read \/ Settings(b)!GiveUp
  <2>1. /\ fetch' \in {Settings(b)!Idle, [at |-> "answered", title |-> settingsStored.title]}
        /\ UNCHANGED <<settingsStored, settingsUser, data, form, typed, settingsCall>>
    BY <1>7 DEF Settings!Read, Settings!GiveUp
  <2>2. SavesCounted(b, message', saves', fails')
    BY <1>7, <1>m, Zenon DEF Settings!Read, Settings!GiveUp
  <2>3. KnownGood(b, settingsUser', data', fetch')
    BY <1>0, <2>1, IdleIs DEF KnownGood, StoredGood
  <2> QED
    BY <1>0, <2>1, <2>2, <2>3
<1>8. CASE Settings(b)!Arrive
  <2>1. /\ Settings(b)!Know(settingsUser, fetch.title) /\ fetch' = Settings(b)!Idle
        /\ UNCHANGED <<settingsStored, settingsCall>> /\ UNCHANGED <<message, saves, fails>>
    BY <1>8 DEF Settings!Arrive
  <2>2. settingsUser \in b.names /\ fetch.title \in Settings(b)!Titles
    BY <1>0 DEF KnownGood
  <2>3. FormGood(b, data', form', typed') /\ settingsUser' = settingsUser /\ data' = fetch.title
    BY <1>0, <2>1, <2>2, KnowStep
  <2>4. KnownGood(b, settingsUser', data', fetch')
    BY <2>1, <2>2, <2>3, IdleIs DEF KnownGood
  <2> QED
    BY <1>0, <1>m, <2>1, <2>3, <2>4
<1> QED
  BY <1>2, <1>3, <1>4, <1>5, <1>6, <1>7, <1>8 DEF Settings!Next

LEMMA SettingsStands ==
  ASSUME NEW b, SettingsInv(b),
         UNCHANGED <<settingsStored, settingsUser, data, fetch, form, typed, settingsCall, message, saves, fails>>
  PROVE  SettingsInv(b)'
BY DEF SettingsInv

-----------------------------------------------------------------------------
(* Each part by itself, with whatever constants its assumption allows.     *)

(* As long as no answer has crossed a change of the cookie and none was    *)
(* lost, a browser whose tabs all say signed out holds no live session;    *)
(* and a request is only sent again for its own user, unless the cookie    *)
(* was another's (logout, refreshSession, apiRequest).                     *)
THEOREM BrowserAndServerAgree ==
  ASSUME NEW CONSTANT b, Client(b)!WebClientAssumption
  PROVE  Client(b)!Spec => [](Client(b)!SignedOutMeansNoSession /\ Client(b)!RetriedForItsUser)
<1>1. Client(b)!Init => ClientInv(b)
  BY ClientStarts
<1>2. ClientInv(b) /\ [Client(b)!Next]_(Client(b)!vars) => ClientInv(b)'
  BY ClientSteps, ClientStands
<1>3. ClientInv(b) => Client(b)!SignedOutMeansNoSession /\ Client(b)!RetriedForItsUser
  BY ClientAgrees
<1> QED
  BY <1>1, <1>2, <1>3, PTL DEF Client!Spec

(* A tab drops a user whose session the browser still holds only for an    *)
(* answer to a cookie replaced since or an error of the network; and the   *)
(* user it shows is the owner of its token, but for the late answer of a   *)
(* save of the profile (refreshSession, updateProfile).                    *)
THEOREM OnlyLateAnswersMislead ==
  ASSUME NEW CONSTANT b, Client(b)!WebClientAssumption
  PROVE  Client(b)!Spec => [][Client(b)!DropsOnlyByCrossing /\ Client(b)!OnlyLateProfilesMislead]_(Client(b)!vars)
<1>1. Client(b)!Init => ClientInv(b)
  BY ClientStarts
<1>2. ClientInv(b) /\ [Client(b)!Next]_(Client(b)!vars) => ClientInv(b)'
  BY ClientSteps, ClientStands
<1>3. ClientInv(b) /\ [Client(b)!Next]_(Client(b)!vars)
        => [Client(b)!DropsOnlyByCrossing /\ Client(b)!OnlyLateProfilesMislead]_(Client(b)!vars)
  BY DropsAreCrossings, MismatchesAreLate
<1> QED
  BY <1>1, <1>2, <1>3, PTL DEF Client!Spec

(* From wherever a visitor comes, a page is reached after at most one      *)
(* redirection, and a page that is open to them is kept over a reload (the *)
(* guards of app.tsx).                                                     *)
THEOREM GuardsSettle ==
  ASSUME NEW CONSTANT b, Routes(b)!RouterAssumption
  PROVE  Routes(b)!Spec => [](Routes(b)!RedirectsSettle /\ Routes(b)!LoadedPageKept)
<1>1. Routes(b)!Init => RoutesInv(b)
  BY RoutesStart
<1>2. RoutesInv(b) /\ [Routes(b)!Next]_(Routes(b)!vars) => RoutesInv(b)'
  BY RoutesSteps, RoutesStand DEF Routes!vars, routeVars
<1>3. RoutesInv(b) => Routes(b)!RedirectsSettle /\ Routes(b)!LoadedPageKept
  BY RoutesSettle
<1> QED
  BY <1>1, <1>2, <1>3, PTL DEF Routes!Spec

(* What is shown under a key that names the tenant is that tenant's, and   *)
(* under another key what is somebody else's is about to be replaced, but  *)
(* for a fetch that failed or was joined (queryKey of the pages).          *)
THEOREM CachedDataIsOwn ==
  ASSUME NEW CONSTANT b, Cache(b)!QueryCacheAssumption
  PROVE  Cache(b)!Spec => [](Cache(b)!KeyedDataIsOwn /\ Cache(b)!ForeignDataIsRefetched)
<1>1. Cache(b)!Init => CacheInv(b)
  BY CacheStarts
<1>2. CacheInv(b) /\ [Cache(b)!Next]_(Cache(b)!vars) => CacheInv(b)'
  BY CacheSteps, CacheStands DEF Cache!vars, cacheVars
<1>3. CacheInv(b) => Cache(b)!KeyedDataIsOwn /\ Cache(b)!ForeignDataIsRefetched
  BY CacheIsOwn
<1> QED
  BY <1>1, <1>2, <1>3, PTL DEF Cache!Spec

(* Of the public pages, that of the forgotten password says the same       *)
(* whatever name is asked about, a verification is refused only for a link *)
(* tried before, expired or lost on the way, who is taken to the login by  *)
(* a registration can sign in, and a password changes only by a live link  *)
(* sent for it (login-page.tsx, verify-email-page.tsx, service.go).        *)
THEOREM PagesTellAndDoWhatIsAsked ==
  ASSUME NEW CONSTANT b, Account(b)!AccountPagesAssumption
  PROVE  Account(b)!Spec => /\ [](Account(b)!ForgotTellsNothing /\ Account(b)!FreshLinkVerifies)
                            /\ [][Account(b)!RegisteredCanSignIn /\ Account(b)!ResetNeedsALiveLink]_(Account(b)!vars)
<1>1. Account(b)!Init => AccountInv(b)
  BY AccountStarts
<1>2. AccountInv(b) /\ [Account(b)!Next]_(Account(b)!vars) => AccountInv(b)'
  BY AccountSteps, AccountStands DEF Account!vars, Account!counters
<1>3. AccountInv(b) => Account(b)!ForgotTellsNothing /\ Account(b)!FreshLinkVerifies
  BY AccountTells
<1>4. AccountInv(b) /\ [Account(b)!Next]_(Account(b)!vars)
        => [Account(b)!RegisteredCanSignIn /\ Account(b)!ResetNeedsALiveLink]_(Account(b)!vars)
  BY AccountKeeps
<1> QED
  BY <1>1, <1>2, <1>3, <1>4, PTL DEF Account!Spec

(* Whatever languages the browsers speak and however the tabs are opened,  *)
(* the language picked last is the one a page opens in, a text is in the   *)
(* language of its page or in English, and a refusal is told by the reason *)
(* the server gave (detectLocale, t, getLocalizedApiErrorMessage).         *)
THEOREM TextsAreTheReaders ==
  ASSUME NEW CONSTANT b, Speech(b)!TextsAssumption
  PROVE  Speech(b)!Spec => [](Speech(b)!ChoiceSurvives /\ Speech(b)!TextsAreInThePagesLanguage /\ Speech(b)!RefusalsAreNamed)
<1>1. Speech(b)!Init => SpeechInv(b)
  BY SpeechStarts
<1>2. SpeechInv(b) /\ [Speech(b)!Next]_(Speech(b)!vars) => SpeechInv(b)'
  BY SpeechSteps, SpeechStands DEF Speech!vars
<1>3. SpeechInv(b) => Speech(b)!ChoiceSurvives /\ Speech(b)!TextsAreInThePagesLanguage /\ Speech(b)!RefusalsAreNamed
  BY SpeechTells
<1> QED
  BY <1>1, <1>2, <1>3, PTL DEF Speech!Spec

(* The preview of the title is what the public page will have, and a save  *)
(* replaces a title nobody typed only if the page had not read it, or it   *)
(* was changed since (settings-page.tsx, effectiveTitle).                  *)
THEOREM SettingsSaveWhatTheyShow ==
  ASSUME NEW CONSTANT b, Settings(b)!SettingsPageAssumption
  PROVE  Settings(b)!Spec => []Settings(b)!PreviewIsWhatSavingGives /\ [][Settings(b)!UntypedTitleIsKept]_(Settings(b)!vars)
<1>1. Settings(b)!Init => SettingsInv(b)
  BY SettingsStarts
<1>2. SettingsInv(b) /\ [Settings(b)!Next]_(Settings(b)!vars) => SettingsInv(b)'
  BY SettingsSteps, SettingsStands DEF Settings!vars
<1>3. SettingsInv(b) => Settings(b)!PreviewIsWhatSavingGives
  BY SettingsTells
<1>4. SettingsInv(b) /\ [Settings(b)!Next]_(Settings(b)!vars) => [Settings(b)!UntypedTitleIsKept]_(Settings(b)!vars)
  BY SettingsKeeps
<1> QED
  BY <1>1, <1>2, <1>3, <1>4, PTL DEF Settings!Spec

-----------------------------------------------------------------------------
(* The parts together.                                                     *)
WebInv ==
  /\ part \in Parts
  /\ part = "client" => ClientInv(OneTab)
  /\ part = "tabs" => ClientInv(TwoTabs)
  /\ part = "router" => RoutesInv(Visitors)
  /\ part = "cache" => CacheInv(Reader)
  /\ part = "account" => AccountInv(OneAccount)
  /\ part = "accounts" => AccountInv(TwoAccounts)
  /\ part = "texts" => SpeechInv(Readers)
  /\ part = "settings" => SettingsInv(Owner)

LEMMA WebStarts == Init => WebInv
<1> SUFFICES ASSUME Init PROVE WebInv
  OBVIOUS
<1>1. part = "client" => ClientInv(OneTab)
  BY MCAccountWebValues, ClientStarts DEF Init
<1>2. part = "tabs" => ClientInv(TwoTabs)
  BY MCAccountWebValues, ClientStarts DEF Init
<1>3. part = "router" => RoutesInv(Visitors)
  BY RoutesStart DEF Init
<1>4. part = "cache" => CacheInv(Reader)
  BY MCAccountWebValues, CacheStarts DEF Init
<1>5. part = "account" => AccountInv(OneAccount)
  BY MCAccountWebValues, AccountStarts DEF Init
<1>6. part = "accounts" => AccountInv(TwoAccounts)
  BY MCAccountWebValues, AccountStarts DEF Init
<1>7. part = "texts" => SpeechInv(Readers)
  BY MCAccountWebValues, SpeechStarts DEF Init
<1>8. part = "settings" => SettingsInv(Owner)
  BY MCAccountWebValues, SettingsStarts DEF Init
<1>9. part \in Parts
  BY DEF Init
<1> QED
  BY <1>1, <1>2, <1>3, <1>4, <1>5, <1>6, <1>7, <1>8, <1>9 DEF WebInv

LEMMA WebSteps == WebInv /\ [Next]_allVars => WebInv'
<1> SUFFICES ASSUME WebInv, [Next]_allVars PROVE WebInv'
  OBVIOUS
<1>0. part' = part /\ part \in Parts
  BY DEF WebInv, Next, allVars
<1>1. CASE part = "client"
  <2>1. Client(OneTab)!Next \/ UNCHANGED Client(OneTab)!vars
    BY <1>1 DEF Next, allVars, clientVars, Client!vars, Client!serverVars, Client!tabVars
  <2>2. ClientInv(OneTab)'
    BY <1>1, <2>1, MCAccountWebValues, ClientSteps, ClientStands DEF WebInv
  <2> QED
    BY <1>0, <1>1, <2>2 DEF WebInv
<1>2. CASE part = "tabs"
  <2>1. Client(TwoTabs)!Next \/ UNCHANGED Client(TwoTabs)!vars
    BY <1>2 DEF Next, allVars, clientVars, Client!vars, Client!serverVars, Client!tabVars
  <2>2. ClientInv(TwoTabs)'
    BY <1>2, <2>1, MCAccountWebValues, ClientSteps, ClientStands DEF WebInv
  <2> QED
    BY <1>0, <1>2, <2>2 DEF WebInv
<1>3. CASE part = "router"
  <2>1. Routes(Visitors)!Next \/ UNCHANGED routeVars
    BY <1>3 DEF Next, allVars
  <2>2. RoutesInv(Visitors)'
    BY <1>3, <2>1, MCAccountWebValues, RoutesSteps, RoutesStand DEF WebInv
  <2> QED
    BY <1>0, <1>3, <2>2 DEF WebInv
<1>4. CASE part = "cache"
  <2>1. Cache(Reader)!Next \/ UNCHANGED cacheVars
    BY <1>4 DEF Next, allVars
  <2>2. CacheInv(Reader)'
    BY <1>4, <2>1, MCAccountWebValues, CacheSteps, CacheStands DEF WebInv
  <2> QED
    BY <1>0, <1>4, <2>2 DEF WebInv
<1>5. CASE part = "account"
  <2>1. Account(OneAccount)!Next \/ UNCHANGED pagesVars
    BY <1>5 DEF Next, allVars
  <2>2. AccountInv(OneAccount)'
    BY <1>5, <2>1, MCAccountWebValues, AccountSteps, AccountStands DEF WebInv, pagesVars
  <2> QED
    BY <1>0, <1>5, <2>2 DEF WebInv
<1>6. CASE part = "accounts"
  <2>1. Account(TwoAccounts)!Next \/ UNCHANGED pagesVars
    BY <1>6 DEF Next, allVars
  <2>2. AccountInv(TwoAccounts)'
    BY <1>6, <2>1, MCAccountWebValues, AccountSteps, AccountStands DEF WebInv, pagesVars
  <2> QED
    BY <1>0, <1>6, <2>2 DEF WebInv
<1>7. CASE part = "texts"
  <2>1. Speech(Readers)!Next \/ UNCHANGED textsVars
    BY <1>7 DEF Next, allVars
  <2>2. SpeechInv(Readers)'
    BY <1>7, <2>1, MCAccountWebValues, SpeechSteps, SpeechStands DEF WebInv, textsVars
  <2> QED
    BY <1>0, <1>7, <2>2 DEF WebInv
<1>8. CASE part = "settings"
  <2>1. Settings(Owner)!Next \/ UNCHANGED settingsVars
    BY <1>8 DEF Next, allVars
  <2>2. SettingsInv(Owner)'
    BY <1>8, <2>1, MCAccountWebValues, SettingsSteps, SettingsStands DEF WebInv, settingsVars
  <2> QED
    BY <1>0, <1>8, <2>2 DEF WebInv
<1> QED
  BY <1>0, <1>1, <1>2, <1>3, <1>4, <1>5, <1>6, <1>7, <1>8 DEF Parts

LEMMA WebInvHolds == Spec => []WebInv
BY WebStarts, WebSteps, PTL DEF Spec

(* Every part's variables keep their types.                                *)
THEOREM WebTyped == Spec => []TypeOK
<1>1. /\ \A b : ClientInv(b) => Client(b)!TypeOK
      /\ \A b : RoutesInv(b) => Routes(b)!TypeOK
      /\ \A b : CacheInv(b) => Cache(b)!TypeOK
      /\ \A b : AccountInv(b) => Account(b)!TypeOK
  BY Zenon DEF ClientInv, RoutesInv, CacheInv, AccountInv
<1>2. WebInv => TypeOK
  BY <1>1, SpeechTypes, SettingsTypes DEF WebInv, TypeOK
<1> QED
  BY <1>2, WebInvHolds, PTL

(* Browser and server agree on who is signed in, in one tab and in two     *)
(* (refreshSession, apiRequest).                                           *)
THEOREM SessionsAreTheUsers == Spec => []SessionIsTheUsers
<1>1. WebInv => SessionIsTheUsers
  BY MCAccountWebValues, ClientAgrees DEF WebInv, SessionIsTheUsers
<1> QED
  BY <1>1, WebInvHolds, PTL

(* A visitor is shown the page that is open to them, with their own data   *)
(* on it (the guards of app.tsx, the keys of the queries).                 *)
THEOREM PagesAreTheUsers == Spec => []ShownIsTheUsers
<1>1. WebInv => ShownIsTheUsers
  BY MCAccountWebValues, RoutesSettle, CacheIsOwn DEF WebInv, ShownIsTheUsers
<1> QED
  BY <1>1, WebInvHolds, PTL

(* The reader is told what the server answered, in their language (the     *)
(* pages before signing in, i18n.tsx, api-error.ts, settings-page.tsx).    *)
THEOREM ReadersAreTold == Spec => []ReaderIsToldWhatIs
<1>1. WebInv => ReaderIsToldWhatIs
  BY MCAccountWebValues, AccountTells, SpeechTells, SettingsTells DEF WebInv, ReaderIsToldWhatIs
<1> QED
  BY <1>1, WebInvHolds, PTL

(* Only an answer that crosses a change of the cookie, or is lost, or      *)
(* belongs to a save of the profile misleads a tab about its user          *)
(* (refreshSession, updateProfile).                                        *)
THEOREM TabsAreMisledByCrossings == Spec => OnlyCrossingsMislead
<1> DEFINE C == /\ part = "client" => Client(OneTab)!DropsOnlyByCrossing /\ Client(OneTab)!OnlyLateProfilesMislead
                /\ part = "tabs" => Client(TwoTabs)!DropsOnlyByCrossing /\ Client(TwoTabs)!OnlyLateProfilesMislead
<1>1. WebInv /\ [Next]_allVars => [C]_allVars
  <2> SUFFICES ASSUME WebInv, Next PROVE C
    OBVIOUS
  <2>1. CASE part = "client"
    <3>1. Client(OneTab)!Next /\ ClientInv(OneTab)
      BY <2>1 DEF Next, WebInv
    <3> QED
      BY <2>1, <3>1, MCAccountWebValues, DropsAreCrossings, MismatchesAreLate
  <2>2. CASE part = "tabs"
    <3>1. Client(TwoTabs)!Next /\ ClientInv(TwoTabs)
      BY <2>2 DEF Next, WebInv
    <3> QED
      BY <2>2, <3>1, MCAccountWebValues, DropsAreCrossings, MismatchesAreLate
  <2> QED
    BY <2>1, <2>2
<1> QED
  BY <1>1, WebInvHolds, PTL DEF Spec, OnlyCrossingsMislead

(* A form changes what its reader asked for and nothing else (the pages    *)
(* before signing in, settings-page.tsx).                                  *)
THEOREM FormsDoWhatIsAsked == Spec => OnlyTheAskedIsChanged
<1> DEFINE C == /\ part = "account" => Account(OneAccount)!RegisteredCanSignIn /\ Account(OneAccount)!ResetNeedsALiveLink
                /\ part = "accounts" => /\ Account(TwoAccounts)!RegisteredCanSignIn
                                        /\ Account(TwoAccounts)!ResetNeedsALiveLink
                /\ part = "settings" => Settings(Owner)!UntypedTitleIsKept
<1>1. WebInv /\ [Next]_allVars => [C]_allVars
  <2> SUFFICES ASSUME WebInv, Next PROVE C
    OBVIOUS
  <2>1. CASE part = "account"
    <3>1. Account(OneAccount)!Next /\ AccountInv(OneAccount)
      BY <2>1 DEF Next, WebInv
    <3> QED
      BY <2>1, <3>1, MCAccountWebValues, AccountKeeps
  <2>2. CASE part = "accounts"
    <3>1. Account(TwoAccounts)!Next /\ AccountInv(TwoAccounts)
      BY <2>2 DEF Next, WebInv
    <3> QED
      BY <2>2, <3>1, MCAccountWebValues, AccountKeeps
  <2>3. CASE part = "settings"
    <3>1. Settings(Owner)!Next /\ SettingsInv(Owner)
      BY <2>3 DEF Next, WebInv
    <3> QED
      BY <2>3, <3>1, MCAccountWebValues, SettingsKeeps
  <2> QED
    BY <2>1, <2>2, <2>3
<1> QED
  BY <1>1, WebInvHolds, PTL DEF Spec, OnlyTheAskedIsChanged
=============================================================================
