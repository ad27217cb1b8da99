------------------------------ MODULE WebClient ------------------------------
(***************************************************************************)
(* The session of the web client: what apiRequest and AuthProvider keep in *)
(* each tab of a browser, the refresh cookie the tabs share, and the       *)
(* server's rows that the cookie names.  A session and the access token    *)
(* issued with it have the same id.  The server's side is one step per     *)
(* request here; what happens between its statements is the business of    *)
(* module Sessions.                                                        *)
(***************************************************************************)
EXTENDS Integers

CONSTANTS
  Tabs,         \* tabs of one browser
  Users,        \* the accounts their reader has
  Calls,        \* requests that may be in flight at one time
  Nobody,       \* no user
  MaxSessions,  \* bound: sessions; the server answers an error beyond it
  MaxFaults     \* bound: lost requests, lost answers and reloads

WebClientAssumption ==
  /\ Nobody \notin Users
  /\ MaxSessions \in Nat
  /\ MaxFaults \in Nat

Ids  == 1 .. MaxSessions
None == 0     \* no cookie, no token, nothing granted

VARIABLES
  (* server *)
  owner,      \* [Ids -> user]; Nobody for an id not issued yet
  live,       \* the sessions that can still be refreshed
  aged,       \* the access tokens that have expired
  (* browser *)
  cookie,     \* the refresh cookie
  (* api.ts and auth.tsx, one entry per tab *)
  token,      \* accessToken
  user,       \* useState user
  loading,    \* useState loading
  call,       \* the calls of apiRequest, by slot
  (* history *)
  disturbed,  \* an answer came after the cookie its request carried had been replaced, or never
  faults

serverVars == <<owner, live, aged>>
tabVars    == <<token, user, loading>>
vars       == <<serverVars, cookie, tabVars, call, disturbed, faults>>

Kinds   == {"query", "profile", "boot", "login", "logout"}
Stages  == {"sent", "refreshing", "resent"}
Replies == {"waiting", "ok", "unauthorized", "failed"}

(* A call in flight: the tab that made it and the user the tab showed (for *)
(* a login, the user who asks), how far it is, what its present request    *)
(* carries, the answer, and whether the cookie was that of another user or *)
(* became it by another answer.                                            *)
Call == [kind : Kinds, tab : Tabs, by : Users \cup {Nobody}, stage : Stages,
         token : Ids \cup {None}, cookie : Ids \cup {None},
         reply : Replies, grant : Ids \cup {None}, switched : BOOLEAN]

Idle == [kind |-> "none"]
Busy(c) == call[c].kind # "none"

TypeOK ==
  /\ owner \in [Ids -> Users \cup {Nobody}]
  /\ live \subseteq Ids
  /\ aged \subseteq Ids
  /\ cookie \in Ids \cup {None}
  /\ token \in [Tabs -> Ids \cup {None}]
  /\ user \in [Tabs -> Users \cup {Nobody}]
  /\ loading \in [Tabs -> BOOLEAN]
  /\ call \in [Calls -> Call \cup {Idle}]
  /\ disturbed \in BOOLEAN
  /\ faults \in 0 .. MaxFaults

Request(kind, t, by, withToken) ==
  [kind |-> kind, tab |-> t, by |-> by, stage |-> "sent", token |-> withToken,
   cookie |-> cookie, reply |-> "waiting", grant |-> None,
   switched |-> kind = "query" /\ cookie # None /\ owner[cookie] # by]

(* No tab is open; the reader may have a cookie of an earlier visit.       *)
Init ==
  /\ owner = [s \in Ids |-> Nobody]
  /\ live = {}
  /\ aged = {}
  /\ cookie = None
  /\ token = [t \in Tabs |-> None]
  /\ user = [t \in Tabs |-> Nobody]
  /\ loading = [t \in Tabs |-> TRUE]
  /\ call = [c \in Calls |-> Idle]
  /\ disturbed = FALSE
  /\ faults = 0

-----------------------------------------------------------------------------
(* The tabs send requests.                                                 *)

Send(c, request) ==
  /\ ~Busy(c)
  /\ call' = [call EXCEPT ![c] = request]
  /\ UNCHANGED <<serverVars, cookie, tabVars, disturbed, faults>>

(* The provider is mounted and asks for a session before anything is shown *)
(* but the loading text.                                                   *)
Boot(c, t) ==
  /\ loading[t]
  /\ \A d \in Calls : Busy(d) => call[d].tab # t
  /\ Send(c, Request("boot", t, Nobody, None))

(* A page of the workspace reads or changes something: only shown to a     *)
(* user, and sent with whatever token the tab has by then.                 *)
Query(c, t) ==
  /\ ~loading[t]
  /\ user[t] # Nobody
  /\ Send(c, Request("query", t, user[t], token[t]))

UpdateProfile(c, t) ==
  /\ ~loading[t]
  /\ user[t] # Nobody
  /\ Send(c, Request("profile", t, user[t], token[t]))

(* The login page is shown to nobody only.                                 *)
Login(c, t, u) ==
  /\ ~loading[t]
  /\ user[t] = Nobody
  /\ Send(c, Request("login", t, u, None))

Logout(c, t) ==
  /\ ~loading[t]
  /\ user[t] # Nobody
  /\ Send(c, Request("logout", t, user[t], None))

(* The tab is reloaded: what its script kept is gone, and an answer that   *)
(* was under way is dropped (a fault, then).                               *)
Reload(t) ==
  /\ ~loading[t]
  /\ IF \E c \in Calls : Busy(c) /\ call[c].tab = t
     THEN faults < MaxFaults /\ faults' = faults + 1 /\ disturbed' = TRUE
     ELSE UNCHANGED <<faults, disturbed>>
  /\ token' = [token EXCEPT ![t] = None]
  /\ user' = [user EXCEPT ![t] = Nobody]
  /\ loading' = [loading EXCEPT ![t] = TRUE]
  /\ call' = [c \in Calls |-> IF Busy(c) /\ call[c].tab = t THEN Idle ELSE call[c]]
  /\ UNCHANGED <<serverVars, cookie>>

-----------------------------------------------------------------------------
(* The server answers.                                                     *)

Refreshes(c) == call[c].kind = "boot" \/ call[c].stage = "refreshing"

Answer(c, reply, granted) ==
  call' = [call EXCEPT ![c].reply = reply, ![c].grant = granted]

NextId == CHOOSE s \in Ids : owner[s] = Nobody /\ \A r \in 1 .. s - 1 : owner[r] # Nobody

(* A refresh is answered with a new session for the one its cookie names,  *)
(* once; a login with a new session; a logout always, whatever its cookie  *)
(* names; the rest depends on the access token.                            *)
Issue(c, u, replaced) ==
  LET s == NextId IN
  /\ \E r \in Ids : owner[r] = Nobody
  /\ owner' = [owner EXCEPT ![s] = u]
  /\ live' = (live \ replaced) \cup {s}
  /\ Answer(c, "ok", s)

(* Mutant: the session looked up is the newest one.                        *)
AnswerRefreshNewest(c) ==
  /\ Refreshes(c)
  /\ \/ /\ call[c].cookie \in live
        /\ \E s \in live : (\A r \in live : r <= s) /\ Issue(c, owner[s], {call[c].cookie})
     \/ /\ call[c].cookie \notin live
        /\ Answer(c, "unauthorized", None)
        /\ UNCHANGED <<owner, live>>
  /\ UNCHANGED aged

AnswerRefresh(c) ==
  /\ Refreshes(c)
  /\ \/ /\ call[c].cookie \in live
        /\ Issue(c, owner[call[c].cookie], {call[c].cookie})
     \/ /\ call[c].cookie \notin live
        /\ Answer(c, "unauthorized", None)
        /\ UNCHANGED <<owner, live>>
  /\ UNCHANGED aged

AnswerLogin(c) ==
  /\ call[c].kind = "login"
  /\ \/ Issue(c, call[c].by, {})
     \/ Answer(c, "unauthorized", None) /\ UNCHANGED <<owner, live>>   \* wrong password
  /\ UNCHANGED aged

AnswerLogout(c) ==
  /\ call[c].kind = "logout"
  /\ live' = live \ {call[c].cookie}
  /\ Answer(c, "ok", None)
  /\ UNCHANGED <<owner, aged>>

AnswerRequest(c) ==
  /\ call[c].kind \in {"query", "profile"}
  /\ ~Refreshes(c)
  /\ LET good == call[c].token # None /\ call[c].token \notin aged
     IN Answer(c, IF good THEN "ok" ELSE "unauthorized", None)
  /\ UNCHANGED serverVars

Serve(c) ==
  /\ Busy(c)
  /\ call[c].reply = "waiting"
  /\ AnswerRefresh(c) \/ AnswerLogin(c) \/ AnswerLogout(c) \/ AnswerRequest(c)
  /\ UNCHANGED <<cookie, tabVars, disturbed, faults>>

(* The server cannot answer once MaxSessions are issued; or the request,   *)
(* or the answer with what it granted, is lost.                            *)
Exhausted(c) ==
  /\ Busy(c)
  /\ call[c].reply = "waiting"
  /\ Refreshes(c) \/ call[c].kind = "login"
  /\ \A r \in Ids : owner[r] # Nobody
  /\ Answer(c, "failed", None)
  /\ UNCHANGED <<serverVars, cookie, tabVars, disturbed, faults>>

Lose(c) ==
  /\ Busy(c)
  /\ call[c].reply # "failed"
  /\ faults < MaxFaults
  /\ faults' = faults + 1
  /\ Answer(c, "failed", None)
  /\ UNCHANGED <<serverVars, cookie, tabVars, disturbed>>

(* An access token that somebody holds reaches the end of its life.        *)
Age(s) ==
  /\ \/ \E t \in Tabs : token[t] = s
     \/ \E c \in Calls : Busy(c) /\ s \in {call[c].token, call[c].grant}
  /\ aged' = aged \cup {s}
  /\ UNCHANGED <<owner, live, cookie, tabVars, call, disturbed, faults>>

(* A session that the browser knows ends from elsewhere: it expires, the   *)
(* password is changed, the tenant is suspended.                           *)
Revoke(s) ==
  /\ s \in live
  /\ s = cookie \/ \E c \in Calls : Busy(c) /\ s \in {call[c].cookie, call[c].grant}
  /\ live' = live \ {s}
  /\ UNCHANGED <<owner, aged, cookie, tabVars, call, disturbed, faults>>

-----------------------------------------------------------------------------
(* The tabs receive the answers.                                           *)

(* The cookie the answer sets is stored before any script sees the answer. *)
StoreCookie(c) ==
  /\ cookie' = IF call[c].grant # None THEN call[c].grant
               ELSE IF call[c].kind = "logout" /\ call[c].reply = "ok" THEN None
               ELSE cookie
  /\ disturbed' = (\/ disturbed
                    \/ call[c].reply = "failed"
                    \/ /\ Refreshes(c) \/ call[c].kind = "logout"
                       /\ call[c].cookie # cookie)

applyAuthPayload(t, s) ==
  /\ token' = [token EXCEPT ![t] = s]
  /\ user' = [user EXCEPT ![t] = owner[s]]

(* Mutant: the token stays.                                                *)
SignOutKeepsToken(t) ==
  /\ UNCHANGED token
  /\ user' = [user EXCEPT ![t] = Nobody]

SignOut(t) ==
  /\ token' = [token EXCEPT ![t] = None]
  /\ user' = [user EXCEPT ![t] = Nobody]

(* refreshSession: any failure, of the network too, signs the tab out.     *)
RefreshSession(c, t) ==
  IF call[c].reply = "ok" THEN applyAuthPayload(t, call[c].grant) ELSE SignOut(t)

(* The others in flight, if the answer brings the cookie of another user.  *)
Switched(c) ==
  [d \in Calls |->
     IF /\ d # c /\ call[d].kind = "query"
        /\ call[c].grant # None /\ owner[call[c].grant] # call[d].by
     THEN [call[d] EXCEPT !.switched = TRUE]
     ELSE call[d]]

(* Mutant: the slot is freed, what it held stays.                          *)
EndHalfway(c) == call' = [call EXCEPT ![c].kind = "none"]

End(c) == call' = [Switched(c) EXCEPT ![c] = Idle]

(* Mutants: the answer is not applied; a refused session leaves the loading *)
(* text.                                                                   *)
ReceiveBootUnapplied(c, t) ==
  /\ call[c].kind = "boot"
  /\ loading' = [loading EXCEPT ![t] = FALSE]
  /\ End(c)
  /\ UNCHANGED <<token, user>>

ReceiveBootThrows(c, t) ==
  /\ call[c].kind = "boot"
  /\ RefreshSession(c, t)
  /\ loading' = [loading EXCEPT ![t] = call[c].reply # "ok"]
  /\ End(c)

ReceiveBoot(c, t) ==
  /\ call[c].kind = "boot"
  /\ RefreshSession(c, t)
  /\ loading' = [loading EXCEPT ![t] = FALSE]
  /\ End(c)

ReceiveLogin(c, t) ==
  /\ call[c].kind = "login"
  /\ IF call[c].reply = "ok" THEN applyAuthPayload(t, call[c].grant) ELSE UNCHANGED <<token, user>>
  /\ End(c)
  /\ UNCHANGED loading

ReceiveLogout(c, t) ==
  /\ call[c].kind = "logout"
  /\ SignOut(t)
  /\ End(c)
  /\ UNCHANGED loading

(* Mutants: a 401 signs out at once; a refresh that failed is tried again.  *)
StartRefreshSignsOut(c) ==
  /\ call[c].stage = "sent"
  /\ call[c].reply = "unauthorized"
  /\ SignOut(call[c].tab)
  /\ End(c)
  /\ UNCHANGED loading

RetryRefreshesAgain(c, t) ==
  /\ call[c].stage = "refreshing"
  /\ RefreshSession(c, t)
  /\ IF call[c].reply = "ok"
     THEN call' = [call EXCEPT ![c].stage = "resent", ![c].reply = "waiting",
                               ![c].token = call[c].grant, ![c].grant = None]
     ELSE call' = [call EXCEPT ![c].reply = "waiting", ![c].cookie = cookie]
  /\ UNCHANGED loading

(* A first 401 starts a refresh of its own, with the cookie of the moment. *)
StartRefresh(c) ==
  /\ call[c].stage = "sent"
  /\ call[c].reply = "unauthorized"
  /\ call' = [call EXCEPT ![c].stage = "refreshing", ![c].reply = "waiting", ![c].cookie = cookie]
  /\ UNCHANGED tabVars

(* A refresh that succeeded sends the request again, for the last time; if *)
(* it failed, the call fails with the 401 it had.                          *)
Retry(c, t) ==
  /\ call[c].stage = "refreshing"
  /\ RefreshSession(c, t)
  /\ IF call[c].reply = "ok"
     THEN call' = [Switched(c) EXCEPT ![c].stage = "resent", ![c].reply = "waiting",
                               ![c].token = call[c].grant, ![c].grant = None]
     ELSE End(c)
  /\ UNCHANGED loading

(* The answer reaches the page; updateProfile shows the user it contains.  *)
Finish(c, t) ==
  /\ call[c].stage # "refreshing"
  /\ call[c].stage = "sent" => call[c].reply # "unauthorized"
  /\ user' = IF call[c].kind = "profile" /\ call[c].reply = "ok"
             THEN [user EXCEPT ![t] = owner[call[c].token]]
             ELSE user
  /\ End(c)
  /\ UNCHANGED <<token, loading>>

ReceiveRequest(c, t) ==
  /\ call[c].kind \in {"query", "profile"}
  /\ StartRefresh(c) \/ Retry(c, t) \/ Finish(c, t)

Receive(c) ==
  /\ Busy(c)
  /\ call[c].reply # "waiting"
  /\ LET t == call[c].tab IN
       ReceiveBoot(c, t) \/ ReceiveLogin(c, t) \/ ReceiveLogout(c, t) \/ ReceiveRequest(c, t)
  /\ StoreCookie(c)
  /\ UNCHANGED <<serverVars, faults>>

Next ==
  \/ \E c \in Calls, t \in Tabs :
       Boot(c, t) \/ Query(c, t) \/ UpdateProfile(c, t) \/ Logout(c, t)
  \/ \E c \in Calls, t \in Tabs, u \in Users : Login(c, t, u)
  \/ \E t \in Tabs : Reload(t)
  \/ \E c \in Calls : Serve(c) \/ Exhausted(c) \/ Lose(c) \/ Receive(c)
  \/ \E s \in Ids : Age(s) \/ Revoke(s)

Spec == Init /\ [][Next]_vars

-----------------------------------------------------------------------------
(* The user a tab shows is the owner of the token it sends, and a tab that *)
(* has a token shows a user.                                               *)
Matches(t) == IF user[t] = Nobody THEN token[t] = None
              ELSE token[t] # None /\ owner[token[t]] = user[t]

(* Only the answer of updateProfile can part the two, when the tab's token *)
(* has been replaced or dropped since the request was sent: the profile of *)
(* somebody who has signed out is shown again (updateProfile: setUser      *)
(* without looking at the token).                                          *)
LateProfile(t) ==
  \E c \in Calls :
    /\ call[c].kind = "profile" /\ call[c].tab = t /\ call'[c] = Idle
    /\ call[c].reply = "ok" /\ call[c].token # token[t]

OnlyLateProfilesMislead == \A t \in Tabs : Matches(t) => Matches(t)' \/ LateProfile(t)

(* As long as no answer has crossed a change of the cookie and no answer   *)
(* was lost, browser and server agree: when nothing is in flight and every *)
(* tab says signed out, the browser holds no live session (logout,         *)
(* refreshSession).                                                        *)
SignedOutMeansNoSession ==
  (/\ ~disturbed
   /\ \A c \in Calls : ~Busy(c)
   /\ \A t \in Tabs : ~loading[t] /\ user[t] = Nobody)
  => cookie \notin live

(* A tab drops a user whose session the browser still holds only when it   *)
(* reads an answer to a cookie that has been replaced meanwhile, or an     *)
(* error of the network: never because an access token has expired         *)
(* (apiRequest refreshes first).                                           *)
Drops(t) == user[t] # Nobody /\ user'[t] = Nobody /\ ~loading'[t]

DropsOnlyByCrossing ==
  \A t \in Tabs : (Drops(t) /\ cookie \in live /\ cookie' = cookie) =>
    \E c \in Calls : /\ call[c].kind # "none" /\ call[c].tab = t /\ call[c] # call'[c]
                     /\ call[c].reply = "failed" \/ call[c].cookie # cookie

(* A request is sent again on behalf of another user than the one who made *)
(* it only if the browser had or got the cookie of another user, by way of *)
(* whichever tab (apiRequest: the retry takes the token of the refresh).   *)
RetriedForItsUser ==
  \A c \in Calls : call[c].kind = "query" /\ call[c].stage = "resent" =>
    owner[call[c].token] = call[c].by \/ call[c].switched
=============================================================================
